------------------------- MODULE AttackEventsProofs -------------------------
(* Proofs about CalderaBridge and AttackEvents for any agents, dispatches,    *)
(* targets and scenarios, and any number of failures and stops.               *)
EXTENDS AttackEvents, FiniteSetTheorems, TLAPS

-----------------------------------------------------------------------------
(* The invariant of the bridge.                                               *)

Undoing == {"undo", "abandon", "restore"}

\* Where a dispatch is decides which agents it may have noted or have to patch.
ThreadOK(t) ==
  /\ t.held \union t.todo \subseteq DOMAIN t.seen
  /\ t.pc = "patch" => t.held \intersect t.todo = {}
  /\ t.pc \in Undoing => t.todo = t.held
  /\ t.pc \notin Undoing \union {"patch"} => t.todo = {}
  /\ t.pc \in {"new", "query", "done", "dead"} => t.held = {}

Claims(t) == t.held \union t.todo

\* An undisturbed agent is claimed by one dispatch at most, which has seen it in
\* the default group, and is in the group of the one that noted it.
AgentOK(a) ==
  /\ \A d \in Dispatches : a \in thread[d].held => group[a] = d
  /\ \A d \in Dispatches : a \in Claims(thread[d]) => thread[d].seen[a] = DefaultGroup
  /\ (\A d \in Dispatches : a \notin thread[d].held) => group[a] = DefaultGroup
  /\ \A d \in Dispatches, e \in Dispatches :
       a \in Claims(thread[d]) /\ a \in Claims(thread[e]) => d = e

\* A dispatch polls an operation it launched.
Launched == {"start", "starting", "poll"}

BridgeInv ==
  /\ BridgeTypeOK
  /\ \A d \in Dispatches : thread[d].pc \in Launched => operation[d] # "none"
  /\ \A d \in Dispatches : ThreadOK(thread[d])
  /\ \A a \in Agents \ disturbed : AgentOK(a)

LEMMA ThreadFields ==
  ASSUME NEW t \in ThreadType
  PROVE  /\ t.pc \in Steps /\ t.last \in Observations
         /\ t.todo \subseteq Agents /\ t.held \subseteq Agents
         /\ \A a \in DOMAIN t.seen : a \in Agents /\ t.seen[a] \in Groups
         /\ t = [pc |-> t.pc, seen |-> t.seen, todo |-> t.todo, held |-> t.held,
                 last |-> t.last]
BY DEF ThreadType

\* Threads are typed field by field.
LEMMA ThreadTyped ==
  ASSUME NEW t \in ThreadType, NEW pc \in Steps, NEW todo \in SUBSET Agents,
         NEW held \in SUBSET Agents, NEW last \in Observations
  PROVE  [pc |-> pc, seen |-> t.seen, todo |-> todo, held |-> held, last |-> last]
           \in ThreadType
BY DEF ThreadType

LEMMA ThreadsTyped ==
  ASSUME NEW pc \in Steps
  PROVE  /\ Thread(pc) \in ThreadType /\ Thread(pc).pc = pc
         /\ Thread(pc).held = {} /\ Thread(pc).todo = {}
         /\ pc \notin {"patch"} => ThreadOK(Thread(pc))
<1>1. [a \in {} |-> DefaultGroup] \in UNION {[sel -> Groups] : sel \in SUBSET Agents}
  <2>1. {} \in SUBSET Agents
    OBVIOUS
  <2>2. [a \in {} |-> DefaultGroup] \in [{} -> Groups]
    OBVIOUS
  <2> QED BY <2>1, <2>2
<1> QED BY <1>1 DEF Thread, ThreadType, ThreadOK, Undoing, Observations

\* Dispatch d goes on as t, and moves agents of its own at most.
LEMMA StepKeeps ==
  ASSUME BridgeInv, NEW d \in Dispatches, NEW t \in ThreadType, ThreadOK(t),
         thread' = [thread EXCEPT ![d] = t],
         group' \in [Agents -> Groups], operation' \in [Dispatches -> OperationStates],
         posted' \subseteq Events, failures' \in 0..MaxFailures, stops' \in 0..MaxStops,
         disturbed \subseteq disturbed', disturbed' \subseteq Agents,
         t.pc \in Launched => operation'[d] # "none",
         \A e \in Dispatches : operation[e] # "none" => operation'[e] # "none",
         \A a \in Agents \ disturbed' :
           /\ a \in t.held => group'[a] = d /\ a \in Claims(thread[d])
           /\ a \in Claims(t) => t.seen[a] = DefaultGroup
           /\ a \notin t.held => group'[a] = IF a \in thread[d].held THEN DefaultGroup
                                             ELSE group[a]
           /\ a \in Claims(t) => \/ a \in Claims(thread[d])
                                 \/ \A e \in Dispatches : a \notin Claims(thread[e])
  PROVE  BridgeInv'
<1>1. thread \in [Dispatches -> ThreadType]
  BY DEF BridgeInv, BridgeTypeOK
<1>2. thread'[d] = t /\ \A e \in Dispatches : e # d => thread'[e] = thread[e]
  BY <1>1
<1>3. BridgeTypeOK'
  BY <1>1 DEF BridgeTypeOK
<1>4. \A e \in Dispatches : ThreadOK(thread'[e])
  BY <1>2 DEF BridgeInv
<1>5. ASSUME NEW a \in Agents \ disturbed' PROVE AgentOK(a)'
  <2>1. AgentOK(a)
    BY DEF BridgeInv
  <2>2. \A e \in Dispatches : e # d /\ a \in Claims(thread[e]) => a \notin Claims(t)
    BY <2>1 DEF AgentOK
  <2>3. \A e \in Dispatches : a \in thread'[e].held => group'[a] = e
    BY <1>2, <2>1, <2>2 DEF AgentOK, Claims
  <2>4. \A e \in Dispatches : a \in Claims(thread'[e]) => thread'[e].seen[a] = DefaultGroup
    BY <1>2, <2>1 DEF AgentOK
  <2>5. (\A e \in Dispatches : a \notin thread'[e].held) => group'[a] = DefaultGroup
    BY <1>2, <2>1 DEF AgentOK
  <2>6. \A e \in Dispatches, f \in Dispatches :
          a \in Claims(thread'[e]) /\ a \in Claims(thread'[f]) => e = f
    BY <1>2, <2>1, <2>2 DEF AgentOK
  <2> QED BY <2>3, <2>4, <2>5, <2>6 DEF AgentOK, Claims
<1>6. \A e \in Dispatches : thread'[e].pc \in Launched => operation'[e] # "none"
  BY <1>2 DEF BridgeInv
<1> QED BY <1>3, <1>4, <1>5, <1>6 DEF BridgeInv, ThreadOK

\* A step of a thread that moves no agent and notes none.
LEMMA QuietStep ==
  ASSUME BridgeInv, NEW d \in Dispatches, NEW t \in ThreadType, ThreadOK(t),
         thread' = [thread EXCEPT ![d] = t],
         t.seen = thread[d].seen \/ Claims(t) = {}, t.held = thread[d].held,
         Claims(t) \subseteq Claims(thread[d]),
         UNCHANGED <<group, stops, disturbed>>,
         operation' \in [Dispatches -> OperationStates], posted' \subseteq Events,
         failures' \in 0..MaxFailures,
         t.pc \in Launched => operation'[d] # "none",
         \A e \in Dispatches : operation[e] # "none" => operation'[e] # "none"
  PROVE  BridgeInv'
<1>1. /\ \A a \in Agents \ disturbed : AgentOK(a)
      /\ group \in [Agents -> Groups] /\ stops \in 0..MaxStops /\ disturbed \subseteq Agents
  BY DEF BridgeInv, BridgeTypeOK
<1>2. ASSUME NEW a \in Agents \ disturbed'
      PROVE  /\ a \in t.held => group'[a] = d /\ a \in Claims(thread[d])
             /\ a \in Claims(t) => t.seen[a] = DefaultGroup
             /\ a \notin t.held => group'[a] = IF a \in thread[d].held THEN DefaultGroup
                                             ELSE group[a]
             /\ a \in Claims(t) => a \in Claims(thread[d])
  BY <1>1 DEF AgentOK, Claims
<1> QED BY <1>1, <1>2, StepKeeps

LEMMA ThreadMoved ==
  ASSUME NEW t \in ThreadType, NEW pc \in Steps
  PROVE  LET u == [t EXCEPT !.pc = pc]
         IN /\ u \in ThreadType /\ u.pc = pc /\ u.seen = t.seen /\ u.todo = t.todo
            /\ u.held = t.held /\ u.last = t.last
BY ThreadFields DEF ThreadType

\* What restore_agent_groups leaves of a thread.
LEMMA RestoreLeaves ==
  ASSUME NEW t \in ThreadType, t.pc \in Undoing, t.todo = t.held, t.held \subseteq DOMAIN t.seen
  PROVE  LET u == AfterRestore(t)
         IN /\ u \in ThreadType /\ ThreadOK(u) /\ u.held = t.held /\ u.todo = t.todo
            /\ u.seen = t.seen \/ Claims(u) = {}
            /\ u.pc \in {t.pc, "launch", "done"}
<1>1. CASE t.todo # {}
  BY <1>1 DEF AfterRestore, ThreadOK, Undoing
<1>2. CASE t.todo = {} /\ t.pc = "undo"
  <2> DEFINE u == [t EXCEPT !.pc = "launch"]
  <2>1. /\ u \in ThreadType /\ u.pc = "launch" /\ u.seen = t.seen /\ u.todo = t.todo
        /\ u.held = t.held
    <3>1. "launch" \in Steps
      BY DEF Steps
    <3> QED BY <3>1, ThreadMoved
  <2>2. AfterRestore(t) = u
    BY <1>2 DEF AfterRestore
  <2> HIDE DEF u
  <2> QED BY <1>2, <2>1, <2>2 DEF ThreadOK, Undoing
<1>3. CASE t.todo = {} /\ t.pc # "undo"
  <2>1. AfterRestore(t) = Thread("done")
    BY <1>3 DEF AfterRestore
  <2>2. /\ Thread("done") \in ThreadType /\ Thread("done").pc = "done"
        /\ Thread("done").held = {} /\ Thread("done").todo = {} /\ ThreadOK(Thread("done"))
    BY ThreadsTyped DEF Steps
  <2> QED BY <1>3, <2>1, <2>2 DEF Claims
<1> QED BY <1>1, <1>2, <1>3

\* A thread that goes on to a step of the same kind.
LEMMA GotoStep ==
  ASSUME BridgeInv, NEW d \in Dispatches, NEW pc \in Steps \ (Undoing \union {"patch"}),
         thread[d].todo = {}, pc \in {"query", "done", "dead"} => thread[d].held = {},
         pc # "new", Goto(d, pc), UNCHANGED <<group, stops, disturbed>>,
         operation' \in [Dispatches -> OperationStates], posted' \subseteq Events,
         failures' \in 0..MaxFailures,
         pc \in Launched => operation'[d] # "none",
         \A e \in Dispatches : operation[e] # "none" => operation'[e] # "none"
  PROVE  BridgeInv'
<1> DEFINE u == [thread[d] EXCEPT !.pc = pc]
<1>1. thread[d] \in ThreadType /\ ThreadOK(thread[d]) /\ thread \in [Dispatches -> ThreadType]
  BY DEF BridgeInv, BridgeTypeOK
<1>2. /\ u \in ThreadType /\ u.pc = pc /\ u.seen = thread[d].seen /\ u.todo = {}
      /\ u.held = thread[d].held
  BY <1>1, ThreadMoved
<1>3. thread' = [thread EXCEPT ![d] = u]
  BY <1>1 DEF Goto
<1> HIDE DEF u
<1>4. ThreadOK(u) /\ Claims(u) \subseteq Claims(thread[d])
  BY <1>1, <1>2 DEF ThreadOK, Undoing, Claims
<1> QED BY <1>2, <1>3, <1>4, QuietStep

\* A thread that starts to move its agents back.
LEMMA BackViaStep ==
  ASSUME BridgeInv, NEW d \in Dispatches, NEW pc \in Undoing, BackVia(d, pc),
         UNCHANGED <<group, stops, disturbed>>,
         operation' \in [Dispatches -> OperationStates], posted' \subseteq Events,
         failures' \in 0..MaxFailures,
         \A e \in Dispatches : operation[e] # "none" => operation'[e] # "none"
  PROVE  BridgeInv'
<1> DEFINE t == [thread[d] EXCEPT !.pc = pc, !.todo = thread[d].held]
           u == AfterRestore(t)
<1>1. thread[d] \in ThreadType /\ ThreadOK(thread[d]) /\ thread \in [Dispatches -> ThreadType]
  BY DEF BridgeInv, BridgeTypeOK
<1>2. /\ t \in ThreadType /\ t.pc = pc /\ t.seen = thread[d].seen
      /\ t.todo = thread[d].held /\ t.held = thread[d].held
  BY <1>1, ThreadFields DEF ThreadType, Undoing, Steps
<1>3. thread' = [thread EXCEPT ![d] = u]
  BY <1>1 DEF BackVia
<1>4. t.held \subseteq DOMAIN t.seen
  BY <1>1, <1>2 DEF ThreadOK
<1> HIDE DEF t
<1>5. /\ u \in ThreadType /\ ThreadOK(u) /\ u.held = t.held /\ u.todo = t.todo
      /\ u.seen = t.seen \/ Claims(u) = {}
      /\ u.pc \notin Launched
  BY <1>2, <1>4, RestoreLeaves DEF Undoing, Launched
<1> HIDE DEF u
<1>6. Claims(u) \subseteq Claims(thread[d])
  BY <1>2, <1>5 DEF Claims
<1> QED BY <1>2, <1>3, <1>5, <1>6, QuietStep

LEMMA QueryStep ==
  ASSUME BridgeInv, NEW d \in Dispatches, Query(d)
  PROVE  BridgeInv'
<1>1. /\ thread[d] \in ThreadType /\ ThreadOK(thread[d]) /\ thread \in [Dispatches -> ThreadType]
      /\ thread[d].pc = "query" /\ thread[d].held = {} /\ thread[d].todo = {}
      /\ group \in [Agents -> Groups] /\ disturbed \subseteq Agents
  BY DEF BridgeInv, BridgeTypeOK, Query, At, ThreadOK, Undoing
<1>2. PICK sel \in SUBSET TargetsOf[d] :
        /\ thread' = [thread EXCEPT ![d] =
             [@ EXCEPT !.pc = IF sel = {} THEN "launch" ELSE "patch",
                       !.seen = [a \in sel |-> group[a]], !.todo = sel]]
        /\ disturbed' = disturbed \union (sel \intersect UNION {Selected(e) : e \in Dispatches})
  BY DEF Query
<1>3. sel \subseteq Agents
  BY TargetsAssumption
<1> DEFINE seen == [a \in sel |-> group[a]]
           u == [thread[d] EXCEPT !.pc = IF sel = {} THEN "launch" ELSE "patch",
                                  !.seen = seen, !.todo = sel]
<1>4. seen \in [sel -> Groups] /\ DOMAIN seen = sel /\ \A a \in sel : seen[a] = group[a]
  BY <1>1, <1>3
<1>5. seen \in UNION {[s -> Groups] : s \in SUBSET Agents}
  BY <1>3, <1>4
<1>6. thread' = [thread EXCEPT ![d] = u]
  BY <1>1, <1>2
<1> HIDE DEF seen
<1>7. /\ u \in ThreadType /\ u.pc = (IF sel = {} THEN "launch" ELSE "patch")
      /\ u.seen = seen /\ u.todo = sel /\ u.held = {}
  BY <1>1, <1>3, <1>5, ThreadFields DEF ThreadType, Steps
<1>8. ThreadOK(u)
  BY <1>4, <1>7 DEF ThreadOK, Undoing
<1> HIDE DEF u
<1>9. \A e \in Dispatches : Claims(thread[e]) \subseteq Selected(e)
  BY DEF BridgeInv, ThreadOK, Selected, Working, Claims, Undoing
<1>10. ASSUME NEW a \in Agents \ disturbed', a \in sel
       PROVE  (\A e \in Dispatches : a \notin Claims(thread[e])) /\ group[a] = DefaultGroup
  <2>1. \A e \in Dispatches : a \notin Selected(e)
    BY <1>2, <1>10
  <2> QED BY <1>2, <1>9, <2>1 DEF BridgeInv, AgentOK, Claims
<1>11. disturbed' \subseteq Agents /\ disturbed \subseteq disturbed'
  BY <1>1, <1>2, <1>3
<1>12. UNCHANGED <<group, operation, posted, failures, stops>>
  BY DEF Query
<1>13. ASSUME NEW a \in Agents \ disturbed'
       PROVE  /\ a \in u.held => group'[a] = d /\ a \in Claims(thread[d])
              /\ a \in Claims(u) => u.seen[a] = DefaultGroup
              /\ a \notin u.held => group'[a] = IF a \in thread[d].held THEN DefaultGroup
                                              ELSE group[a]
              /\ a \in Claims(u) => \A e \in Dispatches : a \notin Claims(thread[e])
  BY <1>1, <1>4, <1>7, <1>10, <1>12 DEF Claims
<1>14. /\ group' \in [Agents -> Groups] /\ operation' \in [Dispatches -> OperationStates]
       /\ posted' \subseteq Events /\ failures' \in 0..MaxFailures /\ stops' \in 0..MaxStops
  BY <1>12 DEF BridgeInv, BridgeTypeOK
<1>15. u.pc \notin Launched /\ operation' = operation
  BY <1>7, <1>12 DEF Launched
<1> QED BY <1>6, <1>7, <1>8, <1>11, <1>13, <1>14, <1>15, StepKeeps

LEMMA PatchEffect ==
  ASSUME BridgeInv, NEW a \in Agents, NEW g \in Groups, NEW ok \in BOOLEAN, PatchGroup(a, g, ok)
  PROVE  /\ group' \in [Agents -> Groups] /\ failures' \in 0..MaxFailures
         /\ \A b \in Agents \ {a} : group'[b] = group[b]
         /\ disturbed \subseteq disturbed' /\ disturbed' \subseteq Agents
         /\ a \notin disturbed' => group'[a] = g
<1>1. /\ group \in [Agents -> Groups] /\ failures \in 0..MaxFailures /\ disturbed \subseteq Agents
      /\ MaxFailures \in Nat
  BY BridgeBounds DEF BridgeInv, BridgeTypeOK
<1>2. CASE ok
  BY <1>1, <1>2 DEF PatchGroup
<1>3. CASE ~ok
  <2>1. /\ failures < MaxFailures /\ failures' = failures + 1
        /\ group' \in {group, [group EXCEPT ![a] = g]} /\ disturbed' = disturbed \union {a}
    BY <1>3 DEF PatchGroup
  <2> QED BY <1>1, <2>1
<1> QED BY <1>2, <1>3

LEMMA PatchNextStep ==
  ASSUME BridgeInv, NEW d \in Dispatches, NEW a \in Agents, PatchNext(d, a)
  PROVE  BridgeInv'
<1> DEFINE t == thread[d]
<1>1. /\ t \in ThreadType /\ ThreadOK(t) /\ thread \in [Dispatches -> ThreadType]
      /\ t.pc = "patch" /\ a \in t.todo /\ d \in Groups
      /\ operation' \in [Dispatches -> OperationStates] /\ posted' \subseteq Events
      /\ stops' \in 0..MaxStops
  BY DEF BridgeInv, BridgeTypeOK, PatchNext, At, Groups
<1>2. t.held \intersect t.todo = {} /\ t.held \union t.todo \subseteq DOMAIN t.seen
  BY <1>1 DEF ThreadOK
<1>3. \A b \in Agents \ disturbed : AgentOK(b)
  BY DEF BridgeInv
<1>4. CASE /\ PatchGroup(a, d, TRUE)
           /\ thread' = [thread EXCEPT ![d].held = @ \union {a}, ![d].todo = @ \ {a},
                                       ![d].pc = IF t.todo = {a} THEN "launch" ELSE "patch"]
  <2> DEFINE u == [t EXCEPT !.held = @ \union {a}, !.todo = @ \ {a},
                            !.pc = IF t.todo = {a} THEN "launch" ELSE "patch"]
  <2>1. thread' = [thread EXCEPT ![d] = u]
    BY <1>1, <1>4
  <2>2. /\ u \in ThreadType /\ u.pc = (IF t.todo = {a} THEN "launch" ELSE "patch")
        /\ u.seen = t.seen /\ u.todo = t.todo \ {a} /\ u.held = t.held \union {a}
    BY <1>1, ThreadFields DEF ThreadType, Steps
  <2>3. /\ group' \in [Agents -> Groups] /\ failures' \in 0..MaxFailures
        /\ \A b \in Agents \ {a} : group'[b] = group[b]
        /\ disturbed \subseteq disturbed' /\ disturbed' \subseteq Agents
        /\ a \notin disturbed' => group'[a] = d
    BY <1>1, <1>4, PatchEffect
  <2> HIDE DEF u
  <2>4. ThreadOK(u) /\ Claims(u) \subseteq Claims(t)
    BY <1>1, <1>2, <2>2 DEF ThreadOK, Undoing, Claims
  <2>5. ASSUME NEW b \in Agents \ disturbed'
        PROVE  /\ b \in u.held => group'[b] = d /\ b \in Claims(t)
               /\ b \in Claims(u) => u.seen[b] = DefaultGroup
               /\ b \notin u.held => group'[b] = IF b \in t.held THEN DefaultGroup ELSE group[b]
    BY <1>1, <1>3, <2>2, <2>3, <2>4 DEF AgentOK, Claims
  <2>6. u.pc \notin Launched /\ operation' = operation
    BY <2>2 DEF Launched, PatchNext
  <2> QED BY <1>1, <2>1, <2>2, <2>3, <2>4, <2>5, <2>6, StepKeeps
<1>5. CASE /\ PatchGroup(a, d, FALSE)
           /\ thread' = [thread EXCEPT ![d].todo = t.held,
                                       ![d].pc = IF t.held = {} THEN "launch" ELSE "undo"]
  <2> DEFINE u == [t EXCEPT !.todo = t.held, !.pc = IF t.held = {} THEN "launch" ELSE "undo"]
  <2>1. thread' = [thread EXCEPT ![d] = u]
    BY <1>1, <1>5
  <2>2. /\ u \in ThreadType /\ u.pc = (IF t.held = {} THEN "launch" ELSE "undo")
        /\ u.seen = t.seen /\ u.todo = t.held /\ u.held = t.held
    BY <1>1, ThreadFields DEF ThreadType, Steps
  <2>3. /\ group' \in [Agents -> Groups] /\ failures' \in 0..MaxFailures
        /\ \A b \in Agents \ {a} : group'[b] = group[b]
        /\ disturbed \subseteq disturbed' /\ disturbed' \subseteq Agents
        /\ a \in disturbed'
    BY <1>1, <1>5, PatchEffect DEF PatchGroup
  <2> HIDE DEF u
  <2>4. ThreadOK(u) /\ Claims(u) \subseteq Claims(t)
    BY <1>1, <1>2, <2>2 DEF ThreadOK, Undoing, Claims
  <2>5. ASSUME NEW b \in Agents \ disturbed'
        PROVE  /\ b \in u.held => group'[b] = d /\ b \in Claims(t)
               /\ b \in Claims(u) => u.seen[b] = DefaultGroup
               /\ b \notin u.held => group'[b] = IF b \in t.held THEN DefaultGroup ELSE group[b]
    BY <1>1, <1>3, <2>2, <2>3, <2>4 DEF AgentOK, Claims
  <2>6. u.pc \notin Launched /\ operation' = operation
    BY <2>2 DEF Launched, PatchNext
  <2> QED BY <1>1, <2>1, <2>2, <2>3, <2>4, <2>5, <2>6, StepKeeps
<1> QED BY <1>4, <1>5 DEF PatchNext

LEMMA RestoreStep ==
  ASSUME BridgeInv, NEW d \in Dispatches, NEW a \in Agents, Restore(d, a)
  PROVE  BridgeInv'
<1> DEFINE t == thread[d]
           u == Without(t, a)
           v == AfterRestore(u)
<1>1. /\ t \in ThreadType /\ ThreadOK(t) /\ thread \in [Dispatches -> ThreadType]
      /\ t.pc \in Undoing /\ a \in t.todo /\ t.todo = t.held /\ a \in DOMAIN t.seen
      /\ t.held \subseteq DOMAIN t.seen
      /\ operation' \in [Dispatches -> OperationStates] /\ posted' \subseteq Events
      /\ stops' \in 0..MaxStops
  BY DEF BridgeInv, BridgeTypeOK, Restore, ThreadOK, Undoing
<1>2. \A b \in Agents \ disturbed : AgentOK(b)
  BY DEF BridgeInv
<1>3. /\ u \in ThreadType /\ u.pc = t.pc /\ u.seen = t.seen /\ u.todo = t.todo \ {a}
      /\ u.held = t.held \ {a}
  BY <1>1, ThreadFields DEF ThreadType, Without
<1>4. thread' = [thread EXCEPT ![d] = v]
  BY DEF Restore
<1>5. /\ v \in ThreadType /\ ThreadOK(v) /\ v.held = t.held \ {a} /\ v.todo = t.todo \ {a}
      /\ v.seen = t.seen \/ Claims(v) = {}
      /\ v.pc \in {t.pc, "launch", "done"}
  <2> HIDE DEF u
  <2>1. /\ v \in ThreadType /\ ThreadOK(v) /\ v.held = u.held /\ v.todo = u.todo
        /\ v.seen = u.seen \/ Claims(v) = {}
        /\ v.pc \in {u.pc, "launch", "done"}
    BY <1>1, <1>3, RestoreLeaves
  <2> HIDE DEF v
  <2> QED BY <1>3, <2>1
<1> HIDE DEF u, v
<1>6. t.seen[a] \in Groups
  BY <1>1, ThreadFields
<1>7. /\ group' \in [Agents -> Groups] /\ failures' \in 0..MaxFailures
      /\ \A b \in Agents \ {a} : group'[b] = group[b]
      /\ disturbed \subseteq disturbed' /\ disturbed' \subseteq Agents
      /\ a \notin disturbed' => group'[a] = t.seen[a]
  <2>1. PICK ok \in BOOLEAN : PatchGroup(a, t.seen[a], ok)
    BY DEF Restore, OriginalGroup
  <2> HIDE DEF t
  <2> QED BY <1>6, <2>1, PatchEffect
<1>8. a \notin disturbed' => t.seen[a] = DefaultGroup
  BY <1>1, <1>2, <1>7 DEF AgentOK, Claims
<1>9. ASSUME NEW b \in Agents \ disturbed'
      PROVE  /\ b \in v.held => group'[b] = d /\ b \in Claims(t)
             /\ b \in Claims(v) => v.seen[b] = DefaultGroup /\ b \in Claims(t)
             /\ b \notin v.held => group'[b] = IF b \in t.held THEN DefaultGroup ELSE group[b]
  BY <1>1, <1>2, <1>5, <1>7, <1>8 DEF AgentOK, Claims
<1>10. v.pc \notin Launched /\ operation' = operation
  BY <1>1, <1>5 DEF Launched, Undoing, Restore
<1> QED BY <1>1, <1>4, <1>5, <1>7, <1>9, <1>10, StepKeeps

LEMMA LaunchStep ==
  ASSUME BridgeInv, NEW d \in Dispatches, Launch(d)
  PROVE  BridgeInv'
<1>1. thread[d].todo = {} /\ "start" \in Steps \ (Undoing \union {"patch"}) /\ "abandon" \in Undoing
  BY DEF BridgeInv, ThreadOK, Launch, At, Undoing, Steps
<1>2. /\ operation' \in [Dispatches -> OperationStates] /\ posted' \subseteq Events
      /\ UNCHANGED <<group, stops, disturbed>>
  BY DEF BridgeInv, BridgeTypeOK, Launch, OperationStates
<1>3. failures' \in 0..MaxFailures
  BY BridgeBounds DEF BridgeInv, BridgeTypeOK, Launch
<1>7. \A e \in Dispatches : operation[e] # "none" => operation'[e] # "none"
  BY DEF BridgeInv, BridgeTypeOK, Launch
<1>4. \/ Goto(d, "start") /\ operation'[d] # "none"
      \/ BackVia(d, "abandon")
  BY DEF Launch, BridgeInv, BridgeTypeOK
<1>5. CASE Goto(d, "start") /\ operation'[d] # "none"
  BY <1>1, <1>2, <1>3, <1>5, <1>7, GotoStep
<1>6. CASE BackVia(d, "abandon")
  BY <1>1, <1>2, <1>3, <1>6, <1>7, BackViaStep
<1> QED BY <1>4, <1>5, <1>6

LEMMA PollStep ==
  ASSUME BridgeInv, NEW d \in Dispatches, Poll(d)
  PROVE  BridgeInv'
<1> DEFINE t == thread[d]
<1>1. /\ t \in ThreadType /\ ThreadOK(t) /\ thread \in [Dispatches -> ThreadType]
      /\ t.pc = "poll" /\ t.todo = {} /\ operation' = operation /\ operation[d] # "none"
      /\ operation' \in [Dispatches -> OperationStates] /\ posted' \subseteq Events
      /\ UNCHANGED <<group, stops, disturbed>>
  BY DEF BridgeInv, BridgeTypeOK, Poll, At, ThreadOK, Undoing, Launched
<1>2. failures' \in 0..MaxFailures
  BY BridgeBounds DEF BridgeInv, BridgeTypeOK, Poll
<1>3. ASSUME NEW last \in Observations, NEW pc \in {"poll", "result"},
             thread' = [thread EXCEPT ![d].last = last, ![d].pc = pc]
      PROVE  BridgeInv'
  <2> DEFINE u == [t EXCEPT !.last = last, !.pc = pc]
  <2>1. thread' = [thread EXCEPT ![d] = u]
    BY <1>1, <1>3
  <2>2. /\ u \in ThreadType /\ u.pc = pc /\ u.seen = t.seen /\ u.todo = {} /\ u.held = t.held
    BY <1>1, ThreadFields DEF ThreadType, Steps
  <2> HIDE DEF u
  <2>3. ThreadOK(u) /\ Claims(u) \subseteq Claims(t)
    BY <1>1, <2>2 DEF ThreadOK, Undoing, Claims
  <2> QED BY <1>1, <1>2, <2>1, <2>2, <2>3, QuietStep
<1>4. CASE thread' = [thread EXCEPT ![d].last = operation[d],
                                    ![d].pc = IF operation[d] \in Ended THEN "result" ELSE "poll"]
  <2>1. operation[d] \in Observations
    BY <1>1 DEF BridgeInv, BridgeTypeOK, OperationStates, Observations
  <2> QED BY <1>3, <1>4, <2>1
<1>5. CASE thread' = [thread EXCEPT ![d].last = "lost"]
  <2>1. thread' = [thread EXCEPT ![d].last = "lost", ![d].pc = "poll"]
    BY <1>1, <1>5, ThreadFields
  <2> QED BY <1>3, <2>1 DEF Observations
<1>6. CASE Goto(d, "result")
  <2>1. "result" \in Steps \ (Undoing \union {"patch"})
    BY DEF Steps, Undoing
  <2> QED BY <1>1, <1>2, <1>6, <2>1, GotoStep
<1> QED BY <1>4, <1>5, <1>6 DEF Poll

LEMMA BridgeInvInit == BridgeInit => BridgeInv
<1> SUFFICES ASSUME BridgeInit PROVE BridgeInv
  OBVIOUS
<1>1. /\ Thread("new") \in ThreadType /\ Thread("new").pc = "new" /\ ThreadOK(Thread("new"))
      /\ Thread("new").held = {} /\ Thread("new").todo = {}
  BY ThreadsTyped DEF Steps
<1>2. \A d \in Dispatches : thread[d] = Thread("new")
  BY DEF BridgeInit
<1>3. BridgeTypeOK
  BY <1>1, BridgeBounds DEF BridgeInit, BridgeTypeOK, Groups, OperationStates
<1>4. \A a \in Agents : AgentOK(a)
  BY <1>1, <1>2 DEF BridgeInit, AgentOK, Claims
<1> QED BY <1>1, <1>2, <1>3, <1>4 DEF BridgeInv, Launched

\* The bridge process stops: what its threads claim is disturbed.
LEMMA StopsStep ==
  ASSUME BridgeInv, BridgeStops
  PROVE  BridgeInv'
<1>1. /\ thread \in [Dispatches -> ThreadType] /\ \A d \in Dispatches : ThreadOK(thread[d])
      /\ disturbed \subseteq Agents /\ UNCHANGED <<group, operation, posted, failures>>
      /\ disturbed' = disturbed \union UNION {Selected(d) : d \in Dispatches}
      /\ stops \in 0..MaxStops /\ stops < MaxStops /\ stops' = stops + 1
  BY DEF BridgeInv, BridgeTypeOK, BridgeStops
<1>2. /\ Thread("dead") \in ThreadType /\ Thread("dead").pc = "dead" /\ ThreadOK(Thread("dead"))
      /\ Thread("dead").held = {} /\ Thread("dead").todo = {}
  BY ThreadsTyped DEF Steps
<1>3. \A d \in Dispatches :
        thread'[d] = IF thread[d].pc \in {"new", "done", "dead"} THEN thread[d] ELSE Thread("dead")
  BY DEF BridgeStops
<1>4. \A d \in Dispatches : /\ thread'[d] \in ThreadType /\ ThreadOK(thread'[d])
                            /\ Claims(thread'[d]) = {} /\ thread'[d].pc \notin Launched
                            /\ Claims(thread[d]) \subseteq Selected(d)
                            /\ Selected(d) \subseteq Agents
  BY <1>1, <1>2, <1>3, ThreadFields
     DEF ThreadOK, Claims, Launched, Selected, Working, Undoing
<1>5. BridgeTypeOK'
  <2>1. thread' \in [Dispatches -> ThreadType]
    <3>1. thread' = [d \in Dispatches |-> thread'[d]]
      BY DEF BridgeStops
    <3> QED BY <1>4, <3>1
  <2>2. disturbed' \subseteq Agents
    BY <1>1, <1>4
  <2>3. stops' \in 0..MaxStops
    BY <1>1, BridgeBounds
  <2> QED BY <1>1, <2>1, <2>2, <2>3 DEF BridgeInv, BridgeTypeOK
<1>6. ASSUME NEW a \in Agents \ disturbed' PROVE AgentOK(a)'
  <2>1. AgentOK(a) /\ \A d \in Dispatches : a \notin Claims(thread[d])
    BY <1>1, <1>4, <1>6 DEF BridgeInv
  <2>2. group'[a] = DefaultGroup
    BY <1>1, <2>1 DEF AgentOK, Claims
  <2> QED BY <1>4, <2>2 DEF AgentOK, Claims
<1> QED BY <1>4, <1>5, <1>6 DEF BridgeInv, ThreadOK

LEMMA OperationEndsStep ==
  ASSUME BridgeInv, NEW d \in Dispatches, OperationEnds(d)
  PROVE  BridgeInv'
<1>1. /\ operation' \in [Dispatches -> OperationStates]
      /\ \A e \in Dispatches : operation[e] # "none" => operation'[e] # "none"
      /\ UNCHANGED <<group, thread, posted, failures, stops, disturbed>>
  BY DEF BridgeInv, BridgeTypeOK, OperationEnds, OperationStates, Ended
<1> QED BY <1>1 DEF BridgeInv, BridgeTypeOK, ThreadOK, AgentOK, Claims

LEMMA EventsTyped ==
  ASSUME NEW d \in Dispatches, NEW last
  PROVE  StartEvent(d) \in Events /\ ResultEvent(d, last) \in Events
BY DEF StartEvent, ResultEvent, Events

\* The steps of a thread that only go on.
LEMMA PlainStep ==
  ASSUME BridgeInv, NEW d \in Dispatches,
         Preflight(d) \/ PostStart(d) \/ StartPolling(d) \/ PostResult(d)
  PROVE  BridgeInv'
<1>1. /\ thread[d].todo = {}
      /\ thread[d].pc = "new" => thread[d].held = {}
      /\ UNCHANGED <<group, stops, disturbed, operation, failures>>
      /\ operation \in [Dispatches -> OperationStates] /\ failures \in 0..MaxFailures
      /\ thread[d].pc \in Launched => operation[d] # "none"
  BY DEF BridgeInv, BridgeTypeOK, ThreadOK, Preflight, PostStart, StartPolling, PostResult, At,
         Undoing
<1>2. posted' \subseteq Events
  BY EventsTyped DEF BridgeInv, BridgeTypeOK, Preflight, PostStart, StartPolling, PostResult
<1>3. PICK pc \in {"query", "done", "starting", "poll", "resulting"} :
        /\ Goto(d, pc)
        /\ pc \in {"query", "done"} => thread[d].pc = "new"
        /\ pc \in Launched => thread[d].pc \in Launched
  BY DEF Preflight, PostStart, StartPolling, PostResult, At, Launched
<1>4. pc \in Steps \ (Undoing \union {"patch"}) /\ pc # "new"
  BY DEF Steps, Undoing
<1>5. /\ pc \in {"query", "done", "dead"} => thread[d].held = {}
      /\ pc \in Launched => operation'[d] # "none"
      /\ \A e \in Dispatches : operation[e] # "none" => operation'[e] # "none"
      /\ operation' \in [Dispatches -> OperationStates] /\ failures' \in 0..MaxFailures
  BY <1>1, <1>3
<1> QED BY <1>1, <1>2, <1>3, <1>4, <1>5, GotoStep

LEMMA FinishPollingStep ==
  ASSUME BridgeInv, NEW d \in Dispatches, FinishPolling(d)
  PROVE  BridgeInv'
<1>1. /\ UNCHANGED <<group, operation, posted, failures, stops, disturbed>>
      /\ BackVia(d, "restore") /\ "restore" \in Undoing
  BY DEF FinishPolling, Undoing
<1> QED BY <1>1, BackViaStep DEF BridgeInv, BridgeTypeOK

LEMMA BridgeInvNext == BridgeInv /\ [BridgeNext]_bridgeVars => BridgeInv'
<1> SUFFICES ASSUME BridgeInv, [BridgeNext]_bridgeVars PROVE BridgeInv'
  OBVIOUS
<1>1. CASE UNCHANGED bridgeVars
  BY <1>1 DEF bridgeVars, BridgeInv, BridgeTypeOK, ThreadOK, AgentOK, Claims
<1>2. CASE BridgeStops
  BY <1>2, StopsStep
<1>3. ASSUME NEW d \in Dispatches, DispatchStep(d) \/ OperationEnds(d) PROVE BridgeInv'
  BY <1>3, QueryStep, PatchNextStep, RestoreStep, LaunchStep, PollStep, PlainStep,
     FinishPollingStep, OperationEndsStep DEF DispatchStep
<1> QED BY <1>1, <1>2, <1>3 DEF BridgeNext

LEMMA BridgeInvHolds == BridgeSpec => []BridgeInv
BY BridgeInvInit, BridgeInvNext, PTL DEF BridgeSpec

\* However dispatches interleave, fail and are cut off, an agent that no two of them
\* took at once, whose PATCH did not fail and whose dispatch did not stop is in the
\* group of the one dispatch that noted it, else in the default group
\* (scope_agents_to_group, restore_agent_groups).
THEOREM AgentsAreAccounted == BridgeSpec => []AgentsAccounted
<1>1. BridgeInv => AgentsAccounted
  <2> SUFFICES ASSUME BridgeInv, NEW a \in Agents \ disturbed
               PROVE  LET holders == {d \in Dispatches : Working(d) /\ a \in thread[d].held}
                      IN IF holders = {} THEN group[a] = DefaultGroup ELSE holders = {group[a]}
    BY DEF AgentsAccounted
  <2> DEFINE holders == {d \in Dispatches : Working(d) /\ a \in thread[d].held}
  <2>1. holders = {d \in Dispatches : a \in thread[d].held}
    BY DEF BridgeInv, ThreadOK, Working
  <2>2. AgentOK(a)
    BY DEF BridgeInv
  <2> HIDE DEF holders
  <2>3. CASE holders = {}
    BY <2>1, <2>2, <2>3 DEF AgentOK
  <2>4. CASE holders # {}
    <3>1. \A d \in holders : d = group[a]
      BY <2>1, <2>2 DEF AgentOK
    <3>2. PICK d : d \in holders
      BY <2>4
    <3>3. holders = {group[a]}
      BY <3>1, <3>2
    <3> QED BY <2>4, <3>3 DEF holders
  <2> QED BY <2>3, <2>4 DEF holders
<1> QED BY <1>1, BridgeInvHolds, PTL

-----------------------------------------------------------------------------
(* The bridge within the campaign.                                            *)

LEMMA CampaignStepsBridge == [CampaignNext]_campaignVars => [BridgeNext]_bridgeVars
BY DEF CampaignNext, campaignVars, bridgeVars, BridgeNext, BridgeAlone, DispatchStep, PostsStart,
       PostsResult, StartsPolling, FinishesPolling, Serve, Log, Report, Answer, Record

\* The services change nothing of the bridge: every behaviour of the campaign is one
\* of the bridge, and what holds of the one holds in the other.
THEOREM CampaignIsBridge == CampaignSpec => BridgeSpec
<1>1. CampaignInit => BridgeInit
  BY DEF CampaignInit
<1> QED BY <1>1, CampaignStepsBridge, PTL DEF CampaignSpec, BridgeSpec

Early == {"new", "query", "patch", "undo", "launch", "abandon"}

\* What the bridge does to a thread while it posts nothing.
QuietMove(d) ==
  \/ /\ thread'[d].pc = thread[d].pc
     /\ thread[d].pc = "resulting" => thread'[d].last = thread[d].last
  \/ thread[d].pc \in Early /\ thread'[d].pc \in Early \union {"start", "done"}
  \/ thread[d].pc = "poll" /\ thread'[d].pc = "result"
  \/ thread[d].pc = "restore" /\ thread'[d].pc = "done"
  \/ thread[d].pc \notin {"new", "done", "dead"} /\ thread'[d].pc = "dead"

LEMMA AloneMoves ==
  ASSUME BridgeInv, BridgeAlone
  PROVE  posted' = posted /\ \A d \in Dispatches : QuietMove(d)
<1>1. thread \in [Dispatches -> ThreadType] /\ \A d \in Dispatches : ThreadOK(thread[d])
  BY DEF BridgeInv, BridgeTypeOK
<1>2. CASE BridgeStops
  BY <1>1, <1>2, ThreadsTyped DEF BridgeStops, QuietMove, Steps
<1>3. ASSUME NEW d \in Dispatches, NEW t, thread' = [thread EXCEPT ![d] = t], posted' = posted,
             \/ t.pc = thread[d].pc /\ thread[d].pc # "resulting"
             \/ thread[d].pc \in Early /\ t.pc \in Early \union {"start", "done"}
             \/ thread[d].pc = "poll" /\ t.pc = "result"
             \/ thread[d].pc = "restore" /\ t.pc = "done"
      PROVE  posted' = posted /\ \A x \in Dispatches : QuietMove(x)
  <2>1. thread'[d] = t /\ \A x \in Dispatches \ {d} : thread'[x] = thread[x]
    BY <1>1, <1>3
  <2> QED BY <1>3, <2>1 DEF QuietMove
<1>4. ASSUME NEW d \in Dispatches, NEW pc \in Steps, Goto(d, pc), posted' = posted,
             \/ thread[d].pc \in Early /\ pc \in Early \union {"start", "done"}
             \/ thread[d].pc = "poll" /\ pc = "result"
      PROVE  posted' = posted /\ \A x \in Dispatches : QuietMove(x)
  <2> DEFINE t == [thread[d] EXCEPT !.pc = pc]
  <2>1. t.pc = pc /\ thread' = [thread EXCEPT ![d] = t]
    BY <1>1, <1>4, ThreadMoved DEF Goto
  <2> HIDE DEF t
  <2> QED BY <1>3, <1>4, <2>1
<1>5. ASSUME NEW d \in Dispatches, Preflight(d)
      PROVE  posted' = posted /\ \A x \in Dispatches : QuietMove(x)
  <2>1. /\ Goto(d, "done") \/ Goto(d, "query")
        /\ thread[d].pc \in Early /\ posted' = posted
    BY <1>5 DEF Preflight, At, Early
  <2> QED BY <1>4, <2>1 DEF Early, Steps
<1>6. ASSUME NEW d \in Dispatches, Query(d)
      PROVE  posted' = posted /\ \A x \in Dispatches : QuietMove(x)
  <2>1. PICK sel : thread' = [thread EXCEPT ![d] =
          [@ EXCEPT !.pc = IF sel = {} THEN "launch" ELSE "patch",
                    !.seen = [a \in sel |-> group[a]], !.todo = sel]]
    BY <1>6 DEF Query
  <2> DEFINE t == [thread[d] EXCEPT !.pc = IF sel = {} THEN "launch" ELSE "patch",
                                    !.seen = [a \in sel |-> group[a]], !.todo = sel]
  <2>2. t.pc \in Early /\ thread' = [thread EXCEPT ![d] = t]
    BY <1>1, <2>1, ThreadFields DEF Early, ThreadType
  <2>3. thread[d].pc \in Early /\ posted' = posted
    BY <1>6 DEF Query, At, Early
  <2> HIDE DEF t
  <2> QED BY <1>3, <2>2, <2>3
<1>7. ASSUME NEW d \in Dispatches, NEW a \in Agents, PatchNext(d, a)
      PROVE  posted' = posted /\ \A x \in Dispatches : QuietMove(x)
  <2>1. PICK held, todo, pc : pc \in {"launch", "patch", "undo"} /\
          thread' = [thread EXCEPT ![d].held = held, ![d].todo = todo, ![d].pc = pc]
    <3>1. CASE thread' = [thread EXCEPT ![d].held = @ \union {a}, ![d].todo = @ \ {a},
                            ![d].pc = IF thread[d].todo = {a} THEN "launch" ELSE "patch"]
      BY <1>1, <3>1
    <3>2. CASE thread' = [thread EXCEPT ![d].todo = thread[d].held,
                            ![d].pc = IF thread[d].held = {} THEN "launch" ELSE "undo"]
      <4>1. thread' = [thread EXCEPT ![d].held = thread[d].held, ![d].todo = thread[d].held,
                            ![d].pc = IF thread[d].held = {} THEN "launch" ELSE "undo"]
        BY <1>1, <3>2, ThreadFields
      <4> QED BY <4>1
    <3> QED BY <1>7, <3>1, <3>2 DEF PatchNext
  <2> DEFINE t == [thread[d] EXCEPT !.held = held, !.todo = todo, !.pc = pc]
  <2>2. t.pc = pc /\ thread' = [thread EXCEPT ![d] = t]
    BY <1>1, <2>1, ThreadFields DEF ThreadType
  <2>3. thread[d].pc \in Early /\ posted' = posted /\ pc \in Early
    BY <1>7, <2>1 DEF PatchNext, At, Early
  <2> HIDE DEF t
  <2> QED BY <1>3, <2>2, <2>3
<1>8. ASSUME NEW d \in Dispatches, NEW a \in Agents, Restore(d, a)
      PROVE  posted' = posted /\ \A x \in Dispatches : QuietMove(x)
  <2> DEFINE u == Without(thread[d], a)
             v == AfterRestore(u)
  <2>1. u.pc = thread[d].pc /\ u.pc \in {"undo", "abandon", "restore"} /\ posted' = posted
        /\ thread' = [thread EXCEPT ![d] = v]
    BY <1>1, <1>8, ThreadFields DEF Restore, Without, ThreadType
  <2> HIDE DEF u
  <2>2. \/ v.pc = u.pc
        \/ u.pc = "undo" /\ v.pc = "launch"
        \/ v.pc = "done"
    <3>1. CASE u.todo # {}
      BY <3>1 DEF AfterRestore
    <3>2. CASE u.todo = {} /\ u.pc = "undo"
      <4>1. v = [u EXCEPT !.pc = "launch"]
        BY <3>2 DEF AfterRestore
      <4>2. u \in ThreadType
        BY <1>1, ThreadFields DEF u, Without, ThreadType
      <4> QED BY <3>2, <4>1, <4>2, ThreadMoved DEF Steps
    <3>3. CASE u.todo = {} /\ u.pc # "undo"
      BY <3>3 DEF AfterRestore, Thread
    <3> QED BY <3>1, <3>2, <3>3
  <2> HIDE DEF v
  <2> QED BY <1>3, <2>1, <2>2 DEF Early
<1>9. ASSUME NEW d \in Dispatches, Launch(d)
      PROVE  posted' = posted /\ \A x \in Dispatches : QuietMove(x)
  <2>1. thread[d].pc = "launch" /\ posted' = posted /\ "start" \in Steps
    BY <1>9 DEF Launch, At, Steps
  <2>2. CASE Goto(d, "start")
    BY <1>4, <2>1, <2>2 DEF Early
  <2>3. CASE BackVia(d, "abandon")
    <3> DEFINE u == [thread[d] EXCEPT !.pc = "abandon", !.todo = thread[d].held]
               v == AfterRestore(u)
    <3>1. u.pc = "abandon" /\ thread' = [thread EXCEPT ![d] = v]
      BY <1>1, <2>3, ThreadFields DEF BackVia, ThreadType
    <3> HIDE DEF u
    <3>2. v.pc \in {"abandon", "done"}
      BY <3>1 DEF AfterRestore, Thread
    <3> HIDE DEF v
    <3> QED BY <1>3, <2>1, <3>1, <3>2 DEF Early
  <2> QED BY <1>9, <2>2, <2>3 DEF Launch
<1>10. ASSUME NEW d \in Dispatches, Poll(d)
       PROVE  posted' = posted /\ \A x \in Dispatches : QuietMove(x)
  <2>1. thread[d].pc = "poll" /\ posted' = posted /\ "result" \in Steps
    BY <1>10 DEF Poll, At, Steps
  <2>2. CASE Goto(d, "result")
    BY <1>4, <2>1, <2>2
  <2>3. CASE \E last, pc : pc \in {"poll", "result"} /\
               thread' = [thread EXCEPT ![d].last = last, ![d].pc = pc]
    <3>1. PICK last, pc : pc \in {"poll", "result"} /\
               thread' = [thread EXCEPT ![d].last = last, ![d].pc = pc]
      BY <2>3
    <3> DEFINE u == [thread[d] EXCEPT !.last = last, !.pc = pc]
    <3>2. u.pc = pc /\ thread' = [thread EXCEPT ![d] = u]
      BY <1>1, <3>1, ThreadFields DEF ThreadType
    <3> HIDE DEF u
    <3> QED BY <1>3, <2>1, <3>1, <3>2
  <2>4. CASE thread' = [thread EXCEPT ![d].last = "lost"]
    <3> DEFINE u == [thread[d] EXCEPT !.last = "lost"]
    <3>1. u.pc = "poll" /\ thread' = [thread EXCEPT ![d] = u]
      BY <1>1, <2>1, <2>4, ThreadFields DEF ThreadType
    <3> HIDE DEF u
    <3> QED BY <1>3, <2>1, <3>1
  <2>5. thread' = [thread EXCEPT ![d].last = operation[d],
                                 ![d].pc = IF operation[d] \in Ended THEN "result" ELSE "poll"]
          => \E last, pc : pc \in {"poll", "result"} /\
               thread' = [thread EXCEPT ![d].last = last, ![d].pc = pc]
    OBVIOUS
  <2> QED BY <1>10, <2>2, <2>3, <2>4, <2>5 DEF Poll
<1>11. ASSUME NEW d \in Dispatches, OperationEnds(d)
       PROVE  posted' = posted /\ \A x \in Dispatches : QuietMove(x)
  BY <1>11 DEF OperationEnds, QuietMove
<1> QED BY <1>2, <1>5, <1>6, <1>7, <1>8, <1>9, <1>10, <1>11 DEF BridgeAlone, BridgeStops

-----------------------------------------------------------------------------
(* The invariant of the events.                                               *)

Past == {"poll", "result", "resulting", "restore"}
Begun == {"starting"} \union Past

LogTyped ==
  /\ log \in Seq(Events)
  /\ progress \in [Events -> Stages]
  /\ \A e \in Events : progress[e] # "unsent" <=> e \in posted
  /\ answered \subseteq posted /\ overdue \subseteq posted
  /\ attack_active \in [Scenarios -> BOOLEAN]
  /\ latest_results \in [Scenarios -> {{}} \union {{e} : e \in Events}]
  /\ overlapped \subseteq Scenarios

\* A dispatch posts its start, then one result.
PostedInOrder ==
  /\ \A d \in Dispatches : thread[d].pc \in Begun => StartEvent(d) \in posted
  /\ \A d \in Dispatches :
       StartEvent(d) \in posted => thread[d].pc \in Begun \union {"done", "dead"}
  /\ \A d \in Dispatches :
       thread[d].pc = "resulting" => ResultEvent(d, thread[d].last) \in posted
  /\ \A e \in posted : e.type = "attack_result" =>
       thread[e.op].pc \in {"resulting", "restore", "done", "dead"}
  /\ \A e \in posted, f \in posted :
       e.type = "attack_result" /\ f.type = "attack_result" /\ e.op = f.op => e = f

\* What the bridge went on after.
Heard(e) == e \in answered \/ progress[e] = "lost" \/ e \in overdue

HeardInOrder ==
  /\ \A d \in Dispatches : thread[d].pc \in Past => Heard(StartEvent(d))
  /\ \A e \in posted : e.type = "attack_result" => Heard(StartEvent(e.op))
  /\ \A e \in answered : \/ progress[e] \in {"recorded", "unreported"}
                         \/ progress[e] = "to_metrics" /\ e \in overdue

\* Where the events in the log are.
LogKept ==
  /\ \A i \in DOMAIN log : progress[log[i]] \in {"logged", "to_metrics", "recorded", "unreported"}
  /\ \A i \in DOMAIN log, j \in DOMAIN log : i # j => log[i] # log[j]
  /\ \A i \in DOMAIN log, j \in DOMAIN log :
       i < j /\ log[i].type = "attack_result" /\ log[j] = StartEvent(log[i].op) =>
         StartEvent(log[i].op) \in overdue

EventsInv == BridgeInv /\ LogTyped /\ PostedInOrder /\ HeardInOrder /\ LogKept

LEMMA EventKinds ==
  ASSUME NEW e \in Events
  PROVE  /\ e.op \in Dispatches /\ e.type \in {"attack_start", "attack_result"}
         /\ e.type = "attack_start" => e = StartEvent(e.op)
BY DEF Events, StartEvent

LEMMA EventNames ==
  ASSUME NEW d, NEW last
  PROVE  /\ StartEvent(d).op = d /\ StartEvent(d).type = "attack_start"
         /\ ResultEvent(d, last).op = d /\ ResultEvent(d, last).type = "attack_result"
BY DEF StartEvent, ResultEvent

\* A thread that posts or waits for an answer moves on its own.
LEMMA OwnMoves ==
  ASSUME BridgeInv, NEW d \in Dispatches
  PROVE  /\ PostStart(d) =>
              /\ thread[d].pc = "start" /\ thread'[d].pc = "starting"
              /\ posted' = posted \union {StartEvent(d)}
         /\ StartPolling(d) =>
              thread[d].pc = "starting" /\ thread'[d].pc = "poll" /\ posted' = posted
         /\ PostResult(d) =>
              /\ thread[d].pc = "result" /\ thread'[d].pc = "resulting"
              /\ thread'[d].last = thread[d].last
              /\ posted' = posted \union {ResultEvent(d, thread[d].last)}
         /\ FinishPolling(d) =>
              /\ thread[d].pc = "resulting" /\ thread'[d].pc \in {"restore", "done"}
              /\ posted' = posted
         /\ PostStart(d) \/ StartPolling(d) \/ PostResult(d) \/ FinishPolling(d) =>
              \A x \in Dispatches \ {d} : thread'[x] = thread[x]
<1>1. thread \in [Dispatches -> ThreadType]
  BY DEF BridgeInv, BridgeTypeOK
<1>2. ASSUME NEW pc \in Steps, Goto(d, pc)
      PROVE  /\ thread'[d].pc = pc /\ thread'[d].last = thread[d].last
             /\ \A x \in Dispatches \ {d} : thread'[x] = thread[x]
  BY <1>1, <1>2, ThreadFields DEF Goto, ThreadType
<1>3. CASE PostStart(d)
  BY <1>2, <1>3 DEF PostStart, At, StartPolling, PostResult, FinishPolling, Steps
<1>4. CASE StartPolling(d)
  BY <1>2, <1>4 DEF PostStart, At, StartPolling, PostResult, FinishPolling, Steps
<1>5. CASE PostResult(d)
  BY <1>2, <1>5 DEF PostStart, At, StartPolling, PostResult, FinishPolling, Steps
<1>6. CASE FinishPolling(d)
  <2> DEFINE u == [thread[d] EXCEPT !.pc = "restore", !.todo = thread[d].held]
             v == AfterRestore(u)
  <2>1. u.pc = "restore" /\ thread' = [thread EXCEPT ![d] = v]
    BY <1>1, <1>6, ThreadFields DEF FinishPolling, BackVia, ThreadType
  <2> HIDE DEF u
  <2>2. v.pc \in {"restore", "done"}
    BY <2>1 DEF AfterRestore, Thread
  <2> HIDE DEF v
  <2>3. thread'[d].pc \in {"restore", "done"} /\ \A x \in Dispatches \ {d} : thread'[x] = thread[x]
    BY <1>1, <2>1, <2>2
  <2> QED BY <1>6, <2>3 DEF PostStart, At, StartPolling, PostResult, FinishPolling
<1> QED BY <1>3, <1>4, <1>5, <1>6

\* Whatever a step does, the threads move like this.
LEMMA PostedInOrderNext ==
  ASSUME BridgeInv, PostedInOrder, [CampaignNext]_campaignVars
  PROVE  PostedInOrder'
<1>0. posted \subseteq Events
  BY DEF BridgeInv, BridgeTypeOK
<1>1. CASE posted' = posted /\ \A d \in Dispatches : QuietMove(d)
  <2>1. \A d \in Dispatches : thread'[d].pc \in Begun => thread[d].pc \in Begun
    BY <1>1 DEF QuietMove, Begun, Past, Early
  <2>2. \A d \in Dispatches : thread[d].pc \in Begun \union {"done", "dead"} =>
                                thread'[d].pc \in Begun \union {"done", "dead"}
    BY <1>1 DEF QuietMove, Begun, Past, Early
  <2>3. \A d \in Dispatches : thread'[d].pc = "resulting" =>
           thread[d].pc = "resulting" /\ thread'[d].last = thread[d].last
    BY <1>1 DEF QuietMove, Early
  <2>4. \A d \in Dispatches : thread[d].pc \in {"resulting", "restore", "done", "dead"} =>
                              thread'[d].pc \in {"resulting", "restore", "done", "dead"}
    BY <1>1 DEF QuietMove, Early
  <2>5. \A e \in posted : e.op \in Dispatches
    BY <1>0, EventKinds
  <2> QED BY <1>1, <2>1, <2>2, <2>3, <2>4, <2>5 DEF PostedInOrder
<1>2. ASSUME NEW d \in Dispatches, PostStart(d) PROVE PostedInOrder'
  <2> DEFINE s == StartEvent(d)
  <2>1. /\ thread[d].pc = "start" /\ thread'[d].pc = "starting" /\ posted' = posted \union {s}
        /\ \A x \in Dispatches \ {d} : thread'[x] = thread[x]
    BY <1>2, OwnMoves
  <2>2. s.type = "attack_start" /\ s.op = d /\ \A x : StartEvent(x).op = x
    BY EventNames
  <2>3. \A x \in Dispatches : StartEvent(x) \in posted' => x = d \/ StartEvent(x) \in posted
    BY <2>1, <2>2
  <2>4. \A e \in posted' : e.type = "attack_result" => e \in posted
    BY <2>1, <2>2
  <2>5. \A e \in posted : e.op \in Dispatches
    BY <1>0, EventKinds
  <2>6. /\ \A x \in Dispatches : thread'[x].pc \in Begun => StartEvent(x) \in posted'
        /\ \A x \in Dispatches : StartEvent(x) \in posted' =>
             thread'[x].pc \in Begun \union {"done", "dead"}
    BY <2>1, <2>3 DEF PostedInOrder, Begun
  <2>7. \A x \in Dispatches : thread'[x].pc = "resulting" =>
             ResultEvent(x, thread'[x].last) \in posted'
    BY <2>1 DEF PostedInOrder
  <2>8. \A e \in posted' : e.type = "attack_result" =>
             thread'[e.op].pc \in {"resulting", "restore", "done", "dead"}
    BY <2>1, <2>4, <2>5 DEF PostedInOrder
  <2>9. \A e \in posted', f \in posted' :
             e.type = "attack_result" /\ f.type = "attack_result" /\ e.op = f.op => e = f
    BY <2>4 DEF PostedInOrder
  <2> QED BY <2>6, <2>7, <2>8, <2>9 DEF PostedInOrder
<1>3. ASSUME NEW d \in Dispatches, StartPolling(d) PROVE PostedInOrder'
  BY <1>0, <1>3, OwnMoves, EventKinds, EventNames DEF PostedInOrder, Begun, Past
<1>4. ASSUME NEW d \in Dispatches, PostResult(d) PROVE PostedInOrder'
  <2> DEFINE r == ResultEvent(d, thread[d].last)
  <2>1. /\ thread[d].pc = "result" /\ thread'[d].pc = "resulting"
        /\ thread'[d].last = thread[d].last /\ posted' = posted \union {r}
        /\ \A x \in Dispatches \ {d} : thread'[x] = thread[x]
    BY <1>4, OwnMoves
  <2>2. /\ r.type = "attack_result" /\ r.op = d
        /\ \A x : StartEvent(x).op = x /\ StartEvent(x).type = "attack_start"
    BY EventNames
  <2> HIDE DEF r
  <2>3. \A x \in Dispatches : StartEvent(x) \in posted' => StartEvent(x) \in posted
    BY <2>1, <2>2
  <2>4. \A e \in posted : e.op \in Dispatches
    BY <1>0, EventKinds
  <2>5. \A e \in posted : e.type = "attack_result" => e.op # d
    BY <2>1 DEF PostedInOrder
  <2>6. /\ \A x \in Dispatches : thread'[x].pc \in Begun => StartEvent(x) \in posted'
        /\ \A x \in Dispatches : StartEvent(x) \in posted' =>
             thread'[x].pc \in Begun \union {"done", "dead"}
    BY <2>1, <2>3 DEF PostedInOrder, Begun, Past
  <2>7. \A x \in Dispatches : thread'[x].pc = "resulting" =>
             ResultEvent(x, thread'[x].last) \in posted'
    BY <2>1 DEF PostedInOrder, r
  <2>8. \A e \in posted' : e.type = "attack_result" =>
             thread'[e.op].pc \in {"resulting", "restore", "done", "dead"}
    BY <2>1, <2>2, <2>4 DEF PostedInOrder
  <2>9. \A e \in posted', f \in posted' :
             e.type = "attack_result" /\ f.type = "attack_result" /\ e.op = f.op => e = f
    BY <2>1, <2>2, <2>5 DEF PostedInOrder
  <2> QED BY <2>6, <2>7, <2>8, <2>9 DEF PostedInOrder
<1>5. ASSUME NEW d \in Dispatches, FinishPolling(d) PROVE PostedInOrder'
  BY <1>0, <1>5, OwnMoves, EventKinds, EventNames DEF PostedInOrder, Begun, Past
<1>6. CASE UNCHANGED bridgeVars
  BY <1>6 DEF bridgeVars, PostedInOrder
<1> QED BY <1>1, <1>2, <1>3, <1>4, <1>5, <1>6, AloneMoves
        DEF CampaignNext, campaignVars, PostsStart, PostsResult, StartsPolling, FinishesPolling,
            Serve, Log, Report, Answer, Record, bridgeVars

-----------------------------------------------------------------------------
(* The steps of the campaign, as far as the events see them.                  *)

\* The bridge posts an event that was not posted before.
PostsOne(e) ==
  /\ e \in Events \ posted
  /\ posted' = posted \union {e}
  /\ Posted(e)

\* A step of the campaign posts an event, waits for one, serves one, or leaves them alone.
LEMMA EventSteps ==
  ASSUME BridgeInv, PostedInOrder, [CampaignNext]_campaignVars
  PROVE  \/ posted' = posted /\ UNCHANGED eventVars
         \/ \E e \in Events : PostsOne(e) /\ overlapped' \subseteq overlapped \union Range(ScenarioOf)
         \/ \E e \in posted : GoesOn(e) /\ posted' = posted
         \/ \E e \in posted : Serve(e) /\ posted' = posted
<1>1. CASE BridgeAlone /\ UNCHANGED eventVars
  BY <1>1, AloneMoves
<1>2. ASSUME NEW d \in Dispatches, PostsStart(d)
      PROVE  \E e \in Events : PostsOne(e) /\ overlapped' \subseteq overlapped \union Range(ScenarioOf)
  <2>1. StartEvent(d) \in Events
    BY DEF StartEvent, Events
  <2>2. thread[d].pc = "start" /\ posted' = posted \union {StartEvent(d)}
    BY <1>2, OwnMoves DEF PostsStart
  <2>3. StartEvent(d) \notin posted
    BY <2>2 DEF PostedInOrder, Begun, Past
  <2>4. overlapped' \subseteq overlapped \union {ScenarioOf[d]}
    BY <1>2 DEF PostsStart
  <2>5. ScenarioOf[d] \in Range(ScenarioOf)
    BY ScenarioAssumption DEF Range
  <2> QED BY <1>2, <2>1, <2>2, <2>3, <2>4, <2>5 DEF PostsOne, PostsStart
<1>3. ASSUME NEW d \in Dispatches, PostsResult(d)
      PROVE  \E e \in Events : PostsOne(e) /\ overlapped' \subseteq overlapped \union Range(ScenarioOf)
  <2> DEFINE r == ResultEvent(d, thread[d].last)
  <2>1. r \in Events
    BY DEF ResultEvent, Events
  <2>2. thread[d].pc = "result" /\ posted' = posted \union {r}
    BY <1>3, OwnMoves DEF PostsResult
  <2>3. r.op = d /\ r.type = "attack_result"
    BY EventNames
  <2>4. r \notin posted
    BY <2>2, <2>3 DEF PostedInOrder
  <2> QED BY <1>3, <2>1, <2>2, <2>4 DEF PostsOne, PostsResult
<1>4. ASSUME NEW d \in Dispatches, StartsPolling(d)
      PROVE  \E e \in posted : GoesOn(e) /\ posted' = posted
  <2>1. thread[d].pc = "starting" /\ posted' = posted
    BY <1>4, OwnMoves DEF StartsPolling
  <2>2. StartEvent(d) \in posted
    BY <2>1 DEF PostedInOrder, Begun
  <2> QED BY <1>4, <2>1, <2>2 DEF StartsPolling
<1>5. ASSUME NEW d \in Dispatches, FinishesPolling(d)
      PROVE  \E e \in posted : GoesOn(e) /\ posted' = posted
  <2>1. thread[d].pc = "resulting" /\ posted' = posted
    BY <1>5, OwnMoves DEF FinishesPolling
  <2>2. ResultEvent(d, thread[d].last) \in posted
    BY <2>1 DEF PostedInOrder
  <2> QED BY <1>5, <2>1, <2>2 DEF FinishesPolling
<1>6. ASSUME NEW e \in posted, Serve(e) PROVE posted' = posted
  BY <1>6 DEF Serve, Log, Report, Answer, Record, bridgeVars
<1>7. CASE UNCHANGED campaignVars
  BY <1>7 DEF campaignVars, bridgeVars
<1> QED BY <1>1, <1>2, <1>3, <1>4, <1>5, <1>6, <1>7 DEF CampaignNext

LEMMA ProgressMoved ==
  ASSUME LogTyped, NEW e \in Events, NEW st \in Stages, progress' = [progress EXCEPT ![e] = st]
  PROVE  /\ progress' \in [Events -> Stages]
         /\ progress'[e] = st /\ \A f \in Events \ {e} : progress'[f] = progress[f]
BY DEF LogTyped

LEMMA ScenarioTyped ==
  ASSUME NEW e \in Events
  PROVE  Scenario(e) \in Scenarios
BY EventKinds, ScenarioAssumption DEF Scenario

LEMMA LogTypedNext ==
  ASSUME BridgeInv, PostedInOrder, LogTyped, [CampaignNext]_campaignVars
  PROVE  LogTyped'
<1>0. posted \subseteq Events
  BY DEF BridgeInv, BridgeTypeOK
<1>1. CASE posted' = posted /\ UNCHANGED eventVars
  BY <1>1 DEF LogTyped, eventVars
<1>2. ASSUME NEW e \in Events, PostsOne(e), overlapped' \subseteq overlapped \union Range(ScenarioOf)
      PROVE  LogTyped'
  <2>1. PICK st \in {"to_logger", "lost"} : progress' = [progress EXCEPT ![e] = st]
    BY <1>2 DEF PostsOne, Posted, Moves
  <2>2. st \in Stages /\ st # "unsent"
    BY <2>1 DEF Stages
  <2>3. /\ progress' \in [Events -> Stages]
        /\ progress'[e] = st /\ \A f \in Events \ {e} : progress'[f] = progress[f]
    BY <2>1, <2>2, ProgressMoved
  <2>4. Range(ScenarioOf) \subseteq Scenarios
    BY ScenarioAssumption DEF Range
  <2> QED BY <1>2, <2>2, <2>3, <2>4 DEF LogTyped, PostsOne, Posted
<1>3. ASSUME NEW e \in posted, GoesOn(e), posted' = posted PROVE LogTyped'
  BY <1>3 DEF LogTyped, GoesOn
<1>4. ASSUME NEW e \in posted, Serve(e), posted' = posted PROVE LogTyped'
  <2>0. e \in Events /\ progress[e] # "unsent" /\ Scenario(e) \in Scenarios
    BY <1>0, ScenarioTyped DEF LogTyped
  <2>1. ASSUME NEW st \in Stages \ {"unsent"}, progress' = [progress EXCEPT ![e] = st]
        PROVE  progress' \in [Events -> Stages] /\ \A f \in Events : progress'[f] # "unsent" <=> f \in posted'
    BY <1>4, <2>0, <2>1, ProgressMoved DEF LogTyped
  <2>2. CASE Log(e)
    BY <1>4, <2>0, <2>1, <2>2 DEF Log, LogTyped, Stages
  <2>3. CASE Report(e)
    BY <1>4, <2>0, <2>1, <2>3 DEF Report, Moves, LogTyped, Stages
  <2>4. CASE Answer(e)
    BY <1>4, <2>0, <2>4 DEF Answer, LogTyped
  <2>5. CASE Record(e)
    <3>1. progress' \in [Events -> Stages] /\ \A f \in Events : progress'[f] # "unsent" <=> f \in posted'
      BY <2>1, <2>5 DEF Record, Stages
    <3>2. attack_active' \in [Scenarios -> BOOLEAN]
      BY <2>5 DEF Record, ActiveAfter, LogTyped
    <3>3. {e} \in {{}} \union {{f} : f \in Events}
      BY <2>0
    <3>4. latest_results' \in [Scenarios -> {{}} \union {{f} : f \in Events}]
      BY <2>5, <3>3 DEF Record, Latest, LogTyped
    <3> QED BY <1>4, <2>5, <3>1, <3>2, <3>4 DEF Record, LogTyped
  <2> QED BY <1>4, <2>2, <2>3, <2>4, <2>5 DEF Serve
<1> QED BY <1>1, <1>2, <1>3, <1>4, EventSteps

\* What the bridge once went on after, it goes on after.
LEMMA HeardStays ==
  ASSUME BridgeInv, PostedInOrder, LogTyped, [CampaignNext]_campaignVars, NEW f \in posted, Heard(f)
  PROVE  Heard(f)'
<1>0. posted \subseteq Events
  BY DEF BridgeInv, BridgeTypeOK
<1>1. CASE posted' = posted /\ UNCHANGED eventVars
  BY <1>1 DEF Heard, eventVars
<1>2. ASSUME NEW e \in Events, PostsOne(e) PROVE Heard(f)'
  BY <1>0, <1>2 DEF PostsOne, Posted, Moves, LogTyped, Heard
<1>3. ASSUME NEW e \in posted, GoesOn(e) PROVE Heard(f)'
  BY <1>3 DEF GoesOn, Heard
<1>4. ASSUME NEW e \in posted, Serve(e) PROVE Heard(f)'
  <2>1. progress[f] = "lost" => progress'[f] = "lost"
    BY <1>0, <1>4 DEF Serve, Log, Report, Answer, Record, Moves, LogTyped
  <2>2. answered \subseteq answered' /\ overdue \subseteq overdue'
    BY <1>4 DEF Serve, Log, Report, Answer, Record
  <2> QED BY <2>1, <2>2 DEF Heard
<1> QED BY <1>1, <1>2, <1>3, <1>4, EventSteps

LEMMA AnsweredNext ==
  ASSUME BridgeInv, PostedInOrder, LogTyped, HeardInOrder, [CampaignNext]_campaignVars,
         NEW f \in answered'
  PROVE  \/ progress'[f] \in {"recorded", "unreported"}
         \/ progress'[f] = "to_metrics" /\ f \in overdue'
<1>0. posted \subseteq Events /\ answered \subseteq posted
  BY DEF BridgeInv, BridgeTypeOK, LogTyped
<1>1. CASE posted' = posted /\ UNCHANGED eventVars
  BY <1>1 DEF HeardInOrder, eventVars
<1>2. ASSUME NEW e \in Events, PostsOne(e)
      PROVE  \/ progress'[f] \in {"recorded", "unreported"}
             \/ progress'[f] = "to_metrics" /\ f \in overdue'
  BY <1>0, <1>2 DEF PostsOne, Posted, Moves, LogTyped, HeardInOrder
<1>3. ASSUME NEW e \in posted, GoesOn(e)
      PROVE  \/ progress'[f] \in {"recorded", "unreported"}
             \/ progress'[f] = "to_metrics" /\ f \in overdue'
  BY <1>3 DEF GoesOn, HeardInOrder
<1>4. ASSUME NEW e \in posted, Serve(e)
      PROVE  \/ progress'[f] \in {"recorded", "unreported"}
             \/ progress'[f] = "to_metrics" /\ f \in overdue'
  <2>1. CASE Log(e)
    BY <1>0, <2>1 DEF Log, LogTyped, HeardInOrder
  <2>2. CASE Report(e)
    BY <1>0, <2>2 DEF Report, Moves, LogTyped, HeardInOrder
  <2>3. CASE Answer(e)
    BY <1>0, <2>3 DEF Answer, LogTyped, HeardInOrder
  <2>4. CASE Record(e)
    BY <1>0, <2>4 DEF Record, LogTyped, HeardInOrder
  <2> QED BY <1>4, <2>1, <2>2, <2>3, <2>4 DEF Serve
<1> QED BY <1>1, <1>2, <1>3, <1>4, EventSteps

\* A thread gets past the start of its operation, and a result is posted, only so.
LEMMA PastSteps ==
  ASSUME BridgeInv, PostedInOrder, [CampaignNext]_campaignVars
  PROVE  /\ \A d \in Dispatches :
              thread'[d].pc \in Past => thread[d].pc \in Past \/ GoesOn(StartEvent(d))
         /\ \A e \in posted' : e.type = "attack_result" =>
              e \in posted \/ (e.op \in Dispatches /\ thread[e.op].pc \in Past)
<1>1. CASE posted' = posted /\ \A d \in Dispatches : QuietMove(d)
  BY <1>1 DEF QuietMove, Past, Early
<1>2. ASSUME NEW d \in Dispatches, PostStart(d)
      PROVE  /\ \A x \in Dispatches : thread'[x].pc \in Past => thread[x].pc \in Past
             /\ \A e \in posted' : e.type = "attack_result" => e \in posted
  BY <1>2, OwnMoves, EventNames DEF Past
<1>3. ASSUME NEW d \in Dispatches, StartsPolling(d)
      PROVE  /\ \A x \in Dispatches : thread'[x].pc \in Past =>
                  thread[x].pc \in Past \/ GoesOn(StartEvent(x))
             /\ posted' = posted
  <2>1. posted' = posted /\ \A x \in Dispatches \ {d} : thread'[x] = thread[x]
    BY <1>3, OwnMoves DEF StartsPolling
  <2> QED BY <1>3, <2>1 DEF StartsPolling
<1>4. ASSUME NEW d \in Dispatches, PostResult(d)
      PROVE  /\ \A x \in Dispatches : thread'[x].pc \in Past => thread[x].pc \in Past
             /\ \A e \in posted' : e.type = "attack_result" =>
                  e \in posted \/ (e.op \in Dispatches /\ thread[e.op].pc \in Past)
  <2> DEFINE r == ResultEvent(d, thread[d].last)
  <2>1. /\ thread[d].pc \in Past /\ posted' = posted \union {r}
        /\ \A x \in Dispatches \ {d} : thread'[x] = thread[x]
    BY <1>4, OwnMoves DEF Past
  <2>2. r.op = d
    BY EventNames
  <2> HIDE DEF r
  <2> QED BY <2>1, <2>2
<1>5. ASSUME NEW d \in Dispatches, FinishPolling(d)
      PROVE  /\ \A x \in Dispatches : thread'[x].pc \in Past => thread[x].pc \in Past
             /\ posted' = posted
  BY <1>5, OwnMoves DEF Past
<1>6. CASE UNCHANGED bridgeVars
  BY <1>6 DEF bridgeVars
<1> QED BY <1>1, <1>2, <1>3, <1>4, <1>5, <1>6, AloneMoves
        DEF CampaignNext, campaignVars, PostsStart, PostsResult, FinishesPolling,
            Serve, Log, Report, Answer, Record, bridgeVars

LEMMA HeardInOrderNext ==
  ASSUME BridgeInv, PostedInOrder, LogTyped, HeardInOrder, [CampaignNext]_campaignVars
  PROVE  HeardInOrder'
<1>1. \A d \in Dispatches : thread[d].pc \in Past => StartEvent(d) \in posted
  BY DEF PostedInOrder, Begun
<1>2. \A d \in Dispatches : thread[d].pc \in Past => Heard(StartEvent(d))'
  BY <1>1, HeardStays DEF HeardInOrder
<1>3. ASSUME NEW e, GoesOn(e) PROVE Heard(e)'
  BY <1>3 DEF GoesOn, Heard
<1>4. \A d \in Dispatches : thread'[d].pc \in Past => Heard(StartEvent(d))'
  BY <1>2, <1>3, PastSteps
<1>5. ASSUME NEW e \in posted', e.type = "attack_result"
      PROVE  Heard(StartEvent(e.op))'
  <2>1. CASE e \in posted
    <3>1. e \in Events
      BY <2>1 DEF BridgeInv, BridgeTypeOK
    <3>2. thread[e.op].pc \in {"resulting", "restore", "done", "dead"} /\ Heard(StartEvent(e.op))
      BY <1>5, <2>1 DEF PostedInOrder, HeardInOrder
    <3>3. StartEvent(e.op) \in posted
      <4>1. StartEvent(e.op) \in Events
        BY <3>1, EventKinds DEF StartEvent, Events
      <4> QED BY <3>2, <4>1 DEF Heard, LogTyped
    <3> QED BY <3>2, <3>3, HeardStays
  <2>2. CASE e \notin posted
    BY <1>2, <1>5, <2>2, PastSteps
  <2> QED BY <2>1, <2>2
<1> QED BY <1>4, <1>5, AnsweredNext DEF HeardInOrder

-----------------------------------------------------------------------------
\* An event in the log is at the logger or beyond, and stays there.
LEMMA BeyondTheLogger ==
  ASSUME BridgeInv, PostedInOrder, LogTyped, [CampaignNext]_campaignVars,
         NEW e \in Events, progress[e] \in {"logged", "to_metrics", "recorded", "unreported"}
  PROVE  progress'[e] \in {"logged", "to_metrics", "recorded", "unreported"}
<1>0. posted \subseteq Events /\ e \in posted
  BY DEF BridgeInv, BridgeTypeOK, LogTyped
<1>2. ASSUME NEW f \in Events, PostsOne(f) PROVE progress'[e] = progress[e]
  BY <1>0, <1>2 DEF PostsOne, Posted, Moves, LogTyped
<1>4. ASSUME NEW f \in posted, Serve(f)
      PROVE  progress'[e] \in {"logged", "to_metrics", "recorded", "unreported"}
  BY <1>0, <1>4 DEF Serve, Log, Report, Answer, Record, Moves, LogTyped
<1> QED BY <1>2, <1>4, EventSteps DEF GoesOn, eventVars

LEMMA LogKeptNext ==
  ASSUME BridgeInv, PostedInOrder, LogTyped, HeardInOrder, LogKept, [CampaignNext]_campaignVars
  PROVE  LogKept'
<1> DEFINE Beyond == {"logged", "to_metrics", "recorded", "unreported"}
<1>0. posted \subseteq Events
  BY DEF BridgeInv, BridgeTypeOK
<1>1. overdue \subseteq overdue'
  BY EventSteps DEF GoesOn, Serve, Log, Report, Answer, Record, PostsOne, Posted, eventVars
<1>2. \A i \in DOMAIN log : log[i] \in Events /\ progress'[log[i]] \in Beyond
  BY BeyondTheLogger DEF LogKept, LogTyped
<1>3. CASE log' = log
  BY <1>1, <1>2, <1>3 DEF LogKept
<1>4. ASSUME NEW e \in posted, Log(e)
      PROVE  LogKept'
  <2> DEFINE n == Len(log)
  <2>1. n \in Nat /\ DOMAIN log = 1..n /\ e \in Events
    BY <1>0 DEF LogTyped
  <2>2. DOMAIN log' = 1..(n + 1) /\ log'[n + 1] = e /\ \A i \in 1..n : log'[i] = log[i]
    BY <1>4, <2>1 DEF Log, LogTyped
  <2>3. progress[e] = "to_logger" /\ progress'[e] = "logged" /\ overdue' = overdue
    BY <1>4, <2>1 DEF Log, LogTyped
  <2>4. \A i \in 1..n : log[i] # e
    BY <2>1, <2>3 DEF LogKept
  <2>5. ASSUME NEW i \in 1..n, log[i].type = "attack_result", e = StartEvent(log[i].op)
        PROVE  e \in overdue
    <3>1. log[i] \in posted
      BY <2>1 DEF LogKept, LogTyped
    <3>2. Heard(e)
      BY <2>5, <3>1 DEF HeardInOrder
    <3> QED BY <2>3, <3>2 DEF Heard, HeardInOrder
  <2> HIDE DEF n
  <2>6. \A i \in DOMAIN log' : progress'[log'[i]] \in Beyond
    BY <1>2, <2>1, <2>2, <2>3
  <2>7. \A i \in DOMAIN log', j \in DOMAIN log' : i # j => log'[i] # log'[j]
    BY <2>1, <2>2, <2>4 DEF LogKept
  <2>8. \A i \in DOMAIN log', j \in DOMAIN log' :
          i < j /\ log'[i].type = "attack_result" /\ log'[j] = StartEvent(log'[i].op) =>
            StartEvent(log'[i].op) \in overdue'
    <3> SUFFICES ASSUME NEW i \in 1..(n + 1), NEW j \in 1..(n + 1), i < j,
                        log'[i].type = "attack_result", log'[j] = StartEvent(log'[i].op)
                 PROVE  StartEvent(log'[i].op) \in overdue
      BY <2>2, <2>3
    <3>1. i \in 1..n /\ log'[i] = log[i]
      BY <2>1, <2>2
    <3>2. CASE j = n + 1
      BY <2>2, <2>5, <3>1, <3>2
    <3>3. CASE j \in 1..n
      BY <2>1, <2>2, <3>1, <3>3 DEF LogKept
    <3> QED BY <2>1, <3>2, <3>3
  <2> QED BY <2>6, <2>7, <2>8 DEF LogKept
<1> QED BY <1>3, <1>4, EventSteps DEF GoesOn, Serve, Report, Answer, Record, PostsOne, Posted, eventVars

LEMMA EventsInvHolds == CampaignSpec => []EventsInv
<1>1. CampaignInit => LogTyped /\ PostedInOrder /\ HeardInOrder /\ LogKept
  <2> SUFFICES ASSUME CampaignInit
               PROVE  LogTyped /\ PostedInOrder /\ HeardInOrder /\ LogKept
    OBVIOUS
  <2>1. log = <<>> /\ posted = {} /\ answered = {} /\ overdue = {} /\ overlapped = {}
    BY DEF CampaignInit, BridgeInit
  <2>2. \A d \in Dispatches : thread[d].pc = "new"
    BY DEF CampaignInit, BridgeInit, Thread
  <2>3. progress \in [Events -> Stages] /\ \A e \in Events : progress[e] = "unsent"
    BY DEF CampaignInit, Stages
  <2>4. attack_active \in [Scenarios -> BOOLEAN]
        /\ latest_results \in [Scenarios -> {{}} \union {{e} : e \in Events}]
    BY DEF CampaignInit
  <2>5. LogTyped
    BY <2>1, <2>3, <2>4 DEF LogTyped
  <2>6. PostedInOrder /\ HeardInOrder
    BY <2>1, <2>2 DEF PostedInOrder, HeardInOrder, Begun, Past
  <2>7. LogKept
    BY <2>1 DEF LogKept
  <2> QED BY <2>5, <2>6, <2>7
<1>2. /\ BridgeInv /\ LogTyped /\ PostedInOrder /\ HeardInOrder /\ LogKept
      /\ [CampaignNext]_campaignVars
      => LogTyped' /\ PostedInOrder' /\ HeardInOrder' /\ LogKept'
  BY LogTypedNext, PostedInOrderNext, HeardInOrderNext, LogKeptNext
<1>3. CampaignSpec => []BridgeInv
  BY CampaignIsBridge, BridgeInvHolds, PTL
<1> QED BY <1>1, <1>2, <1>3, PTL DEF CampaignSpec, EventsInv

\* Every variable holds what the logger and the metrics service can hold: an event is
\* somewhere on its way exactly when it was posted, the log holds posted events only,
\* and a scenario has one latest result at most.
THEOREM EventsAreTyped == CampaignSpec => []EventsTypeOK
<1>1. EventsInv => EventsTypeOK
  <2> SUFFICES ASSUME EventsInv PROVE EventsTypeOK
    OBVIOUS
  <2>1. BridgeTypeOK /\ LogTyped /\ LogKept
    BY DEF EventsInv, BridgeInv
  <2>2. Range(log) \subseteq posted
    BY <2>1 DEF LogTyped, LogKept, Range
  <2>3. ASSUME NEW sc \in Scenarios
        PROVE  latest_results[sc] \subseteq Events /\ Cardinality(latest_results[sc]) <= 1
    <3>1. latest_results[sc] = {} \/ \E e \in Events : latest_results[sc] = {e}
      BY <2>1 DEF LogTyped
    <3>2. CASE latest_results[sc] = {}
      BY <3>2, FS_EmptySet
    <3>3. ASSUME NEW e \in Events, latest_results[sc] = {e}
          PROVE  latest_results[sc] \subseteq Events /\ Cardinality(latest_results[sc]) <= 1
      <4>1. Cardinality({e}) = 1
        BY FS_Singleton
      <4> QED BY <3>3, <4>1
    <3> QED BY <3>1, <3>2, <3>3
  <2> QED BY <2>1, <2>2, <2>3 DEF EventsTypeOK, LogTyped
<1> QED BY <1>1, EventsInvHolds, PTL

\* The logger never writes an event twice, and a result before the start of its own
\* operation only when the bridge had stopped waiting for the start.
THEOREM StartIsLoggedFirst == CampaignSpec => []StartsFirst
<1>1. EventsInv => StartsFirst
  <2> SUFFICES ASSUME EventsInv, NEW i \in DOMAIN log, NEW j \in DOMAIN log, i < j
               PROVE  /\ log[i] # log[j]
                      /\ log[i].op = log[j].op /\ log[i].type = "attack_result" =>
                           StartEvent(log[i].op) \in overdue
    BY DEF StartsFirst
  <2>1. LogTyped /\ LogKept /\ PostedInOrder
    BY DEF EventsInv
  <2>2. i \in Nat /\ j \in Nat /\ log[i] \in Events /\ log[j] \in Events
    BY <2>1 DEF LogTyped
  <2>3. log[i] # log[j]
    BY <2>1, <2>2 DEF LogKept
  <2>4. log[i] \in posted /\ log[j] \in posted
    BY <2>1, <2>2 DEF LogTyped, LogKept
  <2>5. ASSUME log[i].op = log[j].op, log[i].type = "attack_result"
        PROVE  StartEvent(log[i].op) \in overdue
    <3>1. log[j].type # "attack_result"
      BY <2>1, <2>3, <2>4, <2>5 DEF PostedInOrder
    <3>2. log[j] = StartEvent(log[i].op)
      BY <2>2, <2>5, <3>1, EventKinds
    <3> QED BY <2>1, <2>5, <3>2 DEF LogKept
  <2> QED BY <2>3, <2>5
<1> QED BY <1>1, EventsInvHolds, PTL

-----------------------------------------------------------------------------
(* A scenario that nothing disturbed.                                         *)

\* Its operations are reported one after the other.
SoleReport(sc) ==
  \A d \in Dispatches, x \in Dispatches :
    ScenarioOf[d] = sc /\ ScenarioOf[x] = sc /\ Reported(d) /\ Reported(x) => d = x

\* Its events were answered, but the one a thread waits for.
UnderWay(sc) ==
  \A e \in posted : Scenario(e) = sc =>
    \/ e \in answered
    \/ e.type = "attack_start" /\ thread[e.op].pc = "starting"
    \/ e.type = "attack_result" /\ thread[e.op].pc = "resulting"

\* attack_active follows the operation that is reported, or the last one that was.
ActiveShown(sc) ==
  \A d \in Dispatches : ScenarioOf[d] = sc =>
    /\ thread[d].pc \in {"poll", "result"} => attack_active[sc]
    /\ thread[d].pc = "starting" /\ progress[StartEvent(d)] = "recorded" => attack_active[sc]
    /\ thread[d].pc = "resulting" /\ progress[ResultEvent(d, thread[d].last)] = "recorded"
         => ~attack_active[sc]
    /\ StartEvent(d) \in posted /\ thread[d].pc \in {"restore", "done"}
         /\ (\A x \in Dispatches : ScenarioOf[x] = sc => ~Reported(x))
       => ~attack_active[sc]

LoggedResult(i, sc) == Scenario(log[i]) = sc /\ log[i].type = "attack_result"

\* A result is logged once metrics has those before it, and the last one is shown
\* as soon as metrics has it.
LatestShown(sc) ==
  /\ \A i \in DOMAIN log, j \in DOMAIN log :
       i < j /\ LoggedResult(i, sc) /\ LoggedResult(j, sc) => progress[log[i]] = "recorded"
  /\ \A i \in DOMAIN log :
       /\ LoggedResult(i, sc) /\ progress[log[i]] = "recorded"
       /\ \A j \in DOMAIN log : LoggedResult(j, sc) => j <= i
       => latest_results[sc] = {log[i]}

Scene(sc) == SoleReport(sc) /\ UnderWay(sc) /\ ActiveShown(sc) /\ LatestShown(sc)

\* What left the logger is in its log.
AllLogged ==
  \A e \in Events : progress[e] \in {"logged", "to_metrics", "recorded", "unreported"} =>
    \E i \in DOMAIN log : log[i] = e

SceneInv == AllLogged /\ \A sc \in Scenarios : Undisturbed(sc) => Scene(sc)

LEMMA AllLoggedNext ==
  ASSUME BridgeInv, PostedInOrder, LogTyped, AllLogged, [CampaignNext]_campaignVars
  PROVE  AllLogged'
<1> DEFINE Beyond == {"logged", "to_metrics", "recorded", "unreported"}
<1>0. posted \subseteq Events
  BY DEF BridgeInv, BridgeTypeOK
<1>1. CASE posted' = posted /\ UNCHANGED eventVars
  BY <1>1 DEF AllLogged, eventVars
<1>2. ASSUME NEW e \in Events, PostsOne(e) PROVE AllLogged'
  <2>1. PICK st \in {"to_logger", "lost"} : progress' = [progress EXCEPT ![e] = st]
    BY <1>2 DEF PostsOne, Posted, Moves
  <2>2. progress'[e] \notin Beyond /\ \A f \in Events \ {e} : progress'[f] = progress[f]
    BY <2>1 DEF LogTyped
  <2> QED BY <1>2, <2>2 DEF AllLogged, PostsOne, Posted
<1>3. ASSUME NEW e \in posted, GoesOn(e) PROVE AllLogged'
  BY <1>3 DEF AllLogged, GoesOn
<1>4. ASSUME NEW e \in posted, Serve(e) PROVE AllLogged'
  <2>1. CASE Log(e)
    <3>1. /\ DOMAIN log' = 1..(Len(log) + 1) /\ log'[Len(log) + 1] = e
          /\ \A i \in 1..Len(log) : log'[i] = log[i]
          /\ DOMAIN log = 1..Len(log) /\ Len(log) \in Nat
      BY <1>0, <2>1 DEF Log, LogTyped
    <3>2. \A f \in Events \ {e} : progress'[f] = progress[f]
      BY <2>1 DEF Log, LogTyped
    <3>3. Len(log) + 1 \in DOMAIN log' /\ \A i \in DOMAIN log : i \in DOMAIN log'
      BY <3>1
    <3> QED BY <3>1, <3>2, <3>3 DEF AllLogged
  <2>2. CASE Report(e) \/ Answer(e) \/ Record(e)
    <3>1. log' = log
      BY <2>2 DEF Report, Answer, Record
    <3>2. \A f \in Events : progress'[f] \in Beyond => progress[f] \in Beyond
      BY <1>0, <2>2 DEF Report, Answer, Record, Moves, LogTyped
    <3> QED BY <3>1, <3>2 DEF AllLogged
  <2> QED BY <1>4, <2>1, <2>2 DEF Serve
<1> QED BY <1>1, <1>2, <1>3, <1>4, EventSteps

\* What went wrong stays on record.
LEMMA TroubledGrows ==
  ASSUME BridgeInv, PostedInOrder, LogTyped, [CampaignNext]_campaignVars
  PROVE  Troubled \subseteq Troubled'
<1>0. posted \subseteq Events
  BY DEF BridgeInv, BridgeTypeOK
<1>1. CASE posted' = posted /\ UNCHANGED eventVars
  BY <1>1 DEF Troubled, eventVars
<1>2. ASSUME NEW e \in Events, PostsOne(e) PROVE Troubled \subseteq Troubled'
  <2>1. \A f \in posted : f \in posted' /\ progress'[f] = progress[f]
    BY <1>0, <1>2 DEF PostsOne, Posted, Moves, LogTyped
  <2> QED BY <1>2, <2>1 DEF PostsOne, Posted, Troubled
<1>3. ASSUME NEW e \in posted, GoesOn(e), posted' = posted PROVE Troubled \subseteq Troubled'
  BY <1>3 DEF GoesOn, Troubled
<1>4. ASSUME NEW e \in posted, Serve(e), posted' = posted PROVE Troubled \subseteq Troubled'
  <2>1. \A f \in posted : progress[f] \in {"lost", "unreported"} => progress'[f] = progress[f]
    BY <1>0, <1>4 DEF Serve, Log, Report, Answer, Record, Moves, LogTyped
  <2>2. overdue \subseteq overdue'
    BY <1>4 DEF Serve, Log, Report, Answer, Record
  <2> QED BY <1>4, <2>1, <2>2 DEF Troubled
<1> QED BY <1>1, <1>2, <1>3, <1>4, EventSteps

LEMMA DeadStays ==
  ASSUME BridgeInv, [CampaignNext]_campaignVars, NEW d \in Dispatches, thread[d].pc = "dead"
  PROVE  thread'[d].pc = "dead"
<1>1. CASE \A x \in Dispatches : QuietMove(x)
  BY <1>1 DEF QuietMove, Early
<1>2. ASSUME NEW x \in Dispatches,
             PostStart(x) \/ StartPolling(x) \/ PostResult(x) \/ FinishPolling(x)
      PROVE  thread'[d].pc = "dead"
  <2>1. thread[x].pc # "dead" /\ \A y \in Dispatches \ {x} : thread'[y] = thread[y]
    BY <1>2, OwnMoves
  <2> QED BY <2>1
<1>3. CASE UNCHANGED bridgeVars
  BY <1>3 DEF bridgeVars
<1> QED BY <1>1, <1>2, <1>3, AloneMoves
        DEF CampaignNext, campaignVars, PostsStart, PostsResult, StartsPolling, FinishesPolling,
            Serve, Log, Report, Answer, Record, bridgeVars

\* A scenario that is undisturbed always was.
LEMMA UndisturbedBefore ==
  ASSUME BridgeInv, PostedInOrder, LogTyped, [CampaignNext]_campaignVars,
         NEW sc \in Scenarios, Undisturbed(sc)'
  PROVE  Undisturbed(sc)
<1>1. overlapped \subseteq overlapped'
  BY DEF CampaignNext, campaignVars, eventVars, PostsStart, PostsResult, StartsPolling,
         FinishesPolling, GoesOn, Serve, Log, Report, Answer, Record
<1>2. posted \subseteq posted'
  BY EventSteps DEF PostsOne
<1>3. \A e \in Troubled : Scenario(e) # sc
  BY TroubledGrows DEF Undisturbed, Scenario
<1>4. ASSUME NEW d \in Dispatches, ScenarioOf[d] = sc, At(d, "dead"), StartEvent(d) \in posted
      PROVE  FALSE
  <2>1. thread'[d].pc = "dead"
    BY <1>4, DeadStays DEF At
  <2> QED BY <1>2, <1>4, <2>1 DEF Undisturbed, At
<1> QED BY <1>1, <1>3, <1>4 DEF Undisturbed

\* No call of an undisturbed scenario failed, and what was answered was recorded.
LEMMA UndisturbedEvents ==
  ASSUME LogTyped, HeardInOrder, NEW sc \in Scenarios, Undisturbed(sc),
         NEW e \in posted, Scenario(e) = sc
  PROVE  /\ e \notin overdue /\ progress[e] \notin {"lost", "unreported"}
         /\ e \in answered => progress[e] = "recorded"
BY DEF Undisturbed, Troubled, HeardInOrder

LEMMA UndisturbedSteps ==
  ASSUME BridgeInv, PostedInOrder, LogTyped, HeardInOrder, [CampaignNext]_campaignVars,
         NEW sc \in Scenarios, Undisturbed(sc)'
  PROVE  /\ \A d \in Dispatches :
              ScenarioOf[d] = sc /\ StartEvent(d) \in posted' => thread'[d].pc # "dead"
         /\ \A e \in Events : PostsOne(e) /\ Scenario(e) = sc => progress'[e] = "to_logger"
         /\ \A e \in posted : GoesOn(e) /\ posted' = posted /\ Scenario(e) = sc =>
              e \in answered /\ progress[e] = "recorded"
<1>1. \A e \in Troubled' : Scenario(e) # sc
  BY DEF Undisturbed, Scenario
<1>2. \A d \in Dispatches :
        ScenarioOf[d] = sc /\ StartEvent(d) \in posted' => thread'[d].pc # "dead"
  BY DEF Undisturbed, At
<1>3. ASSUME NEW e \in Events, PostsOne(e), Scenario(e) = sc PROVE progress'[e] = "to_logger"
  <2>1. e \in posted' /\ progress'[e] \in {"to_logger", "lost"}
    BY <1>3 DEF PostsOne, Posted, Moves, LogTyped
  <2> QED BY <1>1, <1>3, <2>1 DEF Troubled
<1>4. ASSUME NEW e \in posted, GoesOn(e), posted' = posted, Scenario(e) = sc
      PROVE  e \in answered /\ progress[e] = "recorded"
  <2>1. e \notin overdue' /\ progress'[e] # "lost"
    BY <1>1, <1>4 DEF Troubled
  <2>2. e \in answered
    BY <1>4, <2>1 DEF GoesOn
  <2>3. Undisturbed(sc)
    BY UndisturbedBefore
  <2> QED BY <1>4, <2>2, <2>3, UndisturbedEvents
<1> QED BY <1>2, <1>3, <1>4

Reporting(sc) == SoleReport(sc) /\ UnderWay(sc) /\ ActiveShown(sc)

\* A step that touches nothing of the scenario, or only brings its events on.
LEMMA ReportingFrame ==
  ASSUME BridgeInv, NEW sc \in Scenarios, Reporting(sc),
         \A x \in Dispatches : ScenarioOf[x] = sc => thread'[x] = thread[x],
         \A e \in Events : Scenario(e) = sc =>
           /\ e \in posted' <=> e \in posted
           /\ e \in answered => e \in answered'
           /\ progress'[e] = "recorded" => progress[e] = "recorded",
         attack_active'[sc] = attack_active[sc], posted' \subseteq Events
  PROVE  Reporting(sc)'
<1>1. \A x \in Dispatches : ScenarioOf[x] = sc => (Reported(x)' <=> Reported(x))
  BY DEF Reported
<1>2. SoleReport(sc)'
  BY <1>1 DEF Reporting, SoleReport
<1>3. UnderWay(sc)'
  <2> SUFFICES ASSUME NEW e \in posted', Scenario(e) = sc
               PROVE  \/ e \in answered'
                      \/ e.type = "attack_start" /\ thread'[e.op].pc = "starting"
                      \/ e.type = "attack_result" /\ thread'[e.op].pc = "resulting"
    BY DEF UnderWay, Scenario
  <2>1. e \in posted /\ e \in Events /\ e.op \in Dispatches /\ ScenarioOf[e.op] = sc
    BY EventKinds DEF Scenario
  <2> QED BY <2>1 DEF Reporting, UnderWay
<1>4. \A x \in Dispatches, l \in Observations : ScenarioOf[x] = sc =>
        /\ Scenario(StartEvent(x)) = sc /\ StartEvent(x) \in Events
        /\ Scenario(ResultEvent(x, l)) = sc /\ ResultEvent(x, l) \in Events
  BY EventNames DEF Scenario, StartEvent, ResultEvent, Events
<1>5. \A x \in Dispatches : thread[x].last \in Observations
  BY DEF BridgeInv, BridgeTypeOK, ThreadType
<1>6. ActiveShown(sc)'
  BY <1>1, <1>4, <1>5 DEF Reporting, ActiveShown
<1> QED BY <1>2, <1>3, <1>6 DEF Reporting

LEMMA ReportingQuiet ==
  ASSUME BridgeInv, PostedInOrder, NEW sc \in Scenarios, Reporting(sc),
         \A x \in Dispatches : QuietMove(x), posted' = posted, UNCHANGED eventVars,
         \A d \in Dispatches :
           ScenarioOf[d] = sc /\ StartEvent(d) \in posted' => thread'[d].pc # "dead"
  PROVE  Reporting(sc)'
<1>1. ASSUME NEW x \in Dispatches, ScenarioOf[x] = sc
      PROVE  /\ Reported(x)' <=> Reported(x)
             /\ thread'[x].pc = "starting" <=> thread[x].pc = "starting"
             /\ thread'[x].pc = "resulting" <=> thread[x].pc = "resulting"
             /\ thread[x].pc = "resulting" => thread'[x].last = thread[x].last
             /\ thread'[x].pc \in {"poll", "result"} => thread[x].pc \in {"poll", "result"}
             /\ StartEvent(x) \in posted /\ thread'[x].pc \in {"restore", "done"} =>
                  thread[x].pc \in {"restore", "done"}
  <2>1. thread[x].pc \in Begun => thread'[x].pc # "dead"
    BY <1>1 DEF PostedInOrder
  <2>2. StartEvent(x) \in posted => thread[x].pc \in Begun \union {"done", "dead"}
    BY DEF PostedInOrder
  <2> QED BY <1>1, <2>1, <2>2 DEF QuietMove, Reported, Begun, Past, Early
<1>2. SoleReport(sc)'
  BY <1>1 DEF Reporting, SoleReport
<1>3. UnderWay(sc)'
  <2> SUFFICES ASSUME NEW e \in posted, Scenario(e) = sc
               PROVE  \/ e \in answered
                      \/ e.type = "attack_start" /\ thread'[e.op].pc = "starting"
                      \/ e.type = "attack_result" /\ thread'[e.op].pc = "resulting"
    BY DEF UnderWay, Scenario, eventVars
  <2>1. e.op \in Dispatches /\ ScenarioOf[e.op] = sc
    BY EventKinds DEF Scenario, BridgeInv, BridgeTypeOK
  <2> QED BY <1>1, <2>1 DEF Reporting, UnderWay
<1>4. ActiveShown(sc)'
  BY <1>1 DEF Reporting, ActiveShown, eventVars
<1> QED BY <1>2, <1>3, <1>4 DEF Reporting

\* The events of a dispatch under way: the start, or the one result.
LEMMA OwnEvents ==
  ASSUME BridgeInv, PostedInOrder, NEW e \in posted
  PROVE  /\ e.op \in Dispatches /\ ScenarioOf[e.op] = Scenario(e) /\ e \in Events
         /\ e.type = "attack_start" => e = StartEvent(e.op)
         /\ e.type # "attack_start" => e.type = "attack_result"
         /\ e.type = "attack_result" /\ thread[e.op].pc = "resulting" =>
              e = ResultEvent(e.op, thread[e.op].last)
<1>1. e \in Events
  BY DEF BridgeInv, BridgeTypeOK
<1>2. e.op \in Dispatches
  BY <1>1, EventKinds
<1>3. ASSUME e.type = "attack_result", thread[e.op].pc = "resulting"
      PROVE  e = ResultEvent(e.op, thread[e.op].last)
  <2>1. ResultEvent(e.op, thread[e.op].last) \in posted
    BY <1>2, <1>3 DEF PostedInOrder
  <2> QED BY <1>3, <2>1, EventNames DEF PostedInOrder
<1> QED BY <1>1, <1>2, <1>3, EventKinds DEF Scenario

LEMMA ReportingStart ==
  ASSUME EventsInv, [CampaignNext]_campaignVars, NEW sc \in Scenarios, Reporting(sc),
         Undisturbed(sc)', NEW d \in Dispatches, ScenarioOf[d] = sc, PostsStart(d)
  PROVE  Reporting(sc)'
<1> DEFINE s == StartEvent(d)
<1>0. BridgeInv /\ PostedInOrder /\ LogTyped /\ HeardInOrder
  BY DEF EventsInv
<1>1. /\ thread[d].pc = "start" /\ thread'[d].pc = "starting" /\ posted' = posted \union {s}
      /\ \A x \in Dispatches \ {d} : thread'[x] = thread[x]
  BY <1>0, OwnMoves DEF PostsStart
<1>2. s \in Events /\ s \notin posted /\ s.op = d /\ s.type = "attack_start" /\ Scenario(s) = sc
  BY <1>0, <1>1 DEF s, StartEvent, Events, Scenario, PostedInOrder, Begun, Past
<1>3. PostsOne(s)
  BY <1>1, <1>2 DEF PostsOne, PostsStart
<1>4. progress'[s] = "to_logger" /\ answered' = answered /\ attack_active' = attack_active
  BY <1>0, <1>2, <1>3, UndisturbedSteps DEF PostsOne, Posted
<1>5. \A x \in Dispatches \ {d} : ScenarioOf[x] = sc => ~Reported(x)
  BY <1>1 DEF PostsStart, Undisturbed
<1> HIDE DEF s
<1>6. \A x \in Dispatches \ {d} : ScenarioOf[x] = sc => ~Reported(x)'
  BY <1>1, <1>5 DEF Reported
<1>7. Reported(d)' /\ ~Reported(d)
  BY <1>1 DEF Reported
<1>8. SoleReport(sc)'
  BY <1>6 DEF SoleReport
<1>9. UnderWay(sc)'
  <2> SUFFICES ASSUME NEW e \in posted', Scenario(e) = sc
               PROVE  \/ e \in answered
                      \/ e.type = "attack_start" /\ thread'[e.op].pc = "starting"
                      \/ e.type = "attack_result" /\ thread'[e.op].pc = "resulting"
    BY <1>4 DEF UnderWay, Scenario
  <2>1. CASE e = s
    BY <1>1, <1>2, <2>1
  <2>2. CASE e \in posted
    <3>1. e.op \in Dispatches /\ ScenarioOf[e.op] = sc
      BY <1>0, <2>2, OwnEvents
    <3>2. ~Reported(e.op)
      BY <1>5, <1>7, <3>1
    <3> QED BY <2>2, <3>2 DEF Reporting, UnderWay, Reported
  <2> QED BY <1>1, <2>1, <2>2
<1>10. ActiveShown(sc)'
  <2> SUFFICES ASSUME NEW x \in Dispatches, ScenarioOf[x] = sc
               PROVE  /\ thread'[x].pc \notin {"poll", "result", "resulting"}
                      /\ thread'[x].pc = "starting" => progress'[StartEvent(x)] # "recorded"
    BY <1>7 DEF ActiveShown
  <2>1. CASE x = d
    BY <1>1, <1>4, <2>1 DEF s
  <2>2. CASE x # d
    BY <1>6, <2>2 DEF Reported
  <2> QED BY <2>1, <2>2
<1> QED BY <1>8, <1>9, <1>10 DEF Reporting

LEMMA ReportingResult ==
  ASSUME EventsInv, [CampaignNext]_campaignVars, NEW sc \in Scenarios, Reporting(sc),
         Undisturbed(sc)', NEW d \in Dispatches, ScenarioOf[d] = sc, PostsResult(d)
  PROVE  Reporting(sc)'
<1> DEFINE r == ResultEvent(d, thread[d].last)
<1>0. BridgeInv /\ PostedInOrder /\ LogTyped /\ HeardInOrder
  BY DEF EventsInv
<1>1. /\ thread[d].pc = "result" /\ thread'[d].pc = "resulting" /\ posted' = posted \union {r}
      /\ thread'[d].last = thread[d].last
      /\ \A x \in Dispatches \ {d} : thread'[x] = thread[x]
  BY <1>0, OwnMoves DEF PostsResult
<1>2. r \in Events /\ r.op = d /\ r.type = "attack_result" /\ Scenario(r) = sc
  BY DEF ResultEvent, Events, Scenario
<1>2a. r \notin posted
  BY <1>0, <1>1, <1>2 DEF PostedInOrder
<1>3. PostsOne(r)
  BY <1>1, <1>2, <1>2a DEF PostsOne, PostsResult
<1>4. progress'[r] = "to_logger" /\ answered' = answered /\ attack_active' = attack_active
  BY <1>0, <1>2, <1>3, UndisturbedSteps DEF PostsOne, Posted
<1>5. Reported(d) /\ Reported(d)'
  BY <1>1 DEF Reported
<1>6. \A x \in Dispatches \ {d} : ScenarioOf[x] = sc => ~Reported(x) /\ ~Reported(x)'
  BY <1>1, <1>5 DEF Reporting, SoleReport, Reported
<1>8. SoleReport(sc)'
  BY <1>6 DEF SoleReport
<1>9. UnderWay(sc)'
  <2> SUFFICES ASSUME NEW e \in posted', Scenario(e) = sc
               PROVE  \/ e \in answered
                      \/ e.type = "attack_start" /\ thread'[e.op].pc = "starting"
                      \/ e.type = "attack_result" /\ thread'[e.op].pc = "resulting"
    BY <1>4 DEF UnderWay, Scenario
  <2>1. CASE e = r
    BY <1>1, <1>2, <2>1
  <2>2. CASE e \in posted
    <3>1. e.op \in Dispatches /\ ScenarioOf[e.op] = sc
      BY <1>0, <2>2, OwnEvents
    <3>2. thread[e.op].pc \notin {"starting", "resulting"}
      BY <1>1, <1>6, <3>1 DEF Reported
    <3> QED BY <2>2, <3>2 DEF Reporting, UnderWay
  <2> QED BY <1>1, <2>1, <2>2
<1>10. ActiveShown(sc)'
  <2> SUFFICES ASSUME NEW x \in Dispatches, ScenarioOf[x] = sc
               PROVE  /\ thread'[x].pc \notin {"poll", "result", "starting"}
                      /\ thread'[x].pc = "resulting" =>
                           progress'[ResultEvent(x, thread'[x].last)] # "recorded"
    BY <1>5 DEF ActiveShown
  <2>1. CASE x = d
    BY <1>1, <1>4, <2>1
  <2>2. CASE x # d
    BY <1>6, <2>2 DEF Reported
  <2> QED BY <2>1, <2>2
<1> QED BY <1>8, <1>9, <1>10 DEF Reporting

LEMMA ReportingPolls ==
  ASSUME EventsInv, [CampaignNext]_campaignVars, NEW sc \in Scenarios, Reporting(sc),
         Undisturbed(sc)', NEW d \in Dispatches, ScenarioOf[d] = sc, StartsPolling(d)
  PROVE  Reporting(sc)'
<1> DEFINE s == StartEvent(d)
<1>0. BridgeInv /\ PostedInOrder /\ LogTyped /\ HeardInOrder
  BY DEF EventsInv
<1>1. /\ thread[d].pc = "starting" /\ thread'[d].pc = "poll" /\ posted' = posted
      /\ \A x \in Dispatches \ {d} : thread'[x] = thread[x]
  BY <1>0, OwnMoves DEF StartsPolling
<1>2. s \in posted /\ Scenario(s) = sc
  BY <1>0, <1>1 DEF StartEvent, Scenario, PostedInOrder, Begun
<1>3. GoesOn(s)
  BY DEF StartsPolling
<1>4. s \in answered /\ progress[s] = "recorded"
  BY <1>0, <1>1, <1>2, <1>3, UndisturbedSteps
<1>5. answered' = answered /\ attack_active' = attack_active
  BY <1>3 DEF GoesOn
<1>6. attack_active[sc]
  BY <1>1, <1>4 DEF Reporting, ActiveShown
<1>7. Reported(d) /\ Reported(d)'
  BY <1>1 DEF Reported
<1>8. \A x \in Dispatches \ {d} : ScenarioOf[x] = sc => ~Reported(x) /\ ~Reported(x)'
  BY <1>1, <1>7 DEF Reporting, SoleReport, Reported
<1>9. SoleReport(sc)'
  BY <1>8 DEF SoleReport
<1>10. UnderWay(sc)'
  <2> SUFFICES ASSUME NEW e \in posted, Scenario(e) = sc
               PROVE  e \in answered
    BY <1>1, <1>5 DEF UnderWay, Scenario
  <2>1. e.op \in Dispatches /\ ScenarioOf[e.op] = sc /\ (e.type = "attack_start" => e = StartEvent(e.op))
    BY <1>0, OwnEvents
  <2>2. CASE e.op = d
    BY <1>1, <1>4, <2>1, <2>2 DEF Reporting, UnderWay
  <2>3. CASE e.op # d
    BY <1>8, <2>1, <2>3 DEF Reporting, UnderWay, Reported
  <2> QED BY <2>2, <2>3
<1>11. ActiveShown(sc)'
  <2> SUFFICES ASSUME NEW x \in Dispatches, ScenarioOf[x] = sc
               PROVE  thread'[x].pc \notin {"starting", "resulting"}
    BY <1>5, <1>6, <1>7 DEF ActiveShown
  <2> QED BY <1>1, <1>8 DEF Reported
<1> QED BY <1>9, <1>10, <1>11 DEF Reporting

LEMMA ReportingEnds ==
  ASSUME EventsInv, [CampaignNext]_campaignVars, NEW sc \in Scenarios, Reporting(sc),
         Undisturbed(sc)', NEW d \in Dispatches, ScenarioOf[d] = sc, FinishesPolling(d)
  PROVE  Reporting(sc)'
<1> DEFINE r == ResultEvent(d, thread[d].last)
<1>0. BridgeInv /\ PostedInOrder /\ LogTyped /\ HeardInOrder
  BY DEF EventsInv
<1>1. /\ thread[d].pc = "resulting" /\ thread'[d].pc \in {"restore", "done"} /\ posted' = posted
      /\ \A x \in Dispatches \ {d} : thread'[x] = thread[x]
  BY <1>0, OwnMoves DEF FinishesPolling
<1>2. r \in posted /\ Scenario(r) = sc
  BY <1>0, <1>1 DEF ResultEvent, Scenario, PostedInOrder
<1>3. GoesOn(r)
  BY DEF FinishesPolling
<1>4. r \in answered /\ progress[r] = "recorded"
  BY <1>0, <1>1, <1>2, <1>3, UndisturbedSteps
<1>5. answered' = answered /\ attack_active' = attack_active
  BY <1>3 DEF GoesOn
<1>6. ~attack_active[sc]
  BY <1>1, <1>4 DEF Reporting, ActiveShown
<1>7. Reported(d) /\ ~Reported(d)'
  BY <1>1 DEF Reported
<1>8. \A x \in Dispatches \ {d} : ScenarioOf[x] = sc => ~Reported(x) /\ ~Reported(x)'
  BY <1>1, <1>7 DEF Reporting, SoleReport, Reported
<1>9. SoleReport(sc)'
  BY <1>7, <1>8 DEF SoleReport
<1>10. UnderWay(sc)'
  <2> SUFFICES ASSUME NEW e \in posted, Scenario(e) = sc
               PROVE  e \in answered
    BY <1>1, <1>5 DEF UnderWay, Scenario
  <2>1. e.op \in Dispatches /\ ScenarioOf[e.op] = sc
    BY <1>0, OwnEvents
  <2>2. CASE e.op = d
    <3>1. e.type = "attack_result" => e = r
      BY <1>0, <1>1, <2>2, OwnEvents
    <3> QED BY <1>1, <1>4, <2>2, <3>1 DEF Reporting, UnderWay
  <2>3. CASE e.op # d
    BY <1>8, <2>1, <2>3 DEF Reporting, UnderWay, Reported
  <2> QED BY <2>2, <2>3
<1>11. ActiveShown(sc)'
  <2>1. \A x \in Dispatches : ScenarioOf[x] = sc => ~Reported(x)'
    BY <1>7, <1>8
  <2> QED BY <1>5, <1>6, <2>1 DEF ActiveShown, Reported
<1> QED BY <1>9, <1>10, <1>11 DEF Reporting

LEMMA ReportingRecords ==
  ASSUME EventsInv, [CampaignNext]_campaignVars, NEW sc \in Scenarios, Reporting(sc),
         Undisturbed(sc), NEW e \in posted, Scenario(e) = sc, Record(e)
  PROVE  Reporting(sc)'
<1> DEFINE d == e.op
<1>0. BridgeInv /\ PostedInOrder /\ LogTyped /\ HeardInOrder
  BY DEF EventsInv
<1>1. /\ thread' = thread /\ posted' = posted /\ answered' = answered
      /\ progress[e] = "to_metrics" /\ attack_active'[sc] = (e.type = "attack_start")
  BY <1>0 DEF Record, ActiveAfter, bridgeVars, LogTyped
<1>2. e \notin answered
  BY <1>0, <1>1, UndisturbedEvents
<1>3. d \in Dispatches /\ ScenarioOf[d] = sc
  BY <1>0, OwnEvents
<1>4. \/ e.type = "attack_start" /\ thread[d].pc = "starting"
      \/ e.type = "attack_result" /\ thread[d].pc = "resulting"
  BY <1>2 DEF Reporting, UnderWay
<1> HIDE DEF d
<1>5. \A x \in Dispatches : Reported(x)' <=> Reported(x)
  BY <1>1 DEF Reported
<1>6. Reported(d)
  BY <1>4 DEF Reported
<1>7. \A x \in Dispatches : ScenarioOf[x] = sc /\ Reported(x) => x = d
  BY <1>3, <1>6 DEF Reporting, SoleReport
<1>8. SoleReport(sc)'
  BY <1>7, <1>5 DEF SoleReport
<1>9. UnderWay(sc)'
  BY <1>1 DEF Reporting, UnderWay, Scenario
<1>10. ActiveShown(sc)'
  <2>1. \E x \in Dispatches : ScenarioOf[x] = sc /\ Reported(x)'
    BY <1>3, <1>5, <1>6
  <2> SUFFICES ASSUME NEW x \in Dispatches, ScenarioOf[x] = sc
               PROVE  /\ thread[x].pc \in {"poll", "result", "starting"} => attack_active'[sc]
                      /\ thread[x].pc = "resulting" => ~attack_active'[sc]
    BY <1>1, <2>1 DEF ActiveShown
  <2>2. CASE x = d
    BY <1>1, <1>4, <2>2
  <2>3. CASE x # d
    BY <1>7, <2>3 DEF Reported
  <2> QED BY <2>2, <2>3
<1> QED BY <1>8, <1>9, <1>10 DEF Reporting

LEMMA ReportingNext ==
  ASSUME EventsInv, [CampaignNext]_campaignVars, EventsInv', NEW sc \in Scenarios,
         Reporting(sc), Undisturbed(sc)'
  PROVE  Reporting(sc)'
<1>0. /\ BridgeInv /\ PostedInOrder /\ LogTyped /\ HeardInOrder
      /\ posted \subseteq Events /\ posted' \subseteq Events
  BY DEF EventsInv, BridgeInv, BridgeTypeOK
<1>1. Undisturbed(sc)
  BY <1>0, UndisturbedBefore
<1>2. CASE BridgeAlone /\ UNCHANGED eventVars
  BY <1>0, <1>2, AloneMoves, UndisturbedSteps, ReportingQuiet
<1>3. ASSUME NEW d \in Dispatches,
             PostsStart(d) \/ StartsPolling(d) \/ PostsResult(d) \/ FinishesPolling(d)
      PROVE  Reporting(sc)'
  <2>1. CASE ScenarioOf[d] = sc
    BY <1>3, <2>1, ReportingStart, ReportingResult, ReportingPolls, ReportingEnds
  <2>2. CASE ScenarioOf[d] # sc
    <3> DEFINE l == thread[d].last
    <3>1. \A x \in Dispatches \ {d} : thread'[x] = thread[x]
      BY <1>0, <1>3, OwnMoves DEF PostsStart, StartsPolling, PostsResult, FinishesPolling
    <3>2. posted' \subseteq posted \union {StartEvent(d), ResultEvent(d, l)} /\ posted \subseteq posted'
      BY <1>0, <1>3, OwnMoves DEF PostsStart, StartsPolling, PostsResult, FinishesPolling
    <3>3. answered' = answered /\ attack_active' = attack_active
      BY <1>3 DEF PostsStart, StartsPolling, PostsResult, FinishesPolling, Posted, GoesOn
    <3>4. Scenario(StartEvent(d)) # sc /\ Scenario(ResultEvent(d, l)) # sc
      BY <2>2, EventNames DEF Scenario
    <3> HIDE DEF l
    <3>5. \A e \in Events : e # StartEvent(d) /\ e # ResultEvent(d, l) => progress'[e] = progress[e]
      BY <1>0, <1>3 DEF PostsStart, StartsPolling, PostsResult, FinishesPolling, Posted, GoesOn, Moves,
                        LogTyped, l
    <3>6. \A e \in Events : Scenario(e) = sc => (e \in posted' <=> e \in posted) /\ progress'[e] = progress[e]
      BY <3>2, <3>4, <3>5
    <3>7. \A x \in Dispatches : ScenarioOf[x] = sc => thread'[x] = thread[x]
      BY <2>2, <3>1
    <3> QED BY <1>0, <3>3, <3>6, <3>7, ReportingFrame
  <2> QED BY <2>1, <2>2
<1>4. ASSUME NEW e \in posted, Serve(e) PROVE Reporting(sc)'
  <2>1. thread' = thread /\ posted' = posted /\ answered \subseteq answered' /\ e \in Events
    BY <1>0, <1>4 DEF Serve, Log, Report, Answer, Record, bridgeVars
  <2>2. CASE Record(e) /\ Scenario(e) = sc
    BY <1>1, <2>2, ReportingRecords
  <2>3. CASE Record(e) /\ Scenario(e) # sc
    <3>1. attack_active'[sc] = attack_active[sc]
      BY <1>0, <2>3 DEF Record, LogTyped
    <3>2. \A f \in Events : Scenario(f) = sc => progress'[f] = progress[f]
      BY <1>0, <2>3 DEF Record, LogTyped
    <3> QED BY <1>0, <2>1, <3>1, <3>2, ReportingFrame
  <2>4. CASE Log(e) \/ Report(e) \/ Answer(e)
    <3>1. attack_active' = attack_active
      BY <2>4 DEF Log, Report, Answer
    <3>2. \A f \in Events : progress'[f] = "recorded" => progress[f] = "recorded"
      BY <1>0, <2>1, <2>4 DEF Log, Report, Answer, Moves, LogTyped
    <3> QED BY <1>0, <2>1, <3>1, <3>2, ReportingFrame
  <2> QED BY <1>4, <2>2, <2>3, <2>4 DEF Serve
<1>5. CASE UNCHANGED campaignVars
  <2>1. thread' = thread /\ posted' = posted /\ answered' = answered /\ attack_active' = attack_active
        /\ progress' = progress
    BY <1>5 DEF campaignVars, bridgeVars, eventVars
  <2> QED BY <1>0, <2>1, ReportingFrame
<1> QED BY <1>2, <1>3, <1>4, <1>5 DEF CampaignNext

-----------------------------------------------------------------------------
\* The log's results are left as they are.
LEMMA LatestFrame ==
  ASSUME NEW sc \in Scenarios, LatestShown(sc), log' = log, latest_results'[sc] = latest_results[sc],
         \A i \in DOMAIN log : LoggedResult(i, sc) =>
           (progress'[log[i]] = "recorded" <=> progress[log[i]] = "recorded")
  PROVE  LatestShown(sc)'
<1>1. \A i : LoggedResult(i, sc)' <=> LoggedResult(i, sc)
  BY DEF LoggedResult, Scenario
<1> QED BY <1>1 DEF LatestShown

LEMMA LatestLog ==
  ASSUME EventsInv, NEW sc \in Scenarios, Reporting(sc), LatestShown(sc), Undisturbed(sc),
         NEW e \in posted, Log(e)
  PROVE  LatestShown(sc)'
<1>0. BridgeInv /\ PostedInOrder /\ LogTyped /\ HeardInOrder /\ LogKept /\ e \in Events
  BY OwnEvents DEF EventsInv
<1>1. PICK n \in Nat : n = Len(log) /\ DOMAIN log = 1..n /\ \A i \in 1..n : log[i] \in Events
  BY <1>0 DEF LogTyped
<1>2. DOMAIN log' = 1..(n + 1) /\ log'[n + 1] = e /\ \A i \in 1..n : log'[i] = log[i]
  BY <1>0, <1>1 DEF Log, LogTyped
<1>3. /\ progress[e] = "to_logger" /\ progress'[e] = "logged" /\ latest_results' = latest_results
      /\ \A i \in 1..n : log[i] # e /\ progress'[log[i]] = progress[log[i]]
  <2>1. /\ progress[e] = "to_logger" /\ progress' = [progress EXCEPT ![e] = "logged"]
        /\ latest_results' = latest_results
    BY DEF Log
  <2>2. \A i \in 1..n : log[i] # e
    BY <1>0, <1>1, <2>1 DEF LogKept
  <2> QED BY <1>0, <1>1, <2>1, <2>2 DEF LogTyped
<1>4. \A i \in 1..n : LoggedResult(i, sc)' <=> LoggedResult(i, sc)
  BY <1>2 DEF LoggedResult, Scenario
<1>5. LoggedResult(n + 1, sc)' <=> Scenario(e) = sc /\ e.type = "attack_result"
  BY <1>2 DEF LoggedResult, Scenario
<1>6. ASSUME NEW i \in 1..n, LoggedResult(i, sc), LoggedResult(n + 1, sc)'
      PROVE  progress[log[i]] = "recorded"
  <2>1. log[i] \in posted /\ Scenario(log[i]) = sc /\ log[i].type = "attack_result" /\ log[i] # e
    BY <1>0, <1>1, <1>3, <1>6 DEF LogTyped, LogKept, LoggedResult
  <2>2. Scenario(e) = sc /\ e.type = "attack_result" /\ e \notin answered
    BY <1>0, <1>3, <1>5, <1>6, UndisturbedEvents
  <2>3. thread[e.op].pc = "resulting" /\ e.op \in Dispatches /\ ScenarioOf[e.op] = sc
    BY <1>0, <2>2, OwnEvents DEF Reporting, UnderWay
  <2>4. CASE log[i] \in answered
    BY <1>0, <2>1, <2>4, UndisturbedEvents
  <2>5. CASE log[i] \notin answered
    <3>1. thread[log[i].op].pc = "resulting" /\ log[i].op \in Dispatches /\ ScenarioOf[log[i].op] = sc
      BY <1>0, <2>1, <2>5, OwnEvents DEF Reporting, UnderWay
    <3>2. log[i].op = e.op
      BY <2>3, <3>1 DEF Reporting, SoleReport, Reported
    <3> QED BY <1>0, <2>1, <2>2, <3>2 DEF PostedInOrder
  <2> QED BY <2>4, <2>5
<1>7. ASSUME NEW i \in DOMAIN log', NEW j \in DOMAIN log', i < j,
             LoggedResult(i, sc)', LoggedResult(j, sc)'
      PROVE  progress'[log'[i]] = "recorded"
  <2>1. i \in 1..n /\ LoggedResult(i, sc) /\ log'[i] = log[i]
    BY <1>1, <1>2, <1>4, <1>7
  <2>2. CASE j = n + 1
    <3>1. LoggedResult(n + 1, sc)'
      BY <1>7, <2>2
    <3> QED BY <1>3, <1>6, <2>1, <3>1
  <2>3. CASE j \in 1..n
    <3>1. LoggedResult(j, sc)
      BY <1>4, <1>7, <2>3
    <3>2. progress[log[i]] = "recorded"
      BY <1>1, <1>7, <2>1, <2>3, <3>1 DEF LatestShown
    <3> QED BY <1>3, <2>1, <3>2
  <2> QED BY <1>1, <1>2, <2>2, <2>3
<1>8. ASSUME NEW i \in DOMAIN log', LoggedResult(i, sc)', progress'[log'[i]] = "recorded",
             \A j \in DOMAIN log' : LoggedResult(j, sc)' => j <= i
      PROVE  latest_results'[sc] = {log'[i]}
  <2>1. i \in 1..n /\ log'[i] = log[i] /\ LoggedResult(i, sc)
    BY <1>1, <1>2, <1>3, <1>4, <1>8
  <2>2. \A j \in 1..n : LoggedResult(j, sc) => j <= i
    BY <1>1, <1>2, <1>4, <1>8
  <2> QED BY <1>1, <1>3, <1>8, <2>1, <2>2 DEF LatestShown
<1> QED BY <1>7, <1>8 DEF LatestShown

LEMMA LatestRecord ==
  ASSUME EventsInv, AllLogged, NEW sc \in Scenarios, Reporting(sc), LatestShown(sc), Undisturbed(sc),
         NEW e \in posted, Record(e)
  PROVE  LatestShown(sc)'
<1>0. BridgeInv /\ PostedInOrder /\ LogTyped /\ HeardInOrder /\ LogKept /\ e \in Events
  BY OwnEvents DEF EventsInv
<1>1. /\ log' = log /\ progress[e] = "to_metrics" /\ progress'[e] = "recorded"
      /\ \A f \in Events \ {e} : progress'[f] = progress[f]
      /\ \A i \in DOMAIN log : log[i] \in Events
  BY <1>0 DEF Record, LogTyped
<1>2. \A i : LoggedResult(i, sc)' <=> LoggedResult(i, sc)
  BY <1>1 DEF LoggedResult, Scenario
<1>3. CASE Scenario(e) # sc \/ e.type # "attack_result"
  <2>1. latest_results'[sc] = latest_results[sc]
    BY <1>0, <1>3 DEF Record, LogTyped
  <2>2. \A i \in DOMAIN log : LoggedResult(i, sc) => progress'[log[i]] = progress[log[i]]
    BY <1>1, <1>3 DEF LoggedResult
  <2> QED BY <1>1, <2>1, <2>2, LatestFrame
<1>4. CASE Scenario(e) = sc /\ e.type = "attack_result"
  <2>1. latest_results'[sc] = {e}
    BY <1>0, <1>4 DEF Record, Latest, LogTyped
  <2>2. PICK k \in DOMAIN log : log[k] = e
    BY <1>0, <1>1 DEF AllLogged
  <2>3. LoggedResult(k, sc)
    BY <1>4, <2>2 DEF LoggedResult
  <2>4. ASSUME NEW j \in DOMAIN log, LoggedResult(j, sc) PROVE j <= k
    <3>1. ~(k < j)
      BY <1>1, <2>2, <2>3, <2>4 DEF LatestShown
    <3> QED BY <1>0, <3>1 DEF LogTyped
  <2>5. ASSUME NEW i \in DOMAIN log, NEW j \in DOMAIN log, i < j, LoggedResult(i, sc), LoggedResult(j, sc)
        PROVE  progress'[log[i]] = "recorded"
    BY <1>1, <2>5 DEF LatestShown
  <2>6. ASSUME NEW i \in DOMAIN log, \A j \in DOMAIN log : LoggedResult(j, sc) => j <= i, LoggedResult(i, sc)
        PROVE  latest_results'[sc] = {log[i]}
    <3>1. i <= k /\ k <= i
      BY <2>3, <2>4, <2>6
    <3>2. i = k
      BY <1>0, <3>1 DEF LogTyped
    <3> QED BY <2>1, <2>2, <3>2
  <2> QED BY <1>1, <1>2, <2>5, <2>6 DEF LatestShown
<1> QED BY <1>3, <1>4

LEMMA LatestNext ==
  ASSUME EventsInv, AllLogged, [CampaignNext]_campaignVars, NEW sc \in Scenarios,
         Reporting(sc), LatestShown(sc), Undisturbed(sc)'
  PROVE  LatestShown(sc)'
<1>0. /\ BridgeInv /\ PostedInOrder /\ LogTyped /\ HeardInOrder /\ LogKept
      /\ posted \subseteq Events
  BY DEF EventsInv, BridgeInv, BridgeTypeOK
<1>1. Undisturbed(sc)
  BY <1>0, UndisturbedBefore
<1>2. CASE UNCHANGED eventVars
  BY <1>2, LatestFrame DEF eventVars
<1>3. ASSUME NEW e \in Events, PostsOne(e) PROVE LatestShown(sc)'
  <2>1. \A i \in DOMAIN log : log[i] \in Events /\ log[i] # e
    BY <1>0, <1>3 DEF PostsOne, LogTyped, LogKept
  <2>2. \A i \in DOMAIN log : progress'[log[i]] = progress[log[i]]
    BY <1>0, <1>3, <2>1 DEF PostsOne, Posted, Moves, LogTyped
  <2> QED BY <1>3, <2>2, LatestFrame DEF PostsOne, Posted
<1>4. ASSUME NEW e \in posted, GoesOn(e) PROVE LatestShown(sc)'
  BY <1>4, LatestFrame DEF GoesOn
<1>5. ASSUME NEW e \in posted, Serve(e) PROVE LatestShown(sc)'
  <2>1. CASE Report(e)
    <3>1. \A i \in DOMAIN log : log[i] \in Events
      BY <1>0 DEF LogTyped
    <3>2. \A i \in DOMAIN log : progress'[log[i]] = "recorded" <=> progress[log[i]] = "recorded"
      BY <1>0, <2>1, <3>1 DEF Report, Moves, LogTyped
    <3> QED BY <2>1, <3>2, LatestFrame DEF Report
  <2>2. CASE Answer(e)
    BY <2>2, LatestFrame DEF Answer
  <2> QED BY <1>1, <1>5, <2>1, <2>2, LatestLog, LatestRecord DEF Serve
<1> QED BY <1>0, <1>2, <1>3, <1>4, <1>5, EventSteps

LEMMA SceneInvHolds == CampaignSpec => []SceneInv
<1>1. CampaignInit => SceneInv
  <2> SUFFICES ASSUME CampaignInit PROVE SceneInv
    OBVIOUS
  <2>1. log = <<>> /\ posted = {} /\ \A e \in Events : progress[e] = "unsent"
    BY DEF CampaignInit, BridgeInit
  <2>2. \A d \in Dispatches : thread[d].pc = "new"
    BY DEF CampaignInit, BridgeInit, Thread
  <2> QED BY <2>1, <2>2 DEF SceneInv, AllLogged, Scene, SoleReport, UnderWay, ActiveShown, LatestShown,
                          Reported
<1>2. EventsInv /\ EventsInv' /\ SceneInv /\ [CampaignNext]_campaignVars => SceneInv'
  <2> SUFFICES ASSUME EventsInv, EventsInv', SceneInv, [CampaignNext]_campaignVars
               PROVE  SceneInv'
    OBVIOUS
  <2>1. BridgeInv /\ PostedInOrder /\ LogTyped /\ AllLogged
    BY DEF EventsInv, SceneInv
  <2>2. AllLogged'
    BY <2>1, AllLoggedNext
  <2>3. ASSUME NEW sc \in Scenarios, Undisturbed(sc)' PROVE Scene(sc)'
    <3>1. Undisturbed(sc)
      BY <2>1, <2>3, UndisturbedBefore
    <3>2. Reporting(sc) /\ LatestShown(sc)
      BY <3>1 DEF SceneInv, Scene, Reporting
    <3>3. Reporting(sc)' /\ LatestShown(sc)'
      BY <2>1, <2>3, <3>2, ReportingNext, LatestNext
    <3> QED BY <3>3 DEF Scene, Reporting
  <2> QED BY <2>2, <2>3 DEF SceneInv
<1> QED BY <1>1, <1>2, EventsInvHolds, PTL DEF CampaignSpec

\* In a scenario that nothing disturbed, attack_active is true while an operation is
\* polled and false once its result was posted and no other is reported.
THEOREM ActiveIsShown == CampaignSpec => []ActiveDuringAttack
<1>1. SceneInv => ActiveDuringAttack
  <2> SUFFICES ASSUME SceneInv, NEW d \in Dispatches, Undisturbed(ScenarioOf[d])
               PROVE  LET sc == ScenarioOf[d]
                      IN /\ thread[d].pc \in {"poll", "result"} => attack_active[sc]
                         /\ StartEvent(d) \in posted /\ thread[d].pc \in {"restore", "done"}
                              /\ (\A x \in Dispatches : ScenarioOf[x] = sc => ~Reported(x))
                            => ~attack_active[sc]
    BY DEF ActiveDuringAttack
  <2>1. ScenarioOf[d] \in Scenarios
    BY ScenarioAssumption
  <2> QED BY <2>1 DEF SceneInv, Scene, ActiveShown
<1> QED BY <1>1, SceneInvHolds, PTL

\* In a scenario that nothing disturbed, once no event of it is under way, the result
\* metrics shows is the last one in the logger's file.
THEOREM LatestIsLogged == CampaignSpec => []LatestResultIsLogged
<1>1. EventsInv /\ SceneInv => LatestResultIsLogged
  <2> SUFFICES ASSUME EventsInv, SceneInv, NEW sc \in Scenarios, Undisturbed(sc),
                      \A e \in posted : Scenario(e) = sc => e \in answered,
                      NEW i \in DOMAIN log, LoggedResult(i, sc),
                      \A j \in DOMAIN log : LoggedResult(j, sc) => j <= i
               PROVE  latest_results[sc] = {log[i]}
    BY DEF LatestResultIsLogged, LoggedResult
  <2>1. LogTyped /\ LogKept /\ HeardInOrder /\ LatestShown(sc)
    BY DEF EventsInv, SceneInv, Scene
  <2>2. log[i] \in posted /\ Scenario(log[i]) = sc
    BY <2>1 DEF LogTyped, LogKept, LoggedResult
  <2>3. progress[log[i]] = "recorded"
    BY <2>1, <2>2, UndisturbedEvents
  <2> QED BY <2>1, <2>3 DEF LatestShown
<1> QED BY <1>1, EventsInvHolds, SceneInvHolds, PTL
=============================================================================
