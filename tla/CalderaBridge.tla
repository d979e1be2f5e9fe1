--------------------------- MODULE CalderaBridge ---------------------------
(* The Caldera dispatch bridge of attacker/engine/caldera_dispatch_bridge.py. *)
(* A dispatch moves the agents of its plan's hosts into a group of its own,   *)
(* launches an operation on that group, reports the attack's start and, when  *)
(* the operation ends or the polling deadline passes, its result, and moves   *)
(* the agents back. The server has a thread per request, so dispatches        *)
(* interleave between any two calls to Caldera.                               *)
(*                                                                            *)
(* Caldera (agents' groups, operations) is external, as the bridge uses it.   *)
(* Reads that decide nothing (planners, sources, obfuscators, log-in) are     *)
(* left out, and so is the copy of the result sent to the cloud policy.       *)
EXTENDS Naturals, FiniteSets

CONSTANTS
  Agents,        \* Caldera agents (paws)
  Dispatches,    \* POST /caldera/dispatch requests; each names its own scoped group
  TargetsOf,     \* dispatch |-> agents whose host its plan targets
  DefaultGroup,  \* --group, where agents are at first
  MaxFailures,   \* bound: calls to Caldera that fail or time out
  MaxStops       \* bound: how often the bridge process stops

ASSUME TargetsAssumption == TargetsOf \in [Dispatches -> SUBSET Agents]
ASSUME GroupAssumption == DefaultGroup \notin Dispatches
ASSUME BridgeBounds == MaxFailures \in Nat /\ MaxStops \in Nat

VARIABLES
  group,       \* Caldera: agent |-> its group
  operation,   \* Caldera: state of the operation launched for a dispatch
  thread,      \* what serves a dispatch: the request handler, then poll_operation
  posted,      \* events posted to the cloud logger so far
  failures,    \* calls that failed so far
  stops,       \* times the bridge stopped
  disturbed    \* history: agents that two dispatches used at once, or whose
               \* PATCH failed, or whose dispatch died with the bridge

bridgeVars == <<group, operation, thread, posted, failures, stops, disturbed>>

Groups == Dispatches \union {DefaultGroup}
Ended == {"succeeded", "failed"}
OperationStates == {"none", "running"} \union Ended

\* The states of a dispatch. "undo" moves agents back before the launch,
\* "abandon" after a launch that failed, "restore" at the end of polling.
Steps == {"new", "query", "patch", "undo", "launch", "abandon", "start", "starting",
          "poll", "result", "resulting", "restore", "done", "dead"}

\* What last_operation is: unknown as launched, or a state Caldera returned
\* ("running" covers both), or the empty answer to a GET that failed, which has
\* no id.
Observations == {"running", "lost"} \union Ended

ThreadType ==
  [pc : Steps,
   seen : UNION {[sel -> Groups] : sel \in SUBSET Agents},  \* selected agents and their groups
   todo : SUBSET Agents,                                   \* agents to patch or to move back
   held : SUBSET Agents,                                   \* group_assignments
   last : Observations]

Thread(pc) == [pc |-> pc, seen |-> [a \in {} |-> DefaultGroup], todo |-> {}, held |-> {},
               last |-> "running"]

StartEvent(d) == [type |-> "attack_start", op |-> d]

\* operation_success of the last state seen; "named" is whether the operation's id is there.
ResultEvent(d, last) ==
  [type |-> "attack_result", op |-> d, success |-> last = "succeeded", named |-> last # "lost"]

Events ==
  [type : {"attack_start"}, op : Dispatches] \union
  [type : {"attack_result"}, op : Dispatches, success : BOOLEAN, named : BOOLEAN]

BridgeInit ==
  /\ group = [a \in Agents |-> DefaultGroup]
  /\ operation = [d \in Dispatches |-> "none"]
  /\ thread = [d \in Dispatches |-> Thread("new")]
  /\ posted = {}
  /\ failures = 0
  /\ stops = 0
  /\ disturbed = {}

At(d, pc) == thread[d].pc = pc
Goto(d, pc) == thread' = [thread EXCEPT ![d].pc = pc]

Working(d) == thread[d].pc \notin {"new", "query", "done", "dead"}

\* Agents a dispatch has moved, or is about to move.
Selected(d) == IF Working(d) THEN thread[d].held \union thread[d].todo ELSE {}

-----------------------------------------------------------------------------
(* The request handler.                                                       *)

\* select_adversary and verify_adversary_exists: 400, or on to the targets.
Preflight(d) ==
  /\ At(d, "new")
  /\ \E next \in {"done", "query"} : Goto(d, next)
  /\ UNCHANGED <<group, operation, posted, failures, stops, disturbed>>

\* live_agents_for_hosts: the agents of the target hosts that are alive, and the
\* groups they are in by now. With none the operation runs on the default group.
Query(d) ==
  /\ At(d, "query")
  /\ \E sel \in SUBSET TargetsOf[d] :
       /\ thread' = [thread EXCEPT ![d] =
            [@ EXCEPT !.pc = IF sel = {} THEN "launch" ELSE "patch",
                      !.seen = [a \in sel |-> group[a]], !.todo = sel]]
       /\ disturbed' = disturbed \union (sel \intersect UNION {Selected(e) : e \in Dispatches})
  /\ UNCHANGED <<group, operation, posted, failures, stops>>

\* A PATCH of agent a's group: done and answered, or failed, perhaps after it
\* was done (a timeout).
PatchGroup(a, g, ok) ==
  IF ok
  THEN /\ group' = [group EXCEPT ![a] = g]
       /\ UNCHANGED <<failures, disturbed>>
  ELSE /\ failures < MaxFailures
       /\ failures' = failures + 1
       /\ group' \in {group, [group EXCEPT ![a] = g]}
       /\ disturbed' = disturbed \union {a}

\* Wrong variant: agents are taken one by one without being noted.
PatchUnnoted(d, a) ==
  /\ At(d, "patch")
  /\ a \in thread[d].todo
  /\ PatchGroup(a, d, TRUE)
  /\ thread' = [thread EXCEPT ![d].todo = @ \ {a},
                              ![d].pc = IF thread[d].todo = {a} THEN "launch" ELSE "patch"]
  /\ UNCHANGED <<operation, posted, stops>>

\* The next selected agent joins the scoped group and is noted down; when its
\* PATCH fails, those noted down are moved back.
PatchNext(d, a) ==
  /\ At(d, "patch")
  /\ a \in thread[d].todo
  /\ \/ /\ PatchGroup(a, d, TRUE)
        /\ thread' = [thread EXCEPT ![d].held = @ \union {a},
                                    ![d].todo = @ \ {a},
                                    ![d].pc = IF thread[d].todo = {a} THEN "launch" ELSE "patch"]
     \/ /\ PatchGroup(a, d, FALSE)
        /\ thread' = [thread EXCEPT ![d].todo = thread[d].held,
                                    ![d].pc = IF thread[d].held = {} THEN "launch" ELSE "undo"]
  /\ UNCHANGED <<operation, posted, stops>>

\* When the last agent has been moved back the launch follows an "undo";
\* otherwise the thread ends.
AfterRestore(t) ==
  IF t.todo # {} THEN t ELSE IF t.pc = "undo" THEN [t EXCEPT !.pc = "launch"] ELSE Thread("done")

\* An agent's original_group.
OriginalGroup(d, a) == thread[d].seen[a]

\* A thread that is done with an agent.
Without(t, a) == [t EXCEPT !.todo = @ \ {a}, !.held = @ \ {a}]

\* restore_agent_groups: back to the group the agent was seen in; the answer is
\* not looked at.
Restore(d, a) ==
  /\ thread[d].pc \in {"undo", "abandon", "restore"}
  /\ a \in thread[d].todo
  /\ \E ok \in BOOLEAN : PatchGroup(a, OriginalGroup(d, a), ok)
  /\ thread' = [thread EXCEPT ![d] = AfterRestore(Without(thread[d], a))]
  /\ UNCHANGED <<operation, posted, stops>>

\* Move the noted agents back under pc, or be done at once.
BackVia(d, pc) ==
  thread' = [thread EXCEPT ![d] = AfterRestore([@ EXCEPT !.pc = pc, !.todo = thread[d].held])]

\* POST /api/v2/operations. On a failure (502), and when Caldera put the ad-hoc
\* adversary in (400), the agents are moved back; an operation that exists
\* nevertheless is left running.
Launch(d) ==
  /\ At(d, "launch")
  /\ \/ /\ operation' = [operation EXCEPT ![d] = "running"]
        /\ Goto(d, "start") \/ BackVia(d, "abandon")
        /\ UNCHANGED failures
     \/ /\ failures < MaxFailures
        /\ failures' = failures + 1
        /\ operation' \in {operation, [operation EXCEPT ![d] = "running"]}
        /\ BackVia(d, "abandon")
  /\ UNCHANGED <<group, posted, stops, disturbed>>

\* post_attack_start
PostStart(d) ==
  /\ At(d, "start")
  /\ posted' = posted \union {StartEvent(d)}
  /\ Goto(d, "starting")
  /\ UNCHANGED <<group, operation, failures, stops, disturbed>>

\* The logger answered or the call timed out, all the same: poll_operation is
\* started and the dispatch answered with 202.
StartPolling(d) ==
  /\ At(d, "starting")
  /\ Goto(d, "poll")
  /\ UNCHANGED <<group, operation, posted, failures, stops, disturbed>>

-----------------------------------------------------------------------------
(* poll_operation.                                                            *)

\* Wrong variant: the deadline is not checked.
PollForever(d) ==
  /\ At(d, "poll")
  /\ thread' = [thread EXCEPT ![d].last = operation[d],
                              ![d].pc = IF operation[d] \in Ended THEN "result" ELSE "poll"]
  /\ UNCHANGED <<group, operation, posted, failures, stops, disturbed>>

\* One pass of the loop: the operation's state, if the GET succeeds, or the
\* deadline. An ended operation ends the loop.
Poll(d) ==
  /\ At(d, "poll")
  /\ \/ /\ thread' = [thread EXCEPT ![d].last = operation[d],
                                    ![d].pc = IF operation[d] \in Ended THEN "result" ELSE "poll"]
        /\ UNCHANGED failures
     \/ /\ failures < MaxFailures
        /\ failures' = failures + 1
        /\ thread' = [thread EXCEPT ![d].last = "lost"]
     \/ /\ Goto(d, "result")
        /\ UNCHANGED failures
  /\ UNCHANGED <<group, operation, posted, stops, disturbed>>

\* post_attack_result
PostResult(d) ==
  /\ At(d, "result")
  /\ posted' = posted \union {ResultEvent(d, thread[d].last)}
  /\ Goto(d, "resulting")
  /\ UNCHANGED <<group, operation, failures, stops, disturbed>>

\* Wrong variant: no `finally`.
FinishWithoutRestore(d) ==
  /\ At(d, "resulting")
  /\ thread' = [thread EXCEPT ![d] = Thread("done")]
  /\ UNCHANGED <<group, operation, posted, failures, stops, disturbed>>

\* The `finally` of poll_operation, whatever became of the post.
FinishPolling(d) ==
  /\ At(d, "resulting")
  /\ BackVia(d, "restore")
  /\ UNCHANGED <<group, operation, posted, failures, stops, disturbed>>

-----------------------------------------------------------------------------
(* Caldera, and the process.                                                  *)

OperationEnds(d) ==
  /\ operation[d] = "running"
  /\ \E outcome \in Ended : operation' = [operation EXCEPT ![d] = outcome]
  /\ UNCHANGED <<group, thread, posted, failures, stops, disturbed>>

\* The bridge process stops: its threads are daemons, what they hold stays
\* as it is. It may be started again for the dispatches yet to come.
BridgeStops ==
  /\ stops < MaxStops
  /\ stops' = stops + 1
  /\ thread' = [d \in Dispatches |->
       IF thread[d].pc \in {"new", "done", "dead"} THEN thread[d]
       ELSE Thread("dead")]
  /\ disturbed' = disturbed \union UNION {Selected(d) : d \in Dispatches}
  /\ UNCHANGED <<group, operation, posted, failures>>

DispatchStep(d) ==
  \/ Preflight(d) \/ Query(d)
  \/ \E a \in Agents : PatchNext(d, a) \/ Restore(d, a)
  \/ Launch(d) \/ PostStart(d) \/ StartPolling(d)
  \/ Poll(d) \/ PostResult(d) \/ FinishPolling(d)

BridgeNext ==
  \/ \E d \in Dispatches : DispatchStep(d) \/ OperationEnds(d)
  \/ BridgeStops

BridgeSpec == BridgeInit /\ [][BridgeNext]_bridgeVars

\* Threads run; calls end by their timeouts. Operations may run for ever.
BridgeFairSpec == BridgeSpec /\ \A d \in Dispatches : WF_bridgeVars(DispatchStep(d))
-----------------------------------------------------------------------------

\* Every variable holds what Caldera and the threads of the bridge can hold.
BridgeTypeOK ==
  /\ group \in [Agents -> Groups]
  /\ operation \in [Dispatches -> OperationStates]
  /\ thread \in [Dispatches -> ThreadType]
  /\ posted \subseteq Events
  /\ failures \in 0..MaxFailures
  /\ stops \in 0..MaxStops
  /\ disturbed \subseteq Agents

\* An agent that no other dispatch took, no PATCH failed for and no stop hit is
\* where it belongs: with the dispatch that noted it, else in the default
\* group. Refusals, failed launches and undone groups included.
AgentsAccounted ==
  \A a \in Agents \ disturbed :
    LET holders == {d \in Dispatches : Working(d) /\ a \in thread[d].held}
    IN IF holders = {} THEN group[a] = DefaultGroup ELSE holders = {group[a]}

\* Agents are moved back: one that left the default group returns to it.
AgentsReturn ==
  \A a \in Agents :
    group[a] # DefaultGroup ~> (group[a] = DefaultGroup \/ a \in disturbed)

\* A dispatch that reported the start of its attack reports a result, unless
\* the bridge stops: success only of an operation that succeeded.
ResultReported ==
  \A d \in Dispatches :
    StartEvent(d) \in posted ~>
      \/ \E e \in posted : e.type = "attack_result" /\ e.op = d /\
                           (e.success => operation[d] = "succeeded")
      \/ At(d, "dead")
=============================================================================
