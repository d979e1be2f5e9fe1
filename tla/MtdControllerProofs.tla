------------------------ MODULE MtdControllerProofs ------------------------
(* Proofs about MtdController for every network, every set of requests and    *)
(* any number of threads and lost connections: the state is well typed, no    *)
(* policy rule or meter outlives its registry entry, and a registered policy  *)
(* is in force. Then about StageRunner, its client: for any number of stages  *)
(* a reset that succeeded is one, and a defence lasts as long as its stage.   *)
EXTENDS StageRunner, FiniteSetTheorems, TLAPS

\* Threads, registry and history speak of issued actions only.
TaskIssued(t) ==
  /\ t.pc # "idle" => t.id \in Issued
  /\ t.pc = "reroute" => request[t.id].kind = "reroute_traffic"
  /\ t.todo \subseteq Issued

OnlyIssued ==
  /\ \A th \in Threads : TaskIssued(task[th])
  /\ active_actions \subseteq Issued
  /\ aborted \subseteq Issued
  /\ \A s \in Switches : preSession[s] \subseteq Issued

\* The matches of every request are matches.
LEMMA MatchesTyped ==
  ASSUME NEW req \in Requests \union {NoRequest}, NEW s \in Switches
  PROVE  RequiredMatches(req, s) \subseteq Matches
<1>1. CASE req \in [kind : PolicyKinds, target : Targets]
  <2>1. TargetIPs(req.target) \subseteq IPs
    BY <1>1, InterfacesAssumption DEF TargetIPs, Targets
  <2> QED BY <1>1, <2>1 DEF RequiredMatches, Matches, MatchKinds, PolicyKinds
<1>2. CASE req \in [kind : {"reroute_traffic"}, target : Nodes, via : Switches]
  <2>1. /\ req.kind = "reroute_traffic"
        /\ TargetIPs(req.target) \subseteq IPs
        /\ BlockedInterfaces(req) \subseteq Switches \X IPs
    BY <1>2, InterfacesAssumption DEF TargetIPs, BlockedInterfaces
  <2>2. RerouteMatches(req, s) \subseteq Matches
    BY <2>1 DEF RerouteMatches, Matches, MatchKinds
  <2> QED BY <2>1, <2>2 DEF RequiredMatches
<1>3. CASE req = NoRequest
  BY <1>3 DEF RequiredMatches, NoRequest
<1> QED BY <1>1, <1>2, <1>3 DEF Requests

LEMMA PortMatchesTyped ==
  ASSUME NEW req \in Requests, req.kind = "reroute_traffic", NEW s \in Switches
  PROVE  PortMatches(req, s) \subseteq Matches
<1>1. BlockedInterfaces(req) \subseteq Switches \X IPs
  BY InterfacesAssumption DEF BlockedInterfaces, Requests, PolicyKinds
<1> QED BY <1>1 DEF PortMatches, Matches, MatchKinds

\* What a thread queues for a switch are messages about its own action.
LEMMA InstallMessagesTyped ==
  ASSUME NEW req \in Requests \union {NoRequest}, NEW s \in Switches, NEW id \in ActionIds
  PROVE  /\ InstallMessages(id, req, s) \subseteq Messages
         /\ \A m \in InstallMessages(id, req, s) : m.id = id /\ m.op \in {"flow", "meter"}
BY MatchesTyped DEF InstallMessages, Messages, Flow, AddMeter

LEMMA EraseMessagesTyped ==
  ASSUME NEW id \in ActionIds
  PROVE  /\ EraseMessages(id) \subseteq Messages
         /\ DeleteFlows(id) \in EraseMessages(id)
         /\ \A m \in EraseMessages(id) : m.id = id /\ m.op \in {"unflow", "unmeter"}
BY DEF EraseMessages, Messages, DeleteFlows, DeleteMeter

\* send_msg always finds a message to send while some are left.
LEMMA NextMessageExists ==
  ASSUME NEW out \in SUBSET Messages, out # {}
  PROVE  NextMessage(out) \in out
<1>1. CASE \E m \in out : m.op \in {"meter", "unflow"}
  BY <1>1 DEF NextMessage, Precedes
<1>2. CASE \A m \in out : m.op \notin {"meter", "unflow"}
  BY <1>2 DEF NextMessage, Precedes
<1> QED BY <1>1, <1>2

LEMMA DatapathsFinite ==
  ASSUME NEW S \in SUBSET Switches
  PROVE  Cardinality(S) \in Nat
BY SwitchesAssumption, FS_Subset, FS_CardinalityType

-----------------------------------------------------------------------------

\* Thread states are built by Loop and Sending.
LEMMA LoopTyped ==
  ASSUME NEW pc \in {"idle", "install", "reroute", "erase"},
         NEW id \in ActionIds \union {NoAction}, NEW left \in SUBSET Switches,
         NEW size \in Nat, NEW todo \in SUBSET ActionIds
  PROVE  Loop(pc, id, left, size, todo) \in TaskType
BY DEF Loop, TaskType

LEMMA SendingTyped ==
  ASSUME NEW t \in TaskType, NEW left \in SUBSET Switches,
         NEW at \in Switches \union {NoAction}, NEW out \in SUBSET Messages
  PROVE  /\ Sending(t, left, at, out) \in TaskType
         /\ Sending(t, left, at, out).pc = t.pc
         /\ Sending(t, left, at, out).id = t.id
         /\ Sending(t, left, at, out).left = left
         /\ Sending(t, left, at, out).out = out
         /\ Sending(t, left, at, out).todo = t.todo
         /\ out # {} => Sending(t, left, at, out).at = at
BY DEF Sending, TaskType

LEMMA IdleTyped == Idle \in TaskType /\ Idle.pc = "idle" /\ Idle.out = {}
BY DEF Loop, TaskType, Idle

LEMMA EraseTyped ==
  ASSUME NEW ids \in SUBSET ActionIds, datapaths \subseteq Switches, NEW t \in Erase(ids)
  PROVE  /\ t \in TaskType
         /\ t.out = {}
         /\ \/ t = Idle
            \/ /\ t.pc = "erase" /\ t.id \in ids /\ t.left = datapaths
               /\ t.todo = ids \ {t.id}
<1>1. Cardinality(datapaths) \in Nat
  BY DatapathsFinite
<1>2. CASE ids = {}
  BY <1>2, IdleTyped DEF Erase
<1>3. CASE ids # {}
  <2>1. PICK id \in ids : t = Loop("erase", id, datapaths, Cardinality(datapaths), ids \ {id})
    BY <1>3 DEF Erase
  <2>2. t \in TaskType
    BY <1>1, <2>1, LoopTyped
  <2> QED BY <2>1, <2>2 DEF Loop
<1> QED BY <1>2, <1>3

LEMMA InitTyped == Init => TypeOK /\ OnlyIssued
<1> SUFFICES ASSUME Init PROVE TypeOK /\ OnlyIssued
  OBVIOUS
<1>1. chan \in [Switches -> Seq(Messages)]
  BY DEF Init
<1>2. table \in [Switches -> [Matches -> ActionIds \union {NoAction}]]
  BY DEF Init
<1>3. task \in [Threads -> TaskType]
  BY IdleTyped DEF Init
<1>4. OnlyIssued
  BY DEF Init, OnlyIssued, TaskIssued, Idle, Loop
<1> QED BY <1>1, <1>2, <1>3, <1>4, BoundAssumption DEF Init, TypeOK

\* One thread moves to a good state while nothing is issued.
LEMMA TaskUpdate ==
  ASSUME task \in [Threads -> TaskType], OnlyIssued, UNCHANGED request,
         NEW th \in Threads, NEW t \in TaskType, TaskIssued(t),
         task' = [task EXCEPT ![th] = t]
  PROVE  /\ task' \in [Threads -> TaskType]
         /\ \A x \in Threads : TaskIssued(task[x])'
BY DEF OnlyIssued, TaskIssued, Issued

LEMMA AppendTyped ==
  ASSUME NEW c \in [Switches -> Seq(Messages)], NEW s, NEW m \in Messages
  PROVE  [c EXCEPT ![s] = Append(@, m)] \in [Switches -> Seq(Messages)]
<1>1. \A x \in Switches : Append(c[x], m) \in Seq(Messages)
  OBVIOUS
<1> QED BY <1>1

\* The handlers keep the types.
LEMMA WorkTyped ==
  ASSUME TypeOK, OnlyIssued, NEW th \in Threads, Work(th)
  PROVE  TypeOK' /\ OnlyIssued'
<1>0. /\ task \in [Threads -> TaskType] /\ task[th] \in TaskType
      /\ task[th].left \subseteq Switches /\ task[th].out \subseteq Messages
      /\ task[th].at \in Switches \union {NoAction} /\ task[th].todo \subseteq ActionIds
      /\ TaskIssued(task[th]) /\ Issued \subseteq ActionIds
  BY DEF TypeOK, TaskType, OnlyIssued, Issued
\* A thread that works on its messages keeps its action.
<1>s. ASSUME NEW left \in SUBSET Switches, NEW at \in Switches \union {NoAction},
             NEW out \in SUBSET Messages, UNCHANGED request,
             task' = [task EXCEPT ![th] = Sending(task[th], left, at, out)]
      PROVE  task' \in [Threads -> TaskType] /\ \A x \in Threads : TaskIssued(task[x])'
  <2> DEFINE t == Sending(task[th], left, at, out)
  <2>1. /\ t \in TaskType /\ t.pc = task[th].pc /\ t.id = task[th].id
        /\ t.todo = task[th].todo
    BY <1>0, SendingTyped
  <2>2. TaskIssued(t)
    BY <1>0, <2>1 DEF TaskIssued
  <2> HIDE DEF t
  <2> QED BY <1>0, <1>s, <2>1, <2>2, TaskUpdate DEF t
\* A thread that is done keeps nothing.
<1>i. ASSUME UNCHANGED request, task' = [task EXCEPT ![th] = Idle]
      PROVE  task' \in [Threads -> TaskType] /\ \A x \in Threads : TaskIssued(task[x])'
  <2>1. TaskIssued(Idle)
    BY DEF TaskIssued, Idle, Loop
  <2> QED BY <1>0, <1>i, <2>1, IdleTyped, TaskUpdate
<1>1. ASSUME NEW s \in Switches, VisitDatapath(th, s) PROVE TypeOK' /\ OnlyIssued'
  <2> DEFINE id == task[th].id
             msgs == IF task[th].pc = "install" THEN InstallMessages(id, request[id], s)
                     ELSE EraseMessages(id)
             out == Outgoing(s, msgs)
  <2>1. id \in ActionIds /\ request[id] \in Requests \union {NoRequest}
    BY <1>0, <1>1 DEF VisitDatapath, TaskIssued, TypeOK
  <2>2. out \subseteq Messages
    BY <2>1, InstallMessagesTyped, EraseMessagesTyped DEF Outgoing
  <2>3. /\ task' = [task EXCEPT ![th] = Sending(task[th], task[th].left \ {s}, s, out)]
        /\ UNCHANGED <<datapaths, active_actions, request, networkVars, historyVars>>
    BY <1>1 DEF VisitDatapath, Visited
  <2> HIDE DEF out
  <2>4. task' \in [Threads -> TaskType] /\ \A x \in Threads : TaskIssued(task[x])'
    BY <1>0, <1>s, <2>2, <2>3
  <2> QED BY <2>3, <2>4 DEF TypeOK, OnlyIssued, Issued, networkVars, historyVars
<1>2. ASSUME NEW s \in Switches, VisitInterface(th, s) PROVE TypeOK' /\ OnlyIssued'
  <2> DEFINE id == task[th].id
             req == request[id]
  <2>1. id \in ActionIds /\ req \in Requests /\ req.kind = "reroute_traffic"
    BY <1>0, <1>2 DEF VisitInterface, TaskIssued, Issued, TypeOK
  <2>2. PICK ports \in {{}, PortMatches(req, s)} :
          task' = Visited(th, s,
            IF s \in datapaths
            THEN Outgoing(s, InstallMessages(id, req, s) \union {Flow(id, m) : m \in ports})
            ELSE {})
    BY <1>2 DEF VisitInterface
  <2> HIDE DEF id, req
  <2>3. ports \subseteq Matches
    BY <2>1, PortMatchesTyped
  <2>4. InstallMessages(id, req, s) \subseteq Messages
    BY <2>1, InstallMessagesTyped
  <2>5. {Flow(id, m) : m \in ports} \subseteq Messages
    BY <2>1, <2>3 DEF Flow, Messages
  <2> DEFINE out == IF s \in datapaths
                    THEN Outgoing(s, InstallMessages(id, req, s)
                                     \union {Flow(id, m) : m \in ports})
                    ELSE {}
  <2>6. out \subseteq Messages
    BY <2>4, <2>5 DEF Outgoing
  <2>7. /\ task' = [task EXCEPT ![th] = Sending(task[th], task[th].left \ {s}, s, out)]
        /\ UNCHANGED <<datapaths, active_actions, request, networkVars, historyVars>>
    BY <1>2, <2>2 DEF VisitInterface, Visited
  <2> HIDE DEF out
  <2>8. task' \in [Threads -> TaskType] /\ \A x \in Threads : TaskIssued(task[x])'
    BY <1>0, <1>s, <2>6, <2>7
  <2> QED BY <2>7, <2>8 DEF TypeOK, OnlyIssued, Issued, networkVars, historyVars
<1>3. CASE Send(th)
  <2> DEFINE m == NextMessage(task[th].out)
             out == task[th].out \ {m}
  <2>1. m \in Messages /\ out \subseteq Messages
    BY <1>0, <1>3, NextMessageExists DEF Send
  <2>2. /\ chan' = [chan EXCEPT ![task[th].at] = Append(@, m)]
        /\ task' = [task EXCEPT ![th] = Sending(task[th], task[th].left, task[th].at, out)]
        /\ UNCHANGED <<datapaths, active_actions, request, connected, deadEvents, losses,
                        table, meters, historyVars>>
    BY <1>3 DEF Send
  <2> HIDE DEF m, out
  <2>3. task' \in [Threads -> TaskType] /\ \A x \in Threads : TaskIssued(task[x])'
    BY <1>0, <1>s, <2>1, <2>2
  <2>4. chan' \in [Switches -> Seq(Messages)]
    BY <2>1, <2>2, AppendTyped DEF TypeOK
  <2> QED BY <2>2, <2>3, <2>4 DEF TypeOK, OnlyIssued, Issued, historyVars
<1>4. CASE Register(th)
  <2>1. task' \in [Threads -> TaskType] /\ \A x \in Threads : TaskIssued(task[x])'
    BY <1>4, <1>i DEF Register
  <2>2. task[th].id \in Issued
    BY <1>0, <1>4 DEF Register, TaskIssued
  <2> QED BY <1>0, <1>4, <2>1, <2>2
          DEF Register, TypeOK, OnlyIssued, Issued, networkVars, historyVars
<1>5. CASE IterationError(th)
  <2>1. task' \in [Threads -> TaskType] /\ \A x \in Threads : TaskIssued(task[x])'
    BY <1>5, <1>i DEF IterationError
  <2>2. task[th].id \in Issued
    BY <1>0, <1>5 DEF IterationError, TaskIssued
  <2> QED BY <1>0, <1>5, <2>1, <2>2
          DEF IterationError, TypeOK, OnlyIssued, Issued, networkVars
<1>6. CASE Unregister(th)
  <2>1. PICK next \in Erase(task[th].todo) : task' = [task EXCEPT ![th] = next]
    BY <1>6 DEF Unregister
  <2>2. /\ next \in TaskType
        /\ next # Idle => /\ next.pc = "erase" /\ next.id \in task[th].todo
                          /\ next.todo \subseteq task[th].todo
    BY <1>0, <2>1, EraseTyped DEF TypeOK
  <2>3. TaskIssued(next)
    BY <1>0, <2>2 DEF TaskIssued, Idle, Loop
  <2>4. task' \in [Threads -> TaskType] /\ \A x \in Threads : TaskIssued(task[x])'
    BY <1>0, <1>6, <2>1, <2>2, <2>3, TaskUpdate DEF Unregister
  <2> QED BY <1>6, <2>4 DEF Unregister, TypeOK, OnlyIssued, Issued, networkVars, historyVars
<1>7. CASE UnregisterTwice(th)
  <2>1. task' \in [Threads -> TaskType] /\ \A x \in Threads : TaskIssued(task[x])'
    BY <1>7, <1>i DEF UnregisterTwice
  <2> QED BY <1>7, <2>1 DEF UnregisterTwice, TypeOK, OnlyIssued, Issued, networkVars, historyVars
<1> QED BY <1>1, <1>2, <1>3, <1>4, <1>5, <1>6, <1>7 DEF Work

\* So does a new request.
LEMMA RequestTyped ==
  ASSUME TypeOK, OnlyIssued, NEW th \in Threads, Request(th)
  PROVE  TypeOK' /\ OnlyIssued'
<1>0. /\ task \in [Threads -> TaskType] /\ datapaths \subseteq Switches
      /\ Cardinality(datapaths) \in Nat /\ Issued \subseteq ActionIds
  BY DatapathsFinite DEF TypeOK, Issued
\* A fresh action, and the thread that installs it.
<1>n. ASSUME NEW id \in ActionIds \ Issued, NEW req \in Requests,
             NEW pc \in {"install", "reroute"}, NEW left \in SUBSET Switches, NEW size \in Nat,
             pc = "reroute" => req.kind = "reroute_traffic",
             request' = [request EXCEPT ![id] = req],
             task' = [task EXCEPT ![th] = Loop(pc, id, left, size, {})],
             UNCHANGED <<datapaths, active_actions, networkVars, historyVars>>
      PROVE  TypeOK' /\ OnlyIssued'
  <2>1. req # NoRequest
    BY DEF Requests, NoRequest, PolicyKinds
  <2>2. Issued' = Issued \union {id} /\ request' \in [ActionIds -> Requests \union {NoRequest}]
    BY <1>n, <2>1 DEF TypeOK, Issued
  <2> DEFINE t == Loop(pc, id, left, size, {})
  <2>3. t \in TaskType /\ t.pc = pc /\ t.id = id /\ t.todo = {}
    BY <1>n, LoopTyped DEF Loop
  <2> HIDE DEF t
  <2>4. task' \in [Threads -> TaskType]
    BY <1>0, <1>n, <2>3 DEF t
  <2>5. request'[id] = req
    BY <1>n DEF TypeOK
  <2>6. TaskIssued(t)'
    BY <1>n, <2>2, <2>3, <2>5 DEF TaskIssued, t, Loop
  <2>7. \A x \in Threads : TaskIssued(task[x])'
    <3> SUFFICES ASSUME NEW x \in Threads PROVE TaskIssued(task[x])'
      OBVIOUS
    <3>1. CASE x = th
      <4>1. task'[x] = t
        BY <1>0, <1>n, <3>1 DEF t
      <4> QED BY <4>1, <2>2, <2>3, <2>5, <1>n DEF TaskIssued
    <3>2. CASE x # th
      <4>1. task'[x] = task[x] /\ TaskIssued(task[x])
        BY <1>0, <1>n, <3>2 DEF OnlyIssued
      <4>2. task[x].pc = "reroute" => request'[task[x].id] = request[task[x].id]
        BY <1>n, <4>1 DEF TaskIssued, TypeOK
      <4> QED BY <2>2, <4>1, <4>2 DEF TaskIssued
    <3> QED BY <3>1, <3>2
  <2> QED BY <1>0, <1>n, <2>2, <2>4, <2>7 DEF TypeOK, OnlyIssued, networkVars, historyVars
<1>1. ASSUME NEW req \in Offered, NEW id \in ActionIds, BeginInstall(th, req, id)
      PROVE  TypeOK' /\ OnlyIssued'
  BY <1>0, <1>1, <1>n, OfferedAssumption DEF BeginInstall
<1>2. ASSUME NEW req \in Offered, NEW id \in ActionIds, BeginReroute(th, req, id)
      PROVE  TypeOK' /\ OnlyIssued'
  <2>1. req \in Requests /\ req.kind = "reroute_traffic"
    BY <1>2, OfferedAssumption DEF BeginReroute
  <2> DEFINE left == {i[1] : i \in BlockedInterfaces(req)}
  <2>2. left \subseteq Switches
    BY <2>1, InterfacesAssumption DEF BlockedInterfaces, Requests, PolicyKinds
  <2> HIDE DEF left
  <2> QED BY <1>2, <1>n, <2>1, <2>2 DEF BeginReroute, left
<1>3. ASSUME NEW ids \in SUBSET active_actions, BeginClear(th, ids)
      PROVE  TypeOK' /\ OnlyIssued'
  <2>1. ids \subseteq ActionIds /\ ids \subseteq Issued
    BY DEF TypeOK, OnlyIssued
  <2>2. PICK next \in Erase(ids) : task' = [task EXCEPT ![th] = next]
    BY <1>3 DEF BeginClear
  <2>3. /\ next \in TaskType
        /\ next # Idle => next.pc = "erase" /\ next.id \in ids /\ next.todo \subseteq ids
    BY <1>0, <2>1, EraseTyped
  <2>4. TaskIssued(next)
    BY <2>1, <2>3 DEF TaskIssued, Idle, Loop
  <2>5. task' \in [Threads -> TaskType] /\ \A x \in Threads : TaskIssued(task[x])'
    BY <1>0, <1>3, <2>2, <2>3, <2>4, TaskUpdate DEF BeginClear
  <2> QED BY <1>3, <2>5 DEF BeginClear, TypeOK, OnlyIssued, Issued, networkVars, historyVars
<1> QED BY <1>1, <1>2, <1>3 DEF Request, ClearTarget, ClearAll

LEMMA TableUpdateTyped ==
  ASSUME NEW X, NEW t \in [Switches -> [Matches -> X]], NEW s, NEW r \in [Matches -> X]
  PROVE  [t EXCEPT ![s] = r] \in [Switches -> [Matches -> X]]
OBVIOUS

\* And so do the switches and their connections.
LEMMA NetworkTyped ==
  ASSUME TypeOK, OnlyIssued, NEW s \in Switches, Network(s)
  PROVE  TypeOK' /\ OnlyIssued'
<1>0. /\ task \in [Threads -> TaskType] /\ Issued \subseteq ActionIds
      /\ \A x \in Threads : TaskIssued(task[x])
  BY DEF TypeOK, OnlyIssued, Issued
\* Threads keep their action and change what they still have to send at most.
<1>t. ASSUME NEW th \in Threads, NEW left \in SUBSET Switches, NEW out \in SUBSET Messages,
             NEW at \in Switches \union {NoAction}
      PROVE  Sending(task[th], left, at, out) \in TaskType /\ TaskIssued(Sending(task[th], left, at, out))
  BY <1>0, SendingTyped DEF TaskIssued
<1>u. \A th \in Threads : /\ task[th].left \subseteq Switches /\ task[th].out \subseteq Messages
                         /\ task[th].at \in Switches \union {NoAction}
  BY <1>0 DEF TaskType
<1>1. CASE SwitchConnects(s)
  <2>1. task' \in [Threads -> TaskType] /\ \A x \in Threads : TaskIssued(task'[x])
    BY <1>0, <1>1, <1>t, <1>u DEF SwitchConnects, WithEntry
  <2> QED BY <1>0, <1>1, <2>1 DEF SwitchConnects, TypeOK, OnlyIssued, TaskIssued, Issued
<1>2. ASSUME NEW restarted \in BOOLEAN, ConnectionLost(s, restarted) PROVE TypeOK' /\ OnlyIssued'
  <2>1. task' \in [Threads -> TaskType] /\ \A x \in Threads : TaskIssued(task'[x])
    BY <1>0, <1>2, <1>t, <1>u DEF ConnectionLost
  <2>2. /\ table' \in [Switches -> [Matches -> ActionIds \union {NoAction}]]
        /\ meters' \in [Switches -> SUBSET MeterIds]
    <3>1. [m \in Matches |-> NoAction] \in [Matches -> ActionIds \union {NoAction}]
      OBVIOUS
    <3>2. CASE restarted
      <4>1. /\ table' = [table EXCEPT ![s] = [m \in Matches |-> NoAction]]
            /\ meters' = [meters EXCEPT ![s] = {}]
        BY <1>2, <3>2 DEF ConnectionLost
      <4>2. /\ table \in [Switches -> [Matches -> ActionIds \union {NoAction}]]
            /\ meters \in [Switches -> SUBSET MeterIds]
        BY DEF TypeOK
      <4> QED BY <3>1, <4>1, <4>2, TableUpdateTyped
    <3>3. CASE ~restarted
      BY <1>2, <3>3 DEF ConnectionLost, TypeOK
    <3> QED BY <3>2, <3>3
  <2>3. /\ chan' \in [Switches -> Seq(Messages)] /\ deadEvents' \in [Switches -> Nat]
        /\ losses' \in 0..MaxLosses /\ preSession' \in [Switches -> SUBSET ActionIds]
    BY <1>0, <1>2, BoundAssumption DEF ConnectionLost, TypeOK
  <2> QED BY <1>0, <1>2, <2>1, <2>2, <2>3
          DEF ConnectionLost, TypeOK, OnlyIssued, TaskIssued, Issued
<1>3. CASE HandleDead(s)
  <2>1. task' \in [Threads -> TaskType] /\ \A x \in Threads : TaskIssued(task'[x])
    BY <1>0, <1>3, <1>t, <1>u DEF HandleDead, WithoutEntry
  <2>2. deadEvents' \in [Switches -> Nat]
    BY <1>3 DEF HandleDead, TypeOK
  <2> QED BY <1>0, <1>3, <2>1, <2>2 DEF HandleDead, TypeOK, OnlyIssued, TaskIssued, Issued
<1>4. CASE SwitchReceives(s)
  <2>1. /\ Head(chan[s]) \in Messages
        /\ chan' \in [Switches -> Seq(Messages)]
    BY <1>4 DEF SwitchReceives, TypeOK
  <2>2. meters' \in [Switches -> SUBSET MeterIds]
    BY <1>4, <2>1, MeterAssumption DEF SwitchReceives, TypeOK, Messages
  <2>3. table' \in [Switches -> [Matches -> ActionIds \union {NoAction}]]
    <3> DEFINE m == Head(chan[s])
    <3>0. table[s] \in [Matches -> ActionIds \union {NoAction}]
      BY DEF TypeOK
    <3>1. CASE m.op = "flow"
      <4>1. m.match \in Matches /\ m.id \in ActionIds
        BY <2>1, <3>1 DEF Messages
      <4>2. Installed(table[s], meters[s], m) \in [Matches -> ActionIds \union {NoAction}]
        BY <3>0, <4>1 DEF Installed
      <4> QED BY <1>4, <3>1, <4>2, TableUpdateTyped DEF SwitchReceives, TypeOK
    <3>2. /\ WithoutCookie(table[s], m.id) \in [Matches -> ActionIds \union {NoAction}]
          /\ WithoutMeter(table[s], m.id) \in [Matches -> ActionIds \union {NoAction}]
      BY <3>0 DEF WithoutCookie, WithoutMeter
    <3> HIDE DEF m
    <3>3. CASE m.op = "unflow"
      BY <1>4, <3>2, <3>3, TableUpdateTyped DEF SwitchReceives, TypeOK, m
    <3>4. CASE m.op = "unmeter"
      BY <1>4, <3>2, <3>4, TableUpdateTyped DEF SwitchReceives, TypeOK, m
    <3>5. CASE m.op = "meter"
      BY <1>4, <3>5 DEF SwitchReceives, TypeOK, m
    <3> QED BY <2>1, <3>1, <3>3, <3>4, <3>5 DEF Messages, m
  <2> QED BY <1>4, <2>1, <2>2, <2>3
          DEF SwitchReceives, TypeOK, OnlyIssued, TaskIssued, Issued, controllerVars, historyVars
<1> QED BY <1>1, <1>2, <1>3, <1>4 DEF Network

\* The types hold in every state, and threads, registry and history only ever
\* speak of actions that were issued.
THEOREM TypeCorrect == Spec => [](TypeOK /\ OnlyIssued)
<1>1. TypeOK /\ OnlyIssued /\ [Next]_vars => (TypeOK /\ OnlyIssued)'
  <2>1. ASSUME TypeOK, OnlyIssued, UNCHANGED vars PROVE (TypeOK /\ OnlyIssued)'
    BY <2>1 DEF vars, TypeOK, OnlyIssued, TaskIssued, Issued
  <2> QED BY <2>1, WorkTyped, RequestTyped, NetworkTyped DEF Next
<1> QED BY <1>1, InitTyped, PTL DEF Spec

-----------------------------------------------------------------------------
(* No policy rule outlives its registry entry.                                *)

InstallerPC == {"install", "reroute"}
Excused(s, id) == id \in preSession[s] \union aborted

\* A thread sends messages about its own action only, on a live connection.
TaskSends(t) ==
  /\ \A m \in t.out : /\ m.id = t.id
                      /\ t.pc \in InstallerPC => m.op \in {"flow", "meter"}
                      /\ t.pc = "erase" => m.op \in {"unflow", "unmeter"}
  /\ t.out # {} => /\ t.pc # "idle" /\ t.at \in connected
                   /\ t.at \in datapaths \/ Excused(t.at, t.id)
  /\ t.pc \in {"install", "erase"} => t.left \subseteq datapaths

\* An action has one installer, and nobody clears it before it is registered.
OneInstaller ==
  /\ \A th \in Threads, other \in Threads :
       task[th].pc \in InstallerPC /\ task[other].pc \in InstallerPC
         /\ task[th].id = task[other].id => th = other
  /\ \A id \in active_actions : ~Installing(id)
  /\ \A th \in Threads : /\ task[th].pc = "erase" => ~Installing(task[th].id)
                         /\ \A id \in task[th].todo : ~Installing(id)

\* Switches hold rules of issued actions only.
RulesIssued ==
  \A s \in Switches :
    /\ \A m \in Matches : table[s][m] \in Issued \union {NoAction}
    /\ \A i \in DOMAIN chan[s] : chan[s][i].id \in Issued

\* Rules stand only on switches the controller can reach.
RulesReachable ==
  \A s \in Switches, id \in ActionIds, m \in Matches :
    Stands(s, id, m) /\ ~Excused(s, id) => s \in connected /\ s \in datapaths

\* Where the loop of a clear has been, no rule stands.
EraseProgress ==
  \A th \in Threads, s \in Switches, m \in Matches :
    LET t == task[th]
    IN t.pc = "erase" /\ ~Excused(s, t.id) /\ s \notin t.left
         /\ ~(t.at = s /\ DeleteFlows(t.id) \in t.out)
       => ~Stands(s, t.id, m)

OrphanInv ==
  /\ \A th \in Threads : TaskSends(task[th])
  /\ OneInstaller
  /\ RulesIssued
  /\ RulesReachable
  /\ EraseProgress
  /\ NoOrphanRules

\* A switch that takes a message off its connection gains no rule that did not
\* stand before: a delete still reaches every rule it was sent after.
LEMMA ReceiveKeeps ==
  ASSUME TypeOK, NEW s \in Switches, SwitchReceives(s),
         NEW x \in Switches, NEW id \in ActionIds, NEW m \in Matches, Stands(x, id, m)'
  PROVE  Stands(x, id, m)
<1>0. chan \in [Switches -> Seq(Messages)] /\ chan[s] \in Seq(Messages) /\ chan[s] # <<>>
  BY DEF TypeOK, SwitchReceives
<1>1. CASE x # s
  <2>1. chan'[x] = chan[x] /\ table'[x] = table[x]
    BY <1>0, <1>1 DEF SwitchReceives, TypeOK
  <2> QED BY <2>1 DEF Stands, DeletedLater
<1>2. CASE x = s
  <2> DEFINE c == chan[s]
             h == Head(c)
  <2>1. /\ chan'[s] = Tail(c) /\ Len(c) \in Nat \ {0} /\ Len(Tail(c)) = Len(c) - 1
        /\ \A i \in 1..(Len(c) - 1) : Tail(c)[i] = c[i + 1]
        /\ h = c[1]
    BY <1>0 DEF SwitchReceives
  <2>2. DOMAIN c = 1..Len(c) /\ DOMAIN chan'[s] = 1..(Len(c) - 1)
    BY <1>0, <2>1
  <2> HIDE DEF c
  \* A delete behind the next message is still behind after it was taken.
  <2>3. ASSUME NEW i \in 1..Len(c), DeletedLater(s, id, i) PROVE DeletedLater(s, id, i - 1)'
    <3>1. PICK j \in DOMAIN chan[s] : j > i /\ chan[s][j] = DeleteFlows(id)
      BY <2>3 DEF DeletedLater
    <3>2. j - 1 \in DOMAIN chan'[s] /\ j - 1 > i - 1 /\ chan'[s][j - 1] = DeleteFlows(id)
      BY <2>1, <2>2, <3>1 DEF c
    <3> QED BY <3>2 DEF DeletedLater, DeleteFlows
  <2>4. DeletedLater(s, id, 0) => h = DeleteFlows(id) \/ DeletedLater(s, id, 1)
    BY <2>1, <2>2 DEF DeletedLater, c
  <2>5. CASE \E i \in DOMAIN chan'[s] : chan'[s][i] = Flow(id, m) /\ ~DeletedLater(s, id, i)'
    <3>1. PICK i \in DOMAIN chan'[s] : chan'[s][i] = Flow(id, m) /\ ~DeletedLater(s, id, i)'
      BY <2>5
    <3>2. i + 1 \in 1..Len(c) /\ chan[s][i + 1] = Flow(id, m) /\ (i + 1) - 1 = i
      BY <2>1, <2>2, <3>1 DEF c
    <3>3. ~DeletedLater(s, id, i + 1)
      BY <2>3, <3>1, <3>2
    <3> QED BY <1>2, <2>2, <3>2, <3>3 DEF Stands, c
  <2>6. CASE table'[s][m] = id /\ ~DeletedLater(s, id, 0)'
    <3>1. ~DeletedLater(s, id, 1)
      BY <2>1, <2>3, <2>6
    <3>2. CASE h = Flow(id, m)
      BY <1>2, <2>1, <2>2, <3>1, <3>2 DEF Stands, c
    <3>3. CASE h # Flow(id, m)
      <4>1. h \in Messages /\ id # NoAction
        BY <1>0, NoActionAssumption DEF c
      <4>2. table[s][m] = id /\ h # DeleteFlows(id)
        <5>0. table[s] \in [Matches -> ActionIds \union {NoAction}]
          BY DEF TypeOK
        <5>1. CASE h.op = "flow"
          <6>1. table'[s] = Installed(table[s], meters[s], h)
            BY <5>1, <4>1 DEF SwitchReceives, TypeOK, c
          <6>2. h = Flow(h.id, h.match)
            BY <4>1, <5>1 DEF Messages, Flow
          <6> QED BY <2>6, <3>3, <5>0, <5>1, <6>1, <6>2 DEF Installed, DeleteFlows
        <5>2. CASE h.op = "meter"
          BY <2>6, <4>1, <5>2 DEF SwitchReceives, DeleteFlows, c
        <5>3. CASE h.op = "unflow"
          <6>1. table'[s] = WithoutCookie(table[s], h.id)
            BY <5>3, <4>1 DEF SwitchReceives, TypeOK, c
          <6> QED BY <2>6, <4>1, <6>1 DEF WithoutCookie, CookieMatches, DeleteFlows
        <5>4. CASE h.op = "unmeter"
          <6>1. table'[s] = WithoutMeter(table[s], h.id)
            BY <5>4, <4>1 DEF SwitchReceives, TypeOK, c
          <6> QED BY <2>6, <4>1, <5>4, <6>1 DEF WithoutMeter, DeleteFlows
        <5> QED BY <4>1, <5>1, <5>2, <5>3, <5>4 DEF Messages
      <4> QED BY <1>2, <2>4, <3>1, <4>2 DEF Stands
    <3> QED BY <3>2, <3>3
  <2> QED BY <1>2, <2>5, <2>6 DEF Stands
<1> QED BY <1>1, <1>2

\* What one more message on the connection of switch a changes: a flow of its own
\* may stand, and a delete leaves no rule of its action standing.
LEMMA AppendChanges ==
  ASSUME TypeOK, NEW a \in Switches, NEW msg \in Messages, UNCHANGED table,
         chan' = [chan EXCEPT ![a] = Append(@, msg)],
         NEW x \in Switches, NEW id \in ActionIds, NEW m \in Matches, Stands(x, id, m)'
  PROVE  /\ Stands(x, id, m) \/ (x = a /\ msg = Flow(id, m))
         /\ ~(x = a /\ msg = DeleteFlows(id))
<1>0. chan \in [Switches -> Seq(Messages)] /\ chan[a] \in Seq(Messages)
  BY DEF TypeOK
<1>1. CASE x # a
  <2>1. chan'[x] = chan[x]
    BY <1>0, <1>1
  <2> QED BY <1>1, <2>1 DEF Stands, DeletedLater
<1>2. CASE x = a
  <2> DEFINE c == chan[a]
             n == Len(c)
  <2>1. /\ chan'[a] = Append(c, msg) /\ n \in Nat
        /\ DOMAIN c = 1..n /\ DOMAIN chan'[a] = 1..(n + 1)
        /\ \A i \in 1..n : chan'[a][i] = c[i]
        /\ chan'[a][n + 1] = msg
    BY <1>0
  <2> HIDE DEF c, n
  <2>2. ASSUME NEW i \in 0..n, DeletedLater(a, id, i) PROVE DeletedLater(a, id, i)'
    <3>1. PICK j \in DOMAIN chan[a] : j > i /\ chan[a][j] = DeleteFlows(id)
      BY <2>2 DEF DeletedLater
    <3>2. j \in DOMAIN chan'[a] /\ chan'[a][j] = chan[a][j]
      BY <2>1, <3>1 DEF c
    <3> QED BY <3>1, <3>2 DEF DeletedLater, DeleteFlows
  <2>3. ASSUME NEW i \in 0..n, msg = DeleteFlows(id) PROVE DeletedLater(a, id, i)'
    <3>1. n + 1 \in DOMAIN chan'[a] /\ n + 1 > i
      BY <2>1
    <3>2. chan'[a][n + 1] = DeleteFlows(id)
      BY <2>1, <2>3
    <3> QED BY <3>1, <3>2 DEF DeletedLater, DeleteFlows
  <2>4. msg = DeleteFlows(id) => msg # Flow(id, m)
    BY DEF DeleteFlows, Flow
  <2>5. CASE table[a][m] = id /\ ~DeletedLater(a, id, 0)'
    <3>1. 0 \in 0..n
      BY <2>1
    <3> QED BY <1>2, <2>2, <2>3, <2>5, <3>1 DEF Stands
  <2>6. CASE \E i \in DOMAIN chan'[a] : chan'[a][i] = Flow(id, m) /\ ~DeletedLater(a, id, i)'
    <3>1. PICK i \in DOMAIN chan'[a] : chan'[a][i] = Flow(id, m) /\ ~DeletedLater(a, id, i)'
      BY <2>6
    <3>2. CASE i = n + 1
      BY <1>2, <2>1, <2>4, <3>1, <3>2
    <3>3. CASE i # n + 1
      <4>1. i \in 1..n /\ i \in 0..n /\ chan[a][i] = Flow(id, m) /\ i \in DOMAIN chan[a]
        BY <2>1, <3>1, <3>3 DEF c
      <4>2. ~DeletedLater(a, id, i) /\ msg # DeleteFlows(id)
        BY <2>2, <2>3, <3>1, <4>1
      <4> QED BY <1>2, <4>1, <4>2 DEF Stands
    <3> QED BY <3>2, <3>3
  <2> QED BY <1>2, <2>5, <2>6 DEF Stands, Flow
<1> QED BY <1>1, <1>2

LEMMA StandsIssued ==
  ASSUME RulesIssued, NEW s \in Switches, NEW id \in ActionIds, NEW m \in Matches,
         Stands(s, id, m)
  PROVE  id \in Issued
BY NoActionAssumption DEF RulesIssued, Stands, Flow

LEMMA OrphanInit == Init => OrphanInv
<1> SUFFICES ASSUME Init PROVE OrphanInv
  OBVIOUS
<1>1. \A th \in Threads : task[th].pc = "idle" /\ task[th].out = {} /\ task[th].todo = {}
  BY DEF Init, Idle, Loop
<1>2. \A s \in Switches : chan[s] = <<>> /\ \A m \in Matches : table[s][m] = NoAction
  BY DEF Init
<1>3. \A s \in Switches, id \in ActionIds, m \in Matches : ~Stands(s, id, m)
  BY <1>2, NoActionAssumption DEF Stands
<1>4. RulesIssued
  BY <1>2 DEF RulesIssued
<1>5. OneInstaller /\ \A th \in Threads : TaskSends(task[th])
  BY <1>1 DEF OneInstaller, TaskSends, InstallerPC, Init
<1> QED BY <1>1, <1>3, <1>4, <1>5
        DEF OrphanInv, RulesReachable, EraseProgress, NoOrphanRules

\* A step of one thread that sends nothing. What each such step has to show is
\* listed in the assumptions.
LEMMA ThreadStep ==
  ASSUME TypeOK, OnlyIssued, OrphanInv, NEW th \in Threads, NEW t \in TaskType,
         task' = [task EXCEPT ![th] = t],
         UNCHANGED <<datapaths, connected, chan, table, preSession>>,
         aborted \subseteq aborted', Issued \subseteq Issued',
         TaskSends(t),
         t.pc \in InstallerPC =>
           \/ task[th].pc \in InstallerPC /\ t.id = task[th].id
           \/ t.id \notin Issued,
         \A id \in active_actions' :
           \/ id \in active_actions
           \/ task[th].pc \in InstallerPC /\ id = task[th].id /\ t.pc \notin InstallerPC,
         t.pc = "erase" => \/ task[th].pc = "erase" /\ t.id = task[th].id
                           \/ t.id \in active_actions \union task[th].todo,
         t.todo \subseteq active_actions \union task[th].todo,
         \A s \in Switches, m \in Matches :
           t.pc = "erase" /\ ~Excused(s, t.id) /\ s \notin t.left
             /\ ~(t.at = s /\ DeleteFlows(t.id) \in t.out)
           => ~Stands(s, t.id, m),
         \A s \in Switches, id \in ActionIds, m \in Matches :
           Stands(s, id, m) /\ Accounted(s, id) => Accounted(s, id)'
  PROVE  OrphanInv'
<1>0. /\ task \in [Threads -> TaskType] /\ task'[th] = t
      /\ \A x \in Threads : x # th => task'[x] = task[x]
  BY DEF TypeOK
<1>1. \A s \in Switches, id \in ActionIds, m \in Matches : Stands(s, id, m)' <=> Stands(s, id, m)
  BY DEF Stands, DeletedLater
<1>2. \A s, id : Excused(s, id) => Excused(s, id)'
  BY DEF Excused
<1>3. \A x \in Threads : TaskSends(task[x])'
  <2> SUFFICES ASSUME NEW x \in Threads PROVE TaskSends(task[x])'
    OBVIOUS
  <2>1. TaskSends(task'[x])
    BY <1>0 DEF OrphanInv
  <2> QED BY <1>2, <2>1 DEF TaskSends
<1>4. OneInstaller'
  <2>1. \A x \in Threads : task[x].pc \in InstallerPC => task[x].id \in Issued
    BY DEF OnlyIssued, TaskIssued, InstallerPC
  <2>2. ASSUME NEW x \in Threads, NEW y \in Threads,
               task'[x].pc \in InstallerPC, task'[y].pc \in InstallerPC,
               task'[x].id = task'[y].id
        PROVE  x = y
    BY <1>0, <2>1, <2>2 DEF OrphanInv, OneInstaller
  \* Whatever is installed after the step was fresh or installed before it.
  <2>3. ASSUME NEW id \in Issued, ~Installing(id) PROVE ~Installing(id)'
    BY <1>0, <2>3 DEF Installing, InstallerPC
  <2>4. ASSUME NEW id \in active_actions' PROVE ~Installing(id)'
    <3>1. CASE id \in active_actions
      BY <2>3, <3>1 DEF OrphanInv, OneInstaller, OnlyIssued
    <3>2. CASE id \notin active_actions
      <4>1. task[th].pc \in InstallerPC /\ id = task[th].id /\ t.pc \notin InstallerPC
        BY <2>4, <3>2
      <4>2. \A x \in Threads : x # th => ~(task'[x].pc \in InstallerPC /\ task'[x].id = id)
        BY <1>0, <4>1 DEF OrphanInv, OneInstaller
      <4> QED BY <1>0, <4>1, <4>2 DEF Installing, InstallerPC
    <3> QED BY <3>1, <3>2
  <2>5. ASSUME NEW id \in active_actions \union task[th].todo PROVE ~Installing(id)'
    BY <2>3, <2>5 DEF OrphanInv, OneInstaller, OnlyIssued, TaskIssued
  <2>6. ASSUME NEW x \in Threads, NEW id, task'[x].pc = "erase", id = task'[x].id
        PROVE  ~Installing(id)'
    <3>1. CASE x = th
      <4>1. task[th].pc = "erase" => task[th].id \in Issued /\ ~Installing(task[th].id)
        BY DEF OrphanInv, OneInstaller, OnlyIssued, TaskIssued
      <4> QED BY <1>0, <2>3, <2>5, <2>6, <3>1, <4>1
    <3>2. CASE x # th
      BY <1>0, <2>3, <2>6, <3>2 DEF OrphanInv, OneInstaller, OnlyIssued, TaskIssued
    <3> QED BY <3>1, <3>2
  <2>7. ASSUME NEW x \in Threads, NEW id \in task'[x].todo PROVE ~Installing(id)'
    <3>1. CASE x = th
      BY <1>0, <2>5, <2>7, <3>1
    <3>2. CASE x # th
      BY <1>0, <2>3, <2>7, <3>2 DEF OrphanInv, OneInstaller, OnlyIssued, TaskIssued
    <3> QED BY <3>1, <3>2
  <2>8. \A x \in Threads : (task[x].pc = "erase" => ~Installing(task[x].id))'
    BY <2>6 DEF Installing
  <2> QED BY <2>2, <2>4, <2>7, <2>8 DEF OneInstaller
<1>5. RulesIssued'
  <2>1. \A s \in Switches : /\ \A m \in Matches : table[s][m] \in Issued' \union {NoAction}
                           /\ \A i \in DOMAIN chan[s] : chan[s][i].id \in Issued'
    BY DEF OrphanInv, RulesIssued
  <2> QED BY <2>1 DEF RulesIssued
<1>6. RulesReachable'
  <2>1. RulesReachable
    BY DEF OrphanInv
  <2> QED BY <1>1, <1>2, <2>1 DEF RulesReachable
<1>7. EraseProgress'
  <2>1. EraseProgress
    BY DEF OrphanInv
  <2> SUFFICES ASSUME NEW x \in Threads, NEW s \in Switches, NEW m \in Matches,
                      task'[x].pc = "erase", ~Excused(s, task'[x].id), s \notin task'[x].left,
                      ~(task'[x].at = s /\ DeleteFlows(task'[x].id) \in task'[x].out)
               PROVE  ~Stands(s, task'[x].id, m)
    <3>1. \A x \in Threads : task'[x].pc = "erase" => task'[x].id \in ActionIds
      BY <1>0 DEF OnlyIssued, TaskIssued, Issued, TypeOK
    <3> QED BY <1>1, <1>2, <3>1 DEF EraseProgress
  <2> QED BY <1>0, <2>1 DEF EraseProgress
<1>8. NoOrphanRules'
  BY <1>1 DEF OrphanInv, NoOrphanRules
<1> QED BY <1>3, <1>4, <1>5, <1>6, <1>7, <1>8 DEF OrphanInv

\* A handler's next step inside its loops.
LEMMA VisitStep ==
  ASSUME TypeOK, OnlyIssued, OrphanInv, NEW th \in Threads, NEW s \in Switches,
         VisitDatapath(th, s) \/ VisitInterface(th, s), NEW out \in SUBSET Messages,
         task' = Visited(th, s, out),
         out # {} => s \in connected /\ s \in datapaths,
         \A m \in out : /\ m.id = task[th].id
                        /\ task[th].pc \in InstallerPC => m.op \in {"flow", "meter"}
                        /\ task[th].pc = "erase" => m.op \in {"unflow", "unmeter"},
         task[th].pc = "erase" /\ s \in connected => DeleteFlows(task[th].id) \in out
  PROVE  OrphanInv'
<1> DEFINE t == Sending(task[th], task[th].left \ {s}, s, out)
<1>1. /\ task[th] \in TaskType /\ task[th].left \ {s} \subseteq Switches
      /\ task[th].pc # "idle" /\ task[th].out = {}
      /\ task' = [task EXCEPT ![th] = t]
      /\ UNCHANGED <<datapaths, active_actions, request, networkVars, historyVars>>
  BY DEF VisitDatapath, VisitInterface, Visited, TypeOK, TaskType
<1>2. /\ t \in TaskType /\ t.pc = task[th].pc /\ t.id = task[th].id
      /\ t.left = task[th].left \ {s} /\ t.out = out /\ t.todo = task[th].todo
      /\ out # {} => t.at = s
  BY <1>1, SendingTyped
<1> HIDE DEF t
<1>3. TaskSends(t)
  <2>1. TaskSends(task[th])
    BY DEF OrphanInv
  <2> QED BY <1>1, <1>2, <2>1 DEF TaskSends
<1>4. ASSUME NEW x \in Switches, NEW m \in Matches, t.pc = "erase", ~Excused(x, t.id),
             x \notin t.left, ~(t.at = x /\ DeleteFlows(t.id) \in t.out)
      PROVE  ~Stands(x, t.id, m)
  <2>0. t.id \in ActionIds
    BY <1>1, <1>2 DEF OnlyIssued, TaskIssued, Issued
  <2>1. CASE x # s
    BY <1>1, <1>2, <1>4, <2>1 DEF OrphanInv, EraseProgress
  <2>2. CASE x = s
    <3>1. s \notin connected
      BY <1>2, <1>4, <2>2
    <3> QED BY <1>4, <2>0, <2>2, <3>1 DEF OrphanInv, RulesReachable
  <2> QED BY <2>1, <2>2
<1>5. ASSUME NEW x \in Switches, NEW id \in ActionIds, Accounted(x, id) PROVE Accounted(x, id)'
  <2>1. Installing(id) => Installing(id)'
    <3> SUFFICES ASSUME Installing(id) PROVE Installing(id)'
      OBVIOUS
    <3>1. PICK y \in Threads : task[y].pc \in InstallerPC /\ task[y].id = id
      BY DEF Installing, InstallerPC
    <3>2. task'[y].pc \in InstallerPC /\ task'[y].id = id
      BY <1>1, <1>2, <3>1 DEF TypeOK
    <3> QED BY <3>2 DEF Installing, InstallerPC
  <2> QED BY <1>1, <1>5, <2>1 DEF Accounted, historyVars
<1>6. UNCHANGED <<datapaths, connected, chan, table, preSession, active_actions, aborted>>
      /\ Issued' = Issued
  BY <1>1 DEF networkVars, historyVars, Issued
<1> QED BY <1>1, <1>2, <1>3, <1>4, <1>5, <1>6, ThreadStep

LEMMA VisitDatapathStep ==
  ASSUME TypeOK, OnlyIssued, OrphanInv, NEW th \in Threads, NEW s \in Switches,
         VisitDatapath(th, s)
  PROVE  OrphanInv'
<1> DEFINE id == task[th].id
           msgs == IF task[th].pc = "install" THEN InstallMessages(id, request[id], s)
                   ELSE EraseMessages(id)
           out == Outgoing(s, msgs)
<1>1. id \in ActionIds /\ request[id] \in Requests \union {NoRequest}
      /\ task[th].pc \in {"install", "erase"} /\ s \in datapaths
  BY DEF VisitDatapath, OnlyIssued, TaskIssued, Issued, TypeOK, OrphanInv, TaskSends
<1>2. /\ msgs \subseteq Messages
      /\ \A m \in msgs : /\ m.id = id
                         /\ task[th].pc \in InstallerPC => m.op \in {"flow", "meter"}
                         /\ task[th].pc = "erase" => m.op \in {"unflow", "unmeter"}
      /\ task[th].pc = "erase" => DeleteFlows(id) \in msgs
  BY <1>1, InstallMessagesTyped, EraseMessagesTyped DEF InstallerPC
<1>3. task' = Visited(th, s, out)
  BY DEF VisitDatapath
<1> HIDE DEF msgs
<1> QED BY <1>1, <1>2, <1>3, VisitStep DEF Outgoing

LEMMA VisitInterfaceStep ==
  ASSUME TypeOK, OnlyIssued, OrphanInv, NEW th \in Threads, NEW s \in Switches,
         VisitInterface(th, s)
  PROVE  OrphanInv'
<1> DEFINE id == task[th].id
           req == request[id]
<1>1. id \in ActionIds /\ req \in Requests /\ req.kind = "reroute_traffic"
      /\ task[th].pc = "reroute"
  BY DEF VisitInterface, OnlyIssued, TaskIssued, Issued, TypeOK
<1>2. PICK ports \in {{}, PortMatches(req, s)} :
        task' = Visited(th, s,
          IF s \in datapaths
          THEN Outgoing(s, InstallMessages(id, req, s) \union {Flow(id, m) : m \in ports})
          ELSE {})
  BY DEF VisitInterface
<1> HIDE DEF req
<1>3. ports \subseteq Matches
  BY <1>1, PortMatchesTyped
<1> DEFINE msgs == InstallMessages(id, req, s) \union {Flow(id, m) : m \in ports}
           out == IF s \in datapaths THEN Outgoing(s, msgs) ELSE {}
<1>4. /\ msgs \subseteq Messages
      /\ \A m \in msgs : m.id = id /\ m.op \in {"flow", "meter"}
  <2>1. \A m \in {Flow(id, n) : n \in ports} : m \in Messages /\ m.id = id /\ m.op = "flow"
    BY <1>1, <1>3 DEF Flow, Messages
  <2> QED BY <1>1, <2>1, InstallMessagesTyped
<1>5. task' = Visited(th, s, out)
  BY <1>2
<1> HIDE DEF msgs
<1> QED BY <1>1, <1>4, <1>5, VisitStep DEF Outgoing

\* The one step that writes to a connection.
LEMMA SendStep ==
  ASSUME TypeOK, OnlyIssued, OrphanInv, NEW th \in Threads, Send(th)
  PROVE  OrphanInv'
<1> DEFINE msg == NextMessage(task[th].out)
           a == task[th].at
           out == task[th].out \ {msg}
           t == Sending(task[th], task[th].left, a, out)
<1>1. /\ task \in [Threads -> TaskType] /\ task[th] \in TaskType
      /\ task[th].out \in SUBSET Messages /\ task[th].out # {}
      /\ task[th].left \subseteq Switches /\ a \in Switches \union {NoAction}
  BY DEF Send, TypeOK, TaskType
<1>2. msg \in task[th].out /\ msg \in Messages
  BY <1>1, NextMessageExists
<1>3. /\ chan' = [chan EXCEPT ![a] = Append(@, msg)]
      /\ task' = [task EXCEPT ![th] = t]
      /\ UNCHANGED <<datapaths, active_actions, request, connected, deadEvents, losses,
                      table, meters, historyVars>>
  BY DEF Send
<1>4. TaskSends(task[th]) /\ \A x \in Threads : TaskSends(task[x])
  BY DEF OrphanInv
<1>5. /\ a \in connected /\ a \in Switches
      /\ msg.id = task[th].id /\ task[th].pc # "idle"
      /\ a \in datapaths \/ Excused(a, task[th].id)
  BY <1>1, <1>2, <1>4 DEF TaskSends, TypeOK
<1>6. /\ t \in TaskType /\ t.pc = task[th].pc /\ t.id = task[th].id
      /\ t.left = task[th].left /\ t.out = out /\ t.todo = task[th].todo
      /\ out # {} => t.at = a
  BY <1>1, SendingTyped
<1> HIDE DEF msg, a, out, t
<1>7. /\ task'[th] = t
      /\ \A x \in Threads : x # th => task'[x] = task[x]
      /\ \A x \in Threads : /\ task'[x].pc = task[x].pc
                            /\ task'[x].id = task[x].id
                            /\ task'[x].todo = task[x].todo
                            /\ task'[x].left = task[x].left
      /\ task[th].id \in ActionIds
      /\ task[th].id \in Issued
      /\ Issued' = Issued
  <2>1. task'[th] = t /\ \A x \in Threads : x # th => task'[x] = task[x]
    BY <1>1, <1>3
  <2>2. task[th].id \in ActionIds /\ task[th].id \in Issued /\ Issued' = Issued
    BY <1>3, <1>5 DEF OnlyIssued, TaskIssued, Issued
  <2> QED BY <1>6, <2>1, <2>2
<1>8. \A s, id : (Excused(s, id)' <=> Excused(s, id)) /\ (Installing(id)' <=> Installing(id))
  BY <1>3, <1>7 DEF Excused, Installing, historyVars
\* What stands after the send stood before, or is the flow just sent.
<1>9. ASSUME NEW s \in Switches, NEW id \in ActionIds, NEW m \in Matches, Stands(s, id, m)'
      PROVE  /\ \/ Stands(s, id, m)
                \/ s = a /\ id = task[th].id /\ task[th].pc \in InstallerPC
             /\ ~(s = a /\ msg = DeleteFlows(id))
  <2>1. /\ Stands(s, id, m) \/ (s = a /\ msg = Flow(id, m))
        /\ ~(s = a /\ msg = DeleteFlows(id))
    BY <1>2, <1>3, <1>5, <1>9, AppendChanges
  <2>2. msg = Flow(id, m) => id = task[th].id /\ task[th].pc \in InstallerPC
    BY <1>2, <1>4, <1>5, <1>1 DEF Flow, TaskSends, TaskType, InstallerPC
  <2> QED BY <2>1, <2>2
<1>10. \A x \in Threads : TaskSends(task[x])'
  <2> SUFFICES ASSUME NEW x \in Threads PROVE TaskSends(task[x])'
    OBVIOUS
  <2>1. TaskSends(task'[x])
    BY <1>4, <1>5, <1>6, <1>7 DEF TaskSends, out
  <2> QED BY <1>3, <1>8, <2>1 DEF TaskSends
<1>11. OneInstaller'
  <2>1. OneInstaller /\ active_actions' = active_actions
    BY <1>3 DEF OrphanInv
  <2>2. \A x \in Threads, other \in Threads :
          task'[x].pc \in InstallerPC /\ task'[other].pc \in InstallerPC
            /\ task'[x].id = task'[other].id => x = other
    BY <1>7, <2>1 DEF OneInstaller
  <2>3. \A id \in active_actions' : ~Installing(id)'
    BY <1>8, <2>1 DEF OneInstaller
  <2>4. \A x \in Threads : /\ task'[x].pc = "erase" => ~Installing(task[x].id)'
                           /\ \A id \in task'[x].todo : ~Installing(id)'
    BY <1>7, <1>8, <2>1, ZenonT(60) DEF OneInstaller
  <2> QED BY <2>2, <2>3, <2>4 DEF OneInstaller
<1>12. RulesIssued'
  <2>1. ASSUME NEW s \in Switches, NEW i \in DOMAIN chan'[s] PROVE chan'[s][i].id \in Issued
    <3>0. chan[s] \in Seq(Messages) /\ chan \in [Switches -> Seq(Messages)]
          /\ \A j \in DOMAIN chan[s] : chan[s][j].id \in Issued
      BY DEF OrphanInv, RulesIssued, TypeOK
    <3>1. CASE s = a
      <4>1. chan'[s] = Append(chan[s], msg) /\ msg.id \in Issued
        BY <1>3, <1>5, <1>7, <3>0, <3>1
      <4> QED BY <2>1, <3>0, <4>1
    <3>2. CASE s # a
      BY <1>3, <2>1, <3>0, <3>2
    <3> QED BY <3>1, <3>2
  <2> QED BY <1>3, <1>7, <2>1 DEF OrphanInv, RulesIssued
<1>13. RulesReachable'
  BY <1>3, <1>5, <1>8, <1>9 DEF OrphanInv, RulesReachable
<1>14. EraseProgress'
  <2> SUFFICES ASSUME NEW x \in Threads, NEW s \in Switches, NEW m \in Matches,
                      task'[x].pc = "erase", ~Excused(s, task'[x].id), s \notin task'[x].left,
                      ~(task'[x].at = s /\ DeleteFlows(task'[x].id) \in task'[x].out),
                      NEW id \in ActionIds, id = task'[x].id, Stands(s, id, m)'
               PROVE  FALSE
    <3>1. \A x \in Threads : task'[x].pc = "erase" => task'[x].id \in ActionIds
      BY <1>7 DEF OnlyIssued, TaskIssued, Issued
    <3> QED BY <1>8, <3>1 DEF EraseProgress
  <2>1. task[x].pc = "erase" /\ task[x].id = id /\ ~Installing(id) /\ s \notin task[x].left
    BY <1>7 DEF OrphanInv, OneInstaller
  <2>2. Stands(s, id, m) /\ ~(s = a /\ msg = DeleteFlows(id))
    BY <1>9, <2>1 DEF Installing, InstallerPC
  <2>3. ~(task[x].at = s /\ DeleteFlows(id) \in task[x].out)
    <3>1. CASE x = th
      <4>1. ASSUME a = s, DeleteFlows(id) \in task[th].out PROVE FALSE
        <5>1. DeleteFlows(id) # msg
          BY <2>2, <4>1
        <5>2. DeleteFlows(id) \in out
          BY <4>1, <5>1 DEF out
        <5> QED BY <1>6, <1>7, <3>1, <4>1, <5>2
      <4> QED BY <3>1, <4>1 DEF a
    <3>2. CASE x # th
      BY <1>7, <3>2
    <3> QED BY <3>1, <3>2
  <2> QED BY <1>7, <2>1, <2>2, <2>3 DEF OrphanInv, EraseProgress
<1>15. NoOrphanRules'
  BY <1>3, <1>7, <1>8, <1>9 DEF OrphanInv, NoOrphanRules, Accounted, Installing, InstallerPC, historyVars
<1> QED BY <1>10, <1>11, <1>12, <1>13, <1>14, <1>15 DEF OrphanInv

\* An answer: the installed action is registered, or the thread just stops.
LEMMA AnswerStep ==
  ASSUME TypeOK, OnlyIssued, OrphanInv, NEW th \in Threads,
         Register(th) \/ IterationError(th) \/ UnregisterTwice(th)
  PROVE  OrphanInv'
<1>1. /\ task \in [Threads -> TaskType]
      /\ task' = [task EXCEPT ![th] = Idle]
      /\ UNCHANGED <<datapaths, connected, chan, table, preSession, request>>
      /\ Issued' = Issued /\ aborted \subseteq aborted' /\ active_actions \subseteq active_actions'
  BY DEF Register, IterationError, UnregisterTwice, networkVars, historyVars, TypeOK, Issued
<1>2. Idle \in TaskType /\ Idle.pc = "idle" /\ Idle.out = {} /\ Idle.todo = {}
  BY IdleTyped DEF Idle, Loop
<1>3. TaskSends(Idle)
  BY <1>2 DEF TaskSends, InstallerPC
<1>4. ASSUME NEW id \in active_actions'
      PROVE  \/ id \in active_actions
             \/ task[th].pc \in InstallerPC /\ id = task[th].id
  BY DEF Register, IterationError, UnregisterTwice, InstallerPC
<1>5. task[th].pc \in InstallerPC => task[th].id \in active_actions' \union aborted'
  BY DEF Register, IterationError, UnregisterTwice, InstallerPC
<1>6. ASSUME NEW s \in Switches, NEW id \in ActionIds, Accounted(s, id) PROVE Accounted(s, id)'
  <2>1. CASE Installing(id)
    <3>1. PICK x \in Threads : task[x].pc \in InstallerPC /\ task[x].id = id
      BY <2>1 DEF Installing, InstallerPC
    <3>2. x # th => task'[x] = task[x]
      BY <1>1
    <3> QED BY <1>5, <3>1, <3>2 DEF Accounted, Installing, InstallerPC
  <2>2. CASE ~Installing(id)
    BY <1>1, <1>6, <2>2 DEF Accounted
  <2> QED BY <2>1, <2>2
<1>7. Idle.pc \notin InstallerPC /\ Idle.pc # "erase"
  BY <1>2 DEF InstallerPC
<1> HIDE DEF Idle
<1> QED BY <1>1, <1>2, <1>3, <1>4, <1>6, <1>7, ThreadStep

\* A thread that takes up the next action of a clear finds no rule of it on a
\* switch the controller cannot reach.
LEMMA EraseStep ==
  ASSUME TypeOK, OnlyIssued, OrphanInv, NEW th \in Threads,
         task[th].pc \notin InstallerPC, NEW ids \in SUBSET (active_actions \union task[th].todo),
         NEW t \in Erase(ids), task' = [task EXCEPT ![th] = t],
         UNCHANGED <<datapaths, request, networkVars, historyVars>>,
         active_actions' \subseteq active_actions,
         \A s \in Switches, id \in ActionIds, m \in Matches :
           Stands(s, id, m) /\ id \in active_actions =>
             id \in active_actions' \/ Excused(s, id)
  PROVE  OrphanInv'
<1>0. ids \subseteq ActionIds /\ task \in [Threads -> TaskType]
  BY DEF TypeOK, TaskType
<1>1. /\ t \in TaskType
      /\ t.out = {}
      /\ \/ t = Idle
         \/ /\ t.pc = "erase" /\ t.id \in ids /\ t.left = datapaths
            /\ t.todo = ids \ {t.id}
  <2>1. datapaths \subseteq Switches
    BY DEF TypeOK
  <2> QED BY <1>0, <2>1, EraseTyped
<1>2. /\ t.pc \notin InstallerPC /\ t.todo \subseteq ids
      /\ t.pc = "erase" => t.id \in ids /\ t.left = datapaths
  BY <1>1 DEF Idle, Loop, InstallerPC
<1>3. TaskSends(t)
  BY <1>1, <1>2 DEF TaskSends, InstallerPC
<1>4. ASSUME NEW s \in Switches, NEW m \in Matches, t.pc = "erase", ~Excused(s, t.id),
             s \notin t.left
      PROVE  ~Stands(s, t.id, m)
  BY <1>0, <1>2, <1>4 DEF OrphanInv, RulesReachable
<1>5. /\ UNCHANGED <<connected, chan, table, preSession, aborted>>
      /\ Issued' = Issued
  BY DEF networkVars, historyVars, Issued
<1>6. ASSUME NEW s \in Switches, NEW id \in ActionIds, NEW m \in Matches,
             Stands(s, id, m), Accounted(s, id)
      PROVE  Accounted(s, id)'
  <2>1. Installing(id) => Installing(id)'
    <3>1. \A x \in Threads : task[x].pc \in InstallerPC => task'[x] = task[x]
      BY <1>0
    <3> QED BY <3>1 DEF Installing, InstallerPC
  <2> QED BY <1>5, <1>6, <2>1 DEF Accounted, Excused
<1> QED BY <1>0, <1>1, <1>2, <1>3, <1>4, <1>5, <1>6, ThreadStep

LEMMA UnregisterStep ==
  ASSUME TypeOK, OnlyIssued, OrphanInv, NEW th \in Threads, Unregister(th)
  PROVE  OrphanInv'
<1> DEFINE gone == task[th].id
<1>1. /\ task[th].pc = "erase" /\ task[th].pc \notin InstallerPC
      /\ task[th].out = {} /\ task[th].left = {}
      /\ active_actions' = active_actions \ {gone}
      /\ gone \in ActionIds
  BY DEF Unregister, LoopDone, InstallerPC, TypeOK
<1>2. PICK t \in Erase(task[th].todo) : task' = [task EXCEPT ![th] = t]
  BY DEF Unregister
\* The loop has been everywhere: nothing of the action is left.
<1>3. \A s \in Switches, m \in Matches : Excused(s, gone) \/ ~Stands(s, gone, m)
  BY <1>1 DEF OrphanInv, EraseProgress
<1> HIDE DEF gone
<1>4. \A s \in Switches, id \in ActionIds, m \in Matches :
        Stands(s, id, m) /\ id \in active_actions => id \in active_actions' \/ Excused(s, id)
  BY <1>1, <1>3
<1>5. UNCHANGED <<datapaths, request, networkVars, historyVars>>
  BY DEF Unregister
<1> QED BY <1>1, <1>2, <1>4, <1>5, EraseStep

LEMMA BeginClearStep ==
  ASSUME TypeOK, OnlyIssued, OrphanInv, NEW th \in Threads,
         NEW ids \in SUBSET active_actions, BeginClear(th, ids)
  PROVE  OrphanInv'
<1>1. task[th].pc \notin InstallerPC
      /\ UNCHANGED <<datapaths, active_actions, request, networkVars, historyVars>>
  BY DEF BeginClear, InstallerPC
<1>2. PICK t \in Erase(ids) : task' = [task EXCEPT ![th] = t]
  BY DEF BeginClear
<1> QED BY <1>1, <1>2, EraseStep

\* A new installer has a fresh action.
LEMMA BeginInstallerStep ==
  ASSUME TypeOK, OnlyIssued, OrphanInv, NEW th \in Threads,
         NEW req \in Offered, NEW id \in ActionIds,
         BeginInstall(th, req, id) \/ BeginReroute(th, req, id)
  PROVE  OrphanInv'
<1>1. PICK pc \in InstallerPC, left \in SUBSET Switches, size \in Nat :
        /\ task' = [task EXCEPT ![th] = Loop(pc, id, left, size, {})]
        /\ pc = "install" => left = datapaths
  <2>1. CASE BeginInstall(th, req, id)
    BY <2>1, DatapathsFinite DEF BeginInstall, InstallerPC, TypeOK
  <2>2. CASE BeginReroute(th, req, id)
    <3>1. {i[1] : i \in BlockedInterfaces(req)} \subseteq Switches
      BY <2>2, OfferedAssumption, InterfacesAssumption
         DEF BeginReroute, BlockedInterfaces, Requests, PolicyKinds
    <3> QED BY <2>2, <3>1 DEF BeginReroute, InstallerPC
  <2> QED BY <2>1, <2>2
<1>2. /\ task \in [Threads -> TaskType]
      /\ id \notin Issued /\ Issued \subseteq Issued' /\ task[th].pc \notin InstallerPC
      /\ UNCHANGED <<datapaths, connected, chan, table, preSession, aborted, active_actions>>
  <2>1. req # NoRequest
    BY OfferedAssumption DEF Requests, NoRequest, PolicyKinds
  <2> QED BY <2>1 DEF BeginInstall, BeginReroute, networkVars, historyVars, TypeOK, Issued,
                      InstallerPC
<1> DEFINE t == Loop(pc, id, left, size, {})
<1>3. /\ t \in TaskType /\ t.pc = pc /\ t.id = id /\ t.left = left
      /\ t.out = {} /\ t.todo = {}
  BY <1>1, LoopTyped DEF Loop, InstallerPC
<1>4. task' = [task EXCEPT ![th] = t]
  BY <1>1
<1> HIDE DEF t
<1>5. TaskSends(t) /\ t.pc # "erase"
  BY <1>1, <1>3 DEF TaskSends, InstallerPC
<1>6. ASSUME NEW s \in Switches, NEW i \in ActionIds, Accounted(s, i) PROVE Accounted(s, i)'
  <2>1. Installing(i) => Installing(i)'
    <3>1. \A x \in Threads : task[x].pc \in InstallerPC => task'[x] = task[x]
      BY <1>2, <1>4
    <3> QED BY <3>1 DEF Installing, InstallerPC
  <2> QED BY <1>2, <1>6, <2>1 DEF Accounted
<1> QED BY <1>2, <1>3, <1>4, <1>5, <1>6, ThreadStep

\* A switch that takes a message changes no thread and gains no rule.
LEMMA ReceiveStep ==
  ASSUME TypeOK, OnlyIssued, OrphanInv, NEW s \in Switches, SwitchReceives(s)
  PROVE  OrphanInv'
<1>1. /\ UNCHANGED <<datapaths, active_actions, request, task, connected, preSession, aborted>>
      /\ Issued' = Issued
      /\ chan[s] \in Seq(Messages) /\ chan[s] # <<>>
      /\ chan' = [chan EXCEPT ![s] = Tail(@)]
      /\ chan \in [Switches -> Seq(Messages)]
  BY DEF SwitchReceives, controllerVars, historyVars, Issued, TypeOK
<1>2. \A x \in Switches, id \in ActionIds, m \in Matches : Stands(x, id, m)' => Stands(x, id, m)
  BY ReceiveKeeps
<1>3. RulesIssued'
  <2>1. ASSUME NEW x \in Switches, NEW i \in DOMAIN chan'[x] PROVE chan'[x][i].id \in Issued
    <3>1. \A j \in DOMAIN chan[x] : chan[x][j].id \in Issued
      BY DEF OrphanInv, RulesIssued
    <3>2. CASE x = s
      BY <1>1, <2>1, <3>1, <3>2
    <3>3. CASE x # s
      BY <1>1, <2>1, <3>1, <3>3
    <3> QED BY <3>2, <3>3
  <2>2. ASSUME NEW x \in Switches, NEW m \in Matches PROVE table'[x][m] \in Issued \union {NoAction}
    <3>1. \A n \in Matches : table[x][n] \in Issued \union {NoAction}
      BY DEF OrphanInv, RulesIssued
    <3>2. Head(chan[s]).id \in Issued
      BY <1>1 DEF OrphanInv, RulesIssued
    <3>3. CASE x = s
      <4>1. table[s] \in [Matches -> ActionIds \union {NoAction}]
        BY DEF TypeOK
      <4>2. \/ table'[s] = table[s]
            \/ table'[s] = Installed(table[s], meters[s], Head(chan[s]))
            \/ table'[s] = WithoutCookie(table[s], Head(chan[s]).id)
            \/ table'[s] = WithoutMeter(table[s], Head(chan[s]).id)
        BY DEF SwitchReceives, TypeOK
      <4> QED BY <3>1, <3>2, <3>3, <4>1, <4>2 DEF Installed, WithoutCookie, WithoutMeter
    <3>4. CASE x # s
      BY <3>1, <3>4 DEF SwitchReceives, TypeOK
    <3> QED BY <3>3, <3>4
  <2> QED BY <1>1, <2>1, <2>2 DEF RulesIssued
<1>4. OneInstaller' /\ \A x \in Threads : TaskSends(task[x])'
  BY <1>1 DEF OrphanInv, OneInstaller, Installing, TaskSends, Excused
<1>5. RulesReachable' /\ NoOrphanRules'
  BY <1>1, <1>2 DEF OrphanInv, RulesReachable, NoOrphanRules, Accounted, Installing, Excused
<1>6. EraseProgress'
  <2>1. \A x \in Threads : task[x].pc = "erase" => task[x].id \in ActionIds
    BY DEF OnlyIssued, TaskIssued, Issued
  <2>2. EraseProgress
    BY DEF OrphanInv
  <2> QED BY <1>1, <1>2, <2>1, <2>2 DEF EraseProgress, Excused
<1> QED BY <1>3, <1>4, <1>5, <1>6 DEF OrphanInv

\* The session of switch s changes: it connects, its connection breaks, or the
\* controller drops its datapath. All that was issued before is excused on s, and
\* nothing changes elsewhere.
LEMMA SessionStep ==
  ASSUME TypeOK, OnlyIssued, OrphanInv, NEW s \in Switches,
         UNCHANGED <<active_actions, request, aborted>>,
         preSession' = [preSession EXCEPT ![s] = Issued],
         \A x \in Switches : x # s => (x \in datapaths' <=> x \in datapaths),
         \A x \in Switches : x # s => (x \in connected' <=> x \in connected),
         \A x \in Switches : x # s => (chan'[x] = chan[x] /\ table'[x] = table[x]),
         chan'[s] = chan[s] \/ chan'[s] = <<>>,
         \A m \in Matches : table'[s][m] \in {table[s][m], NoAction},
         datapaths' \subseteq Switches,
         \A x \in Threads : task'[x].pc = task[x].pc,
         \A x \in Threads : task'[x].id = task[x].id,
         \A x \in Threads : task'[x].todo = task[x].todo,
         \A x \in Threads : task'[x].out \in {task[x].out, {}},
         \A x \in Threads : task'[x].out = task[x].out \/ task[x].at = s,
         \A x \in Threads :
           task'[x].out # {} => (task'[x].at = task[x].at /\ task[x].at \in connected'),
         \A x \in Threads : task[x].left \subseteq (task'[x].left \union {s}),
         \A x \in Threads :
           task'[x].pc \in {"install", "erase"} => task'[x].left \subseteq datapaths'
  PROVE  OrphanInv'
<1>1. Issued' = Issued /\ \A id : (Installing(id)' <=> Installing(id))
  BY DEF Issued, Installing
<1>2. /\ \A id \in Issued : Excused(s, id)'
      /\ \A x \in Switches : \A id \in Issued : Excused(x, id) => Excused(x, id)'
      /\ \A x \in Switches : x # s => \A id : (Excused(x, id)' <=> Excused(x, id))
  BY DEF Excused, TypeOK
<1>3. RulesIssued'
  <2>1. RulesIssued
    BY DEF OrphanInv
  <2>2. ASSUME NEW x \in Switches
        PROVE  /\ chan'[x] \in {chan[x], <<>>}
               /\ \A m \in Matches : table'[x][m] \in {table[x][m], NoAction}
    BY <2>2
  <2> QED BY <1>1, <2>1, <2>2 DEF RulesIssued
<1>4. ASSUME NEW x \in Switches, NEW id \in ActionIds, NEW m \in Matches, x # s
      PROVE  Stands(x, id, m)' <=> Stands(x, id, m)
  <2>1. chan'[x] = chan[x] /\ table'[x] = table[x]
    BY <1>4
  <2> QED BY <2>1 DEF Stands, DeletedLater
<1>5. \A id \in ActionIds, m \in Matches : Stands(s, id, m)' => Excused(s, id)'
  BY <1>1, <1>2, <1>3, NoActionAssumption DEF Stands, Flow, RulesIssued
<1>6. \A x \in Threads : task[x].pc # "idle" => task[x].id \in Issued /\ task[x].id \in ActionIds
  BY DEF OnlyIssued, TaskIssued, Issued
<1>7. ASSUME NEW x \in Threads PROVE TaskSends(task[x])'
  <2>1. TaskSends(task[x])
    BY DEF OrphanInv
  <2>2. task'[x].out # {} => task[x].out # {} /\ task'[x].out = task[x].out
    OBVIOUS
  <2>3. task'[x].out # {} =>
          (task[x].at \in datapaths \/ Excused(task[x].at, task[x].id))'
    <3> SUFFICES ASSUME task'[x].out # {}, NEW a, a = task'[x].at, NEW i, i = task'[x].id
                 PROVE  a \in datapaths' \/ Excused(a, i)'
      BY DEF Excused
    <3>1. /\ task'[x].at = task[x].at /\ task[x].at \in connected /\ task[x].pc # "idle"
          /\ task[x].at \in Switches
          /\ task[x].at \in datapaths \/ Excused(task[x].at, task[x].id)
      BY <2>1, <2>2 DEF TaskSends, TypeOK
    <3> QED BY <1>2, <1>6, <3>1
  <2> QED BY <2>1, <2>2, <2>3 DEF TaskSends
<1>8. OneInstaller'
  BY <1>1 DEF OrphanInv, OneInstaller
<1>9. RulesReachable'
  <2> SUFFICES ASSUME NEW x \in Switches, NEW id \in ActionIds, NEW m \in Matches,
                      Stands(x, id, m)', ~Excused(x, id)'
               PROVE  x \in connected' /\ x \in datapaths'
    BY DEF RulesReachable
  <2>1. x # s
    BY <1>5
  <2>2. Stands(x, id, m) /\ ~Excused(x, id)
    BY <1>2, <1>4, <2>1
  <2> QED BY <2>1, <2>2 DEF OrphanInv, RulesReachable
<1>10. EraseProgress'
  <2> SUFFICES ASSUME NEW x \in Threads, NEW sw \in Switches, NEW m \in Matches,
                      NEW a, a = task[x].id, NEW d, d = DeleteFlows(a),
                      task'[x].pc = "erase", ~Excused(sw, a)', sw \notin task'[x].left,
                      ~(task'[x].at = sw /\ d \in task'[x].out)
               PROVE  ~Stands(sw, a, m)'
    BY DEF EraseProgress, Excused, Stands, DeletedLater, DeleteFlows, Flow
  <2>1. a \in Issued /\ a \in ActionIds /\ sw # s
    BY <1>2, <1>6
  <2>2. sw \notin task[x].left /\ ~(task[x].at = sw /\ d \in task[x].out)
    BY <2>1
  <2>3. ~Excused(sw, a)
    BY <1>2, <2>1
  <2>4. ~Stands(sw, a, m)
    BY <2>2, <2>3 DEF OrphanInv, EraseProgress
  <2> QED BY <1>4, <2>1, <2>4
<1>11. NoOrphanRules'
  BY <1>1, <1>2, <1>4, <1>5 DEF OrphanInv, NoOrphanRules, Accounted, Excused
<1> QED BY <1>3, <1>7, <1>8, <1>9, <1>10, <1>11 DEF OrphanInv

\* What the three session events do to the threads.
LEMMA EntryThreads ==
  ASSUME TypeOK, NEW s \in Switches, task' = WithEntry(s), NEW x \in Threads
  PROVE  /\ task'[x].pc = task[x].pc /\ task'[x].id = task[x].id
         /\ task'[x].todo = task[x].todo /\ task'[x].out = task[x].out
         /\ task'[x].out # {} => (task'[x].at = task[x].at)
         /\ task[x].left \subseteq (task'[x].left \union {s})
         /\ task'[x].left \subseteq (task[x].left \union {s})
<1>1. task[x] \in TaskType /\ task[x].left \subseteq Switches /\ task[x].out \subseteq Messages
      /\ task[x].at \in Switches \union {NoAction}
  BY DEF TypeOK, TaskType
<1>2. CASE s \notin datapaths /\ task[x].pc \in {"install", "erase"}
  <2>1. task'[x] = Sending(task[x], task[x].left \union {s}, task[x].at, task[x].out)
    BY <1>2 DEF WithEntry
  <2>2. task[x].left \union {s} \in SUBSET Switches
    BY <1>1
  <2> QED BY <1>1, <2>1, <2>2, SendingTyped
<1>3. CASE ~(s \notin datapaths /\ task[x].pc \in {"install", "erase"})
  BY <1>3 DEF WithEntry
<1> QED BY <1>2, <1>3

LEMMA LossThreads ==
  ASSUME TypeOK, NEW s \in Switches, NEW restarted, ConnectionLost(s, restarted), NEW x \in Threads
  PROVE  /\ task'[x].pc = task[x].pc /\ task'[x].id = task[x].id
         /\ task'[x].todo = task[x].todo /\ task'[x].left = task[x].left
         /\ task[x].at = s => task'[x].out = {}
         /\ task[x].at # s => task'[x] = task[x]
<1>1. task[x] \in TaskType /\ task[x].left \in SUBSET Switches
      /\ s \in Switches \union {NoAction} /\ {} \in SUBSET Messages
  BY DEF TypeOK, TaskType
<1>2. CASE task[x].at = s
  <2>1. task'[x] = Sending(task[x], task[x].left, s, {})
    BY <1>2 DEF ConnectionLost
  <2> QED BY <1>1, <1>2, <2>1, SendingTyped
<1>3. CASE task[x].at # s
  BY <1>3 DEF ConnectionLost
<1> QED BY <1>2, <1>3

LEMMA NoEntryThreads ==
  ASSUME TypeOK, NEW s \in Switches, task' = WithoutEntry(s), NEW x \in Threads
  PROVE  /\ task'[x].pc = task[x].pc /\ task'[x].id = task[x].id
         /\ task'[x].todo = task[x].todo /\ task'[x].out = task[x].out
         /\ task'[x].out # {} => (task'[x].at = task[x].at)
         /\ task[x].left \subseteq (task'[x].left \union {s})
         /\ task[x].pc \in {"install", "erase"} => task'[x].left = task[x].left \ {s}
<1>1. task[x] \in TaskType /\ task[x].left \ {s} \in SUBSET Switches
      /\ task[x].out \in SUBSET Messages /\ task[x].at \in Switches \union {NoAction}
  BY DEF TypeOK, TaskType
<1>2. CASE task[x].pc \in {"install", "erase"}
  <2>1. task'[x] = Sending(task[x], task[x].left \ {s}, task[x].at, task[x].out)
    BY <1>2 DEF WithoutEntry
  <2> QED BY <1>1, <1>2, <2>1, SendingTyped
<1>3. CASE task[x].pc \notin {"install", "erase"}
  BY <1>3 DEF WithoutEntry
<1> QED BY <1>2, <1>3

LEMMA SwitchConnectsStep ==
  ASSUME TypeOK, OnlyIssued, OrphanInv, NEW s \in Switches, SwitchConnects(s)
  PROVE  OrphanInv'
<1>1. /\ UNCHANGED <<active_actions, request, aborted, chan, table>>
      /\ preSession' = [preSession EXCEPT ![s] = Issued]
      /\ connected' = connected \union {s} /\ datapaths' = datapaths \union {s}
      /\ datapaths \subseteq Switches
      /\ task' = WithEntry(s)
  BY DEF SwitchConnects, TypeOK
<1>2. ASSUME NEW x \in Threads
      PROVE  /\ task'[x].pc = task[x].pc /\ task'[x].id = task[x].id
             /\ task'[x].todo = task[x].todo /\ task'[x].out = task[x].out
             /\ task'[x].out # {} => (task'[x].at = task[x].at)
             /\ task[x].left \subseteq (task'[x].left \union {s})
             /\ task'[x].left \subseteq (task[x].left \union {s})
  BY <1>1, EntryThreads
<1>3. ASSUME NEW x \in Threads
      PROVE  /\ task[x].out # {} => task[x].at \in connected
             /\ task[x].pc \in {"install", "erase"} => task[x].left \subseteq datapaths
  BY DEF OrphanInv, TaskSends
<1> QED BY <1>1, <1>2, <1>3, SessionStep, ZenonT(60)

LEMMA ConnectionLostStep ==
  ASSUME TypeOK, OnlyIssued, OrphanInv, NEW s \in Switches, NEW restarted \in BOOLEAN,
         ConnectionLost(s, restarted)
  PROVE  OrphanInv'
<1>1. /\ UNCHANGED <<datapaths, active_actions, request, aborted>>
      /\ preSession' = [preSession EXCEPT ![s] = Issued]
      /\ connected' = connected \ {s}
      /\ datapaths \subseteq Switches
      /\ chan' = [chan EXCEPT ![s] = <<>>]
      /\ chan'[s] = <<>>
      /\ \A x \in Switches : x # s => chan'[x] = chan[x]
  BY DEF ConnectionLost, TypeOK
<1>2. /\ \A x \in Switches : x # s => table'[x] = table[x]
      /\ \A m \in Matches : table'[s][m] \in {table[s][m], NoAction}
  BY DEF ConnectionLost, TypeOK
<1>3. ASSUME NEW x \in Threads
      PROVE  /\ task'[x].pc = task[x].pc /\ task'[x].id = task[x].id
             /\ task'[x].todo = task[x].todo /\ task'[x].left = task[x].left
             /\ task[x].at = s => task'[x].out = {}
             /\ task[x].at # s => task'[x] = task[x]
  BY LossThreads
<1>4. ASSUME NEW x \in Threads
      PROVE  /\ task[x].out # {} => task[x].at \in connected
             /\ task[x].pc \in {"install", "erase"} => task[x].left \subseteq datapaths
  BY DEF OrphanInv, TaskSends
<1>5. /\ \A x \in Threads : task'[x].out \in {task[x].out, {}}
      /\ \A x \in Threads : task'[x].out = task[x].out \/ task[x].at = s
      /\ \A x \in Threads :
           task'[x].out # {} => (task'[x].at = task[x].at /\ task[x].at \in connected')
  BY <1>1, <1>3, <1>4
<1> QED BY <1>1, <1>2, <1>3, <1>4, <1>5, SessionStep, ZenonT(60)

LEMMA HandleDeadStep ==
  ASSUME TypeOK, OnlyIssued, OrphanInv, NEW s \in Switches, HandleDead(s)
  PROVE  OrphanInv'
<1>1. /\ UNCHANGED <<active_actions, request, aborted, chan, table, connected>>
      /\ preSession' = [preSession EXCEPT ![s] = Issued]
      /\ datapaths' = datapaths \ {s}
      /\ datapaths \subseteq Switches
      /\ task' = WithoutEntry(s)
  BY DEF HandleDead, TypeOK
<1>2. ASSUME NEW x \in Threads
      PROVE  /\ task[x].out # {} => task[x].at \in connected
             /\ task[x].pc \in {"install", "erase"} => task[x].left \subseteq datapaths
  BY DEF OrphanInv, TaskSends
<1>3. ASSUME NEW x \in Threads
      PROVE  /\ task'[x].pc = task[x].pc /\ task'[x].id = task[x].id
             /\ task'[x].todo = task[x].todo /\ task'[x].out = task[x].out
             /\ task'[x].out # {} => (task'[x].at = task[x].at)
             /\ task[x].left \subseteq (task'[x].left \union {s})
             /\ task'[x].pc \in {"install", "erase"} => task'[x].left \subseteq datapaths'
  BY <1>1, <1>2, NoEntryThreads
<1> QED BY <1>1, <1>2, <1>3, SessionStep, ZenonT(60)

LEMMA WorkStep ==
  ASSUME TypeOK, OnlyIssued, OrphanInv, NEW th \in Threads, Work(th)
  PROVE  OrphanInv'
BY VisitDatapathStep, VisitInterfaceStep, SendStep, AnswerStep, UnregisterStep DEF Work

LEMMA RequestStep ==
  ASSUME TypeOK, OnlyIssued, OrphanInv, NEW th \in Threads, Request(th)
  PROVE  OrphanInv'
<1>1. CASE \E req \in Offered, id \in ActionIds :
             BeginInstall(th, req, id) \/ BeginReroute(th, req, id)
  BY <1>1, BeginInstallerStep
<1>2. CASE \E target \in Targets : ClearTarget(th, target)
  <2>1. PICK target \in Targets : ClearTarget(th, target)
    BY <1>2
  <2> DEFINE ids == {id \in active_actions : request[id].target = target}
  <2>2. ids \in SUBSET active_actions /\ BeginClear(th, ids)
    BY <2>1 DEF ClearTarget
  <2> HIDE DEF ids
  <2> QED BY <2>2, BeginClearStep
<1>3. CASE ClearAll(th)
  BY <1>3, BeginClearStep DEF ClearAll
<1> QED BY <1>1, <1>2, <1>3 DEF Request

LEMMA NetworkStep ==
  ASSUME TypeOK, OnlyIssued, OrphanInv, NEW s \in Switches, Network(s)
  PROVE  OrphanInv'
BY SwitchConnectsStep, ConnectionLostStep, HandleDeadStep, ReceiveStep DEF Network

\* No policy rule outlives its registry entry, for any number of switches,
\* threads and overlapping requests, whatever connections are lost: the property
\* NoOrphanRules of _apply_*, _clear_target_policy and _clear_all_policies.
THEOREM NoOrphans == Spec => []NoOrphanRules
<1> DEFINE Inv == TypeOK /\ OnlyIssued /\ OrphanInv
<1>1. Init => Inv
  BY InitTyped, OrphanInit
<1>2. Inv /\ [Next]_vars => Inv'
  <2>1. ASSUME Inv, UNCHANGED vars PROVE OrphanInv'
    BY <2>1 DEF vars, OrphanInv, TaskSends, OneInstaller, RulesIssued, RulesReachable,
                EraseProgress, NoOrphanRules, Accounted, Excused, Stands, DeletedLater,
                Installing, Issued
  <2>2. ASSUME Inv, UNCHANGED vars PROVE TypeOK' /\ OnlyIssued'
    BY <2>2 DEF vars, TypeOK, OnlyIssued, TaskIssued, Issued
  <2>3. ASSUME Inv, Next PROVE Inv'
    <3>1. CASE \E th \in Threads : Work(th)
      BY <2>3, <3>1, WorkTyped, WorkStep
    <3>2. CASE \E th \in Threads : Request(th)
      BY <2>3, <3>2, RequestTyped, RequestStep
    <3>3. CASE \E s \in Switches : Network(s)
      BY <2>3, <3>3, NetworkTyped, NetworkStep
    <3> QED BY <2>3, <3>1, <3>2, <3>3 DEF Next
  <2> QED BY <2>1, <2>2, <2>3
<1>3. Inv => NoOrphanRules
  BY DEF OrphanInv
<1> QED BY <1>1, <1>2, <1>3, PTL DEF Spec

-----------------------------------------------------------------------------
(* A registered policy is in force.                                           *)

\* An action that is installed or being installed, and that nobody clears.
Live(id) ==
  id \notin aborted /\ ~Erasing(id) /\ (id \in active_actions \/ Installing(id))

\* Thread state t still sends rule m of id to switch s, or comes to that switch yet.
Awaits(t, s, id, m) ==
  /\ t.pc \in InstallerPC /\ t.id = id
  /\ s \in t.left \/ (t.at = s /\ Flow(id, m) \in t.out)

Pending(s, id, m) == \E th \in Threads : Awaits(task[th], s, id, m)

\* A rule is on its switch or on its way there.
Placed(s, id, m) ==
  table[s][m] = id \/ \E i \in DOMAIN chan[s] : chan[s][i] = Flow(id, m)

\* Nobody sends a delete of a live action.
NoDeletes ==
  \A s \in Switches : \A i \in DOMAIN chan[s] :
    chan[s][i].op \in {"unflow", "unmeter"} => ~Live(chan[s][i].id)

\* Only the rules its request calls for are sent, and meters for rate limits only.
Wanted(s, m) ==
  /\ m.op = "flow" => m.match[1] = "port_drop" \/ m.match \in RequiredMatches(request[m.id], s)
  /\ m.op \in {"meter", "unmeter"} => request[m.id].kind = "rate_limit"

OnlyWanted ==
  /\ \A s \in Switches : \A i \in DOMAIN chan[s] : Wanted(s, chan[s][i])
  /\ \A th \in Threads : \A m \in task[th].out : Wanted(task[th].at, m)

\* The meter of id is on s, or message i of its connection brings it, or one before.
MeterComes(s, id, i) ==
  \/ MeterOf[id] \in meters[s]
  \/ \E j \in DOMAIN chan[s] : j < i /\ chan[s][j] = AddMeter(id)

\* A metered rule of a live action finds its meter, unless another action has the meter too.
MeterFirst ==
  \A s \in Switches, id \in ActionIds, m \in Matches :
    m[1] = "metered" /\ Live(id) /\ ~Contended(id, m) =>
      /\ \A i \in DOMAIN chan[s] : chan[s][i] = Flow(id, m) => MeterComes(s, id, i)
      /\ \A th \in Threads :
           task[th].at = s /\ Flow(id, m) \in task[th].out =>
             AddMeter(id) \in task[th].out \/ MeterComes(s, id, Len(chan[s]) + 1)

Enforcing ==
  \A id \in ActionIds, s \in datapaths \intersect connected :
    Live(id) /\ id \notin preSession[s] =>
      \A m \in RequiredMatches(request[id], s) :
        Contended(id, m) \/ Placed(s, id, m) \/ Pending(s, id, m)

EnforcedInv == NoDeletes /\ OnlyWanted /\ MeterFirst /\ Enforcing

LEMMA ContendedStays ==
  ASSUME Issued \subseteq Issued', \A id \in Issued : request'[id] = request[id],
         NEW id, NEW m, Contended(id, m)
  PROVE  Contended(id, m)'
<1>1. PICK other \in Issued \ {id} :
        \/ \E s \in Switches : m \in RequiredMatches(request[other], s)
        \/ m[1] = "metered" /\ MeterOf[other] = MeterOf[id]
  BY DEF Contended
<1>2. other \in Issued' \ {id} /\ request'[other] = request[other]
  BY <1>1
<1> QED BY <1>1, <1>2 DEF Contended

LEMMA LiveIsIssued ==
  ASSUME OnlyIssued, NEW id, Live(id)
  PROVE  id \in Issued
BY DEF Live, Installing, OnlyIssued, TaskIssued

\* Where a thread goes on to, an action that was not live before is a fresh one.
LEMMA LiveStays ==
  ASSUME TypeOK, OrphanInv, NEW th \in Threads, NEW t, task' = [task EXCEPT ![th] = t],
         aborted \subseteq aborted',
         t.pc \in InstallerPC =>
           \/ task[th].pc \in InstallerPC /\ t.id = task[th].id
           \/ t.id \notin Issued,
         \A id \in active_actions' :
           id \in active_actions \/ (task[th].pc \in InstallerPC /\ id = task[th].id),
         task[th].pc = "erase" =>
           \/ t.pc = "erase" /\ t.id = task[th].id
           \/ task[th].id \in aborted'
           \/ task[th].id \notin active_actions'
  PROVE  \A id \in Issued : Live(id)' => Live(id)
<1>0. task'[th] = t /\ \A x \in Threads : x # th => task'[x] = task[x]
  BY DEF TypeOK
<1> SUFFICES ASSUME NEW id \in Issued, Live(id)' PROVE Live(id)
  OBVIOUS
<1>1. Installing(id)' => Installing(id)
  BY <1>0 DEF Installing, InstallerPC
<1>2. id \in active_actions \/ Installing(id)
  BY <1>1 DEF Live, Installing, InstallerPC
<1>3. ASSUME Erasing(id) PROVE FALSE
  <2>1. PICK x \in Threads : task[x].pc = "erase" /\ task[x].id = id
    BY <1>3 DEF Erasing
  <2>2. ~(task'[x].pc = "erase" /\ task'[x].id = id)
    BY DEF Live, Erasing
  <2>3. x = th /\ id \notin active_actions'
    BY <1>0, <2>1, <2>2 DEF Live
  <2>4. ~Installing(id)
    BY <2>1 DEF OrphanInv, OneInstaller
  <2> QED BY <1>1, <2>3, <2>4 DEF Live
<1> QED BY <1>2, <1>3 DEF Live

\* Steps that change no thread's action keep the live ones.
LEMMA LiveKept ==
  ASSUME UNCHANGED <<active_actions, aborted>>,
         \A x \in Threads : task'[x].pc = task[x].pc,
         \A x \in Threads : task'[x].id = task[x].id
  PROVE  \A id : Live(id)' <=> Live(id)
BY DEF Live, Installing, Erasing

LEMMA RequiredKinds ==
  ASSUME NEW req \in Requests \union {NoRequest}, NEW s \in Switches, NEW m \in RequiredMatches(req, s)
  PROVE  m \in Matches /\ m[1] # "port_drop" /\ (m[1] = "metered" => req.kind = "rate_limit")
<1>1. m \in Matches
  BY MatchesTyped
<1>2. m[1] # "port_drop" /\ (m[1] = "metered" => req.kind = "rate_limit")
  BY DEF RequiredMatches, RerouteMatches
<1> QED BY <1>1, <1>2

\* A thread that sends nothing yet. What each such step has to show is listed in
\* the assumptions.
LEMMA QuietEnforces ==
  ASSUME TypeOK, OnlyIssued, OnlyIssued', OrphanInv, EnforcedInv, NEW th \in Threads, NEW t \in TaskType,
         task' = [task EXCEPT ![th] = t],
         UNCHANGED <<datapaths, connected, chan, table, meters, preSession>>,
         Issued \subseteq Issued', \A id \in Issued : request'[id] = request[id],
         \A id \in Issued : Live(id)' => Live(id),
         \A m \in t.out : \A at : at = t.at => Wanted(at, m)',
         \A m \in t.out : m.id \in Issued,
         \A id, m : m[1] = "metered" /\ Flow(id, m) \in t.out => AddMeter(id) \in t.out,
         \A id \in ActionIds, s \in datapaths \intersect connected : Live(id)' =>
           \A m \in RequiredMatches(request'[id], s) :
             id \notin Issued \/ Awaits(task[th], s, id, m) => Awaits(t, s, id, m)
  PROVE  EnforcedInv'
<1>0. task'[th] = t /\ \A x \in Threads : x # th => task'[x] = task[x]
  BY DEF TypeOK
<1>1. \A s \in Switches : \A i \in DOMAIN chan[s] : chan[s][i].id \in Issued
  BY DEF OrphanInv, RulesIssued
<1>2. \A id, m : Contended(id, m) => Contended(id, m)'
  BY ContendedStays
<1>3. NoDeletes'
  BY <1>1 DEF EnforcedInv, NoDeletes, Live
<1>4. \A x \in Threads : \A m \in task'[x].out : m.id \in Issued
  BY <1>0 DEF OrphanInv, TaskSends, OnlyIssued, TaskIssued
<1>5. OnlyWanted'
  <2>1. ASSUME NEW s \in Switches, NEW i \in DOMAIN chan[s] PROVE Wanted(s, chan[s][i])'
    BY <1>1 DEF EnforcedInv, OnlyWanted, Wanted
  <2>2. ASSUME NEW x \in Threads, NEW m \in task'[x].out, NEW at, at = task'[x].at
        PROVE  Wanted(at, m)'
    <3>1. CASE x = th
      BY <1>0, <2>2, <3>1
    <3>2. CASE x # th
      <4>1. Wanted(at, m) /\ request'[m.id] = request[m.id]
        BY <1>0, <1>4, <2>2, <3>2 DEF EnforcedInv, OnlyWanted
      <4> QED BY <4>1 DEF Wanted
    <3> QED BY <3>1, <3>2
  <2>3. \A x \in Threads : \A m \in task'[x].out : Wanted(task[x].at, m)'
    BY <2>2 DEF Wanted
  <2> QED BY <2>1, <2>3 DEF OnlyWanted
<1>6. MeterFirst'
  <2> SUFFICES ASSUME NEW s \in Switches, NEW id \in ActionIds, NEW m \in Matches,
                      m[1] = "metered", Live(id)', ~Contended(id, m)'
               PROVE  /\ \A i \in DOMAIN chan[s] : chan[s][i] = Flow(id, m) => MeterComes(s, id, i)
                      /\ \A x \in Threads :
                           task'[x].at = s /\ Flow(id, m) \in task'[x].out =>
                             AddMeter(id) \in task'[x].out \/ MeterComes(s, id, Len(chan[s]) + 1)
    BY DEF MeterFirst, MeterComes, Flow, AddMeter
  <2>1. CASE id \in Issued
    <3>1. Live(id) /\ ~Contended(id, m)
      BY <1>2, <2>1
    <3>2. /\ \A i \in DOMAIN chan[s] : chan[s][i] = Flow(id, m) => MeterComes(s, id, i)
          /\ \A x \in Threads :
               task[x].at = s /\ Flow(id, m) \in task[x].out =>
                 AddMeter(id) \in task[x].out \/ MeterComes(s, id, Len(chan[s]) + 1)
      BY <3>1 DEF EnforcedInv, MeterFirst
    <3> QED BY <1>0, <3>2
  <2>2. CASE id \notin Issued
    <3>1. Flow(id, m).id = id
      BY DEF Flow
    <3> QED BY <1>1, <1>4, <2>2, <3>1
  <2> QED BY <2>1, <2>2
<1>7. Enforcing'
  <2> SUFFICES ASSUME NEW id \in ActionIds, NEW s \in datapaths \intersect connected,
                      Live(id)', id \notin preSession[s],
                      NEW m \in RequiredMatches(request'[id], s)
               PROVE  Contended(id, m)' \/ Placed(s, id, m) \/ Pending(s, id, m)'
    BY DEF Enforcing, Placed, Flow
  <2>1. id \notin Issued \/ Awaits(task[th], s, id, m) => Awaits(t, s, id, m)
    OBVIOUS
  <2>2. ASSUME Awaits(t, s, id, m) PROVE Pending(s, id, m)'
    <3>1. Awaits(task'[th], s, id, m)
      BY <1>0, <2>2, Zenon
    <3> QED BY <3>1 DEF Pending, Awaits, Flow
  <2>3. CASE id \in Issued
    <3>1. Contended(id, m) \/ Placed(s, id, m) \/ Pending(s, id, m)
      BY <2>3 DEF EnforcedInv, Enforcing
    <3>2. ASSUME Pending(s, id, m) PROVE Pending(s, id, m)'
      <4>1. PICK x \in Threads : Awaits(task[x], s, id, m)
        BY <3>2 DEF Pending
      <4>2. CASE x = th
        BY <2>1, <2>2, <4>1, <4>2
      <4>3. CASE x # th
        <5>1. task'[x] = task[x]
          BY <1>0, <4>3
        <5>2. Awaits(task'[x], s, id, m)
          BY <4>1, <5>1, Zenon
        <5> QED BY <5>2 DEF Pending, Awaits, Flow
      <4> QED BY <4>2, <4>3
    <3> QED BY <1>2, <3>1, <3>2
  <2> QED BY <2>1, <2>2, <2>3
<1> QED BY <1>3, <1>5, <1>6, <1>7 DEF EnforcedInv

\* A message goes out: rules move from the thread to the connection, behind the
\* meter they use.
LEMMA SendEnforces ==
  ASSUME TypeOK, OnlyIssued, OrphanInv, EnforcedInv, NEW th \in Threads, Send(th)
  PROVE  EnforcedInv'
<1> DEFINE msg == NextMessage(task[th].out)
           a == task[th].at
           out == task[th].out \ {msg}
           t == Sending(task[th], task[th].left, a, out)
           n == Len(chan[a])
<1>1. /\ task \in [Threads -> TaskType] /\ task[th] \in TaskType
      /\ task[th].out \in SUBSET Messages /\ task[th].out # {}
      /\ task[th].left \subseteq Switches /\ a \in Switches \union {NoAction}
  BY DEF Send, TypeOK, TaskType
<1>2. /\ msg \in task[th].out /\ msg \in Messages
      /\ \A other \in task[th].out : ~Precedes(other, msg)
  <2>1. CASE \E x \in task[th].out : x.op \in {"meter", "unflow"}
    BY <1>1, <2>1 DEF NextMessage, Precedes
  <2>2. CASE \A x \in task[th].out : x.op \notin {"meter", "unflow"}
    BY <1>1, <2>2 DEF NextMessage, Precedes
  <2> QED BY <2>1, <2>2
<1>3. /\ chan' = [chan EXCEPT ![a] = Append(@, msg)]
      /\ task' = [task EXCEPT ![th] = t]
      /\ UNCHANGED <<datapaths, active_actions, request, connected, table, meters,
                      preSession, aborted>>
  BY DEF Send, historyVars
<1>4. TaskSends(task[th])
  BY DEF OrphanInv
<1>5. a \in Switches /\ msg.id = task[th].id /\ task[th].pc # "idle"
      /\ (msg.op \in {"unflow", "unmeter"} => task[th].pc = "erase")
  BY <1>1, <1>2, <1>4 DEF TaskSends, TypeOK, TaskType, InstallerPC
<1>6. /\ t \in TaskType /\ t.pc = task[th].pc /\ t.id = task[th].id
      /\ t.left = task[th].left /\ t.out = out
      /\ out # {} => t.at = a
  BY <1>1, SendingTyped
<1> HIDE DEF msg, t
<1>7. task'[th] = t /\ \A x \in Threads : x # th => task'[x] = task[x]
  BY <1>1, <1>3
<1>8. \A id : Live(id)' <=> Live(id)
  <2>1. \A x \in Threads : task'[x].pc = task[x].pc
    BY <1>6, <1>7
  <2>2. \A x \in Threads : task'[x].id = task[x].id
    BY <1>6, <1>7
  <2> QED BY <1>3, <2>1, <2>2, LiveKept
<1>9. \A id, m : Contended(id, m)' <=> Contended(id, m)
  BY <1>3 DEF Contended, Issued
<1>10. /\ chan \in [Switches -> Seq(Messages)] /\ n \in Nat
       /\ DOMAIN chan[a] = 1..n /\ DOMAIN chan'[a] = 1..(n + 1)
       /\ \A i \in 1..n : chan'[a][i] = chan[a][i]
       /\ chan'[a][n + 1] = msg /\ Len(chan'[a]) = n + 1
       /\ \A s \in Switches : s # a => chan'[s] = chan[s]
  <2>1. chan \in [Switches -> Seq(Messages)] /\ chan[a] \in Seq(Messages)
    BY <1>5 DEF TypeOK
  <2>2. chan'[a] = Append(chan[a], msg) /\ \A s \in Switches : s # a => chan'[s] = chan[s]
    BY <1>3, <1>5, <2>1
  <2> QED BY <1>2, <2>1, <2>2
<1> HIDE DEF a, n
<1>10a. ASSUME NEW s \in Switches, NEW i \in DOMAIN chan'[s], ~(s = a /\ i = n + 1)
       PROVE  i \in DOMAIN chan[s] /\ chan'[s][i] = chan[s][i]
  <2>1. CASE s = a
    <3>1. i \in 1..n
      BY <1>10, <1>10a, <2>1
    <3> QED BY <1>10, <2>1, <3>1
  <2>2. CASE s # a
    BY <1>10, <2>2
  <2> QED BY <2>1, <2>2
<1>11. NoDeletes'
  <2> SUFFICES ASSUME NEW s \in Switches, NEW i \in DOMAIN chan'[s],
                      chan'[s][i].op \in {"unflow", "unmeter"}, NEW id, id = chan'[s][i].id
               PROVE  ~Live(id)
    BY <1>8 DEF NoDeletes
  <2>1. CASE s = a /\ i = n + 1
    <3>1. task[th].pc = "erase" /\ task[th].id = id
      BY <1>5, <1>10, <2>1
    <3> QED BY <3>1 DEF Live, Erasing
  <2>2. CASE ~(s = a /\ i = n + 1)
    <3>1. i \in DOMAIN chan[s] /\ chan'[s][i] = chan[s][i]
      BY <1>10a, <2>2
    <3> QED BY <3>1 DEF EnforcedInv, NoDeletes
  <2> QED BY <2>1, <2>2
<1>12. OnlyWanted'
  <2>1. \A s, m : Wanted(s, m)' <=> Wanted(s, m)
    BY <1>3 DEF Wanted
  <2>2. ASSUME NEW s \in Switches, NEW i \in DOMAIN chan'[s] PROVE Wanted(s, chan'[s][i])
    <3>1. CASE s = a /\ i = n + 1
      <4>1. Wanted(a, msg)
        BY <1>2 DEF EnforcedInv, OnlyWanted, a
      <4> QED BY <1>10, <3>1, <4>1
    <3>2. CASE ~(s = a /\ i = n + 1)
      <4>1. i \in DOMAIN chan[s] /\ chan'[s][i] = chan[s][i]
        BY <1>10a, <3>2
      <4> QED BY <4>1 DEF EnforcedInv, OnlyWanted
    <3> QED BY <3>1, <3>2
  <2>3. ASSUME NEW x \in Threads, NEW m \in task'[x].out PROVE Wanted(task'[x].at, m)
    <3>1. m \in task[x].out /\ task'[x].at = task[x].at
      BY <1>6, <1>7 DEF a
    <3> QED BY <3>1 DEF EnforcedInv, OnlyWanted
  <2> QED BY <1>3, <2>2, <2>3 DEF OnlyWanted, Wanted
<1>13. MeterFirst'
  <2> SUFFICES ASSUME NEW s \in Switches, NEW id \in ActionIds, NEW m \in Matches,
                      m[1] = "metered", Live(id), ~Contended(id, m)
               PROVE  /\ \A i \in DOMAIN chan'[s] :
                           chan'[s][i] = Flow(id, m) => MeterComes(s, id, i)'
                      /\ \A x \in Threads :
                           task'[x].at = s /\ Flow(id, m) \in task'[x].out =>
                             \/ AddMeter(id) \in task'[x].out
                             \/ MeterComes(s, id, Len(chan[s]) + 1)'
    BY <1>8, <1>9 DEF MeterFirst, MeterComes, Flow, AddMeter
  <2>1. /\ \A i \in DOMAIN chan[s] : chan[s][i] = Flow(id, m) => MeterComes(s, id, i)
        /\ \A x \in Threads :
             task[x].at = s /\ Flow(id, m) \in task[x].out =>
               AddMeter(id) \in task[x].out \/ MeterComes(s, id, Len(chan[s]) + 1)
    BY DEF EnforcedInv, MeterFirst
  \* A meter that comes still comes.
  <2>2. ASSUME NEW i \in Nat, NEW k \in Nat, i <= k, MeterComes(s, id, i)
        PROVE  MeterOf[id] \in meters'[s]
               \/ \E j \in DOMAIN chan'[s] : j < k /\ chan'[s][j] = AddMeter(id)
    <3>1. CASE MeterOf[id] \in meters[s]
      BY <1>3, <3>1
    <3>2. CASE \E j \in DOMAIN chan[s] : j < i /\ chan[s][j] = AddMeter(id)
      <4>1. PICK j \in DOMAIN chan[s] : j < i /\ chan[s][j] = AddMeter(id)
        BY <3>2
      <4>2. j \in DOMAIN chan'[s] /\ chan'[s][j] = chan[s][j] /\ j \in Nat
        BY <1>10, <4>1
      <4> QED BY <2>2, <4>1, <4>2
    <3> QED BY <2>2, <3>1, <3>2 DEF MeterComes
  <2>3. chan[s] \in Seq(Messages) /\ Len(chan[s]) \in Nat /\ Len(chan'[s]) \in Nat
        /\ Len(chan[s]) <= Len(chan'[s]) /\ DOMAIN chan'[s] \subseteq Nat
        /\ DOMAIN chan[s] \subseteq Nat
    BY <1>10
  <2>4. ASSUME NEW i \in DOMAIN chan'[s], chan'[s][i] = Flow(id, m)
        PROVE  MeterComes(s, id, i)'
    <3>1. CASE s = a /\ i = n + 1
      <4>1. msg = Flow(id, m) /\ AddMeter(id) \notin task[th].out
        BY <1>2, <1>10, <2>4, <3>1 DEF Precedes, Flow, AddMeter
      <4>2. MeterComes(s, id, Len(chan[s]) + 1)
        BY <1>2, <2>1, <3>1, <4>1 DEF a
      <4>3. Len(chan[s]) + 1 = i /\ i \in Nat
        BY <1>10, <2>3, <3>1 DEF n
      <4> QED BY <2>2, <4>2, <4>3 DEF MeterComes, AddMeter
    <3>2. CASE ~(s = a /\ i = n + 1)
      <4>1. i \in DOMAIN chan[s] /\ chan'[s][i] = chan[s][i]
        BY <1>10, <3>2
      <4>2. MeterComes(s, id, i) /\ i \in Nat
        BY <2>1, <2>3, <2>4, <4>1
      <4> QED BY <2>2, <4>2 DEF MeterComes, AddMeter
    <3> QED BY <3>1, <3>2
  <2>5. ASSUME NEW x \in Threads, task'[x].at = s, Flow(id, m) \in task'[x].out
        PROVE  \/ AddMeter(id) \in task'[x].out
               \/ MeterComes(s, id, Len(chan[s]) + 1)'
    <3>1. task[x].at = s /\ Flow(id, m) \in task[x].out
      BY <1>6, <1>7, <2>5 DEF a
    <3>2. CASE MeterComes(s, id, Len(chan[s]) + 1)
      <4>1. Len(chan[s]) + 1 \in Nat /\ Len(chan'[s]) + 1 \in Nat
            /\ Len(chan[s]) + 1 <= Len(chan'[s]) + 1
        BY <2>3
      <4> QED BY <2>2, <3>2, <4>1 DEF MeterComes, AddMeter
    <3>3. CASE AddMeter(id) \in task[x].out
      <4>1. CASE x = th /\ msg = AddMeter(id)
        <5>1. n + 1 \in DOMAIN chan'[a] /\ chan'[a][n + 1] = AddMeter(id)
              /\ n + 1 < Len(chan'[a]) + 1
          BY <1>10, <4>1
        <5>2. s = a
          BY <3>1, <4>1 DEF a
        <5> QED BY <5>1, <5>2 DEF MeterComes, AddMeter
      <4>2. CASE ~(x = th /\ msg = AddMeter(id))
        BY <1>6, <1>7, <3>3, <4>2
      <4> QED BY <4>1, <4>2
    <3> QED BY <2>1, <3>1, <3>2, <3>3
  <2> QED BY <2>4, <2>5
<1>14. Enforcing'
  <2> SUFFICES ASSUME NEW id \in ActionIds, NEW s \in datapaths \intersect connected,
                      Live(id), id \notin preSession[s], NEW m \in RequiredMatches(request[id], s)
               PROVE  Contended(id, m) \/ Placed(s, id, m)' \/ Pending(s, id, m)'
    BY <1>3, <1>8, <1>9 DEF Enforcing, Placed, Pending, Awaits, Flow
  <2>0. s \in Switches
    BY DEF TypeOK
  <2>1. Contended(id, m) \/ Placed(s, id, m) \/ Pending(s, id, m)
    BY DEF EnforcedInv, Enforcing
  <2>2. ASSUME Placed(s, id, m) PROVE Placed(s, id, m)'
    <3>1. CASE table[s][m] = id
      BY <1>3, <3>1 DEF Placed
    <3>2. CASE \E i \in DOMAIN chan[s] : chan[s][i] = Flow(id, m)
      <4>1. PICK i \in DOMAIN chan[s] : chan[s][i] = Flow(id, m)
        BY <3>2
      <4>2. i \in DOMAIN chan'[s] /\ chan'[s][i] = Flow(id, m)
        BY <1>10, <2>0, <4>1
      <4> QED BY <4>2 DEF Placed, Flow
    <3> QED BY <2>2, <3>1, <3>2 DEF Placed
  <2>3. ASSUME Pending(s, id, m) PROVE Placed(s, id, m)' \/ Pending(s, id, m)'
    <3>1. PICK x \in Threads : Awaits(task[x], s, id, m)
      BY <2>3 DEF Pending
    <3>2. CASE x = th /\ s = a /\ msg = Flow(id, m)
      <4>1. n + 1 \in DOMAIN chan'[s] /\ chan'[s][n + 1] = Flow(id, m)
        BY <1>10, <3>2
      <4> QED BY <4>1 DEF Placed, Flow
    <3>3. CASE ~(x = th /\ s = a /\ msg = Flow(id, m))
      <4>1. CASE x = th
        <5>1. Awaits(t, s, id, m)
          BY <1>6, <3>1, <3>3, <4>1 DEF Awaits, a
        <5>2. task'[x] = t
          BY <1>7, <4>1
        <5>3. Awaits(task'[x], s, id, m)
          BY <5>1, <5>2, Zenon
        <5> QED BY <5>3 DEF Pending, Awaits, Flow
      <4>2. CASE x # th
        <5>1. task'[x] = task[x]
          BY <1>7, <4>2
        <5>2. Awaits(task'[x], s, id, m)
          BY <3>1, <5>1, Zenon
        <5> QED BY <5>2 DEF Pending, Awaits, Flow
      <4> QED BY <4>1, <4>2
    <3> QED BY <3>2, <3>3
  <2> QED BY <2>1, <2>2, <2>3
<1> QED BY <1>11, <1>12, <1>13, <1>14 DEF EnforcedInv

\* A switch takes a message: what it removes from a live action belongs to a
\* contender, and a metered rule finds its meter.
LEMMA ReceiveEnforces ==
  ASSUME TypeOK, OnlyIssued, OrphanInv, EnforcedInv, NEW a \in Switches, SwitchReceives(a)
  PROVE  EnforcedInv'
<1> DEFINE h == Head(chan[a])
           n == Len(chan[a])
<1>1. /\ UNCHANGED <<datapaths, active_actions, request, task, connected, preSession, aborted>>
      /\ Issued' = Issued
  BY DEF SwitchReceives, controllerVars, historyVars, Issued
<1>2. /\ n \in Nat /\ n >= 1 /\ DOMAIN chan[a] = 1..n /\ DOMAIN chan'[a] = 1..(n - 1)
      /\ Len(chan'[a]) = n - 1
      /\ \A i \in 1..(n - 1) : chan'[a][i] = chan[a][i + 1]
      /\ h = chan[a][1] /\ h \in Messages
      /\ \A s \in Switches : s # a => chan'[s] = chan[s]
  <2>1. chan \in [Switches -> Seq(Messages)] /\ chan[a] \in Seq(Messages) /\ chan[a] # <<>>
    BY DEF TypeOK, SwitchReceives
  <2>2. chan'[a] = Tail(chan[a]) /\ \A s \in Switches : s # a => chan'[s] = chan[s]
    BY <2>1 DEF SwitchReceives
  <2> QED BY <2>1, <2>2
<1>3. /\ table[a] \in [Matches -> ActionIds \union {NoAction}]
      /\ meters[a] \subseteq MeterIds
      /\ h.op = "flow" => table'[a] = Installed(table[a], meters[a], h) /\ meters'[a] = meters[a]
      /\ h.op = "meter" => /\ table'[a] = table[a]
                           /\ meters'[a] = meters[a] \union {MeterOf[h.id]}
      /\ h.op = "unflow" => table'[a] = WithoutCookie(table[a], h.id) /\ meters'[a] = meters[a]
      /\ h.op = "unmeter" => /\ table'[a] = WithoutMeter(table[a], h.id)
                             /\ meters'[a] = meters[a] \ {MeterOf[h.id]}
      /\ \A s \in Switches : s # a => table'[s] = table[s] /\ meters'[s] = meters[s]
  BY DEF SwitchReceives, TypeOK
<1>4. /\ h.id \in Issued /\ h.id \in ActionIds
      /\ h.op \in {"unflow", "unmeter"} => ~Live(h.id)
      /\ Wanted(a, h)
  <2>1. 1 \in DOMAIN chan[a]
    BY <1>2
  <2> QED BY <1>2, <2>1 DEF OrphanInv, RulesIssued, EnforcedInv, NoDeletes, OnlyWanted, Issued
<1>5. \A id : Live(id)' <=> Live(id)
  BY <1>1 DEF Live, Installing, Erasing
<1>6. \A id, m : Contended(id, m)' <=> Contended(id, m)
  BY <1>1 DEF Contended
<1> HIDE DEF h, n
\* What is on the connection after the step was there before.
<1>7. ASSUME NEW s \in Switches, NEW i \in DOMAIN chan'[s]
      PROVE  \E j \in DOMAIN chan[s] : chan'[s][i] = chan[s][j]
  <2>1. CASE s = a
    <3>1. i + 1 \in DOMAIN chan[a] /\ chan'[a][i] = chan[a][i + 1]
      BY <1>2, <2>1
    <3> QED BY <2>1, <3>1
  <2>2. CASE s # a
    BY <1>2, <2>2
  <2> QED BY <2>1, <2>2
<1>8. NoDeletes'
  <2> SUFFICES ASSUME NEW s \in Switches, NEW i \in DOMAIN chan'[s],
                      chan'[s][i].op \in {"unflow", "unmeter"}, NEW id, id = chan'[s][i].id
               PROVE  ~Live(id)
    BY <1>5 DEF NoDeletes
  <2> QED BY <1>7 DEF EnforcedInv, NoDeletes
<1>9. OnlyWanted'
  <2>1. \A s \in Switches : \A i \in DOMAIN chan'[s] : Wanted(s, chan'[s][i])
    BY <1>7 DEF EnforcedInv, OnlyWanted
  <2>2. \A th \in Threads : \A m \in task[th].out : Wanted(task[th].at, m)
    BY DEF EnforcedInv, OnlyWanted
  <2> QED BY <1>1, <2>1, <2>2 DEF OnlyWanted, Wanted
\* A meter that comes with the messages before the k-th still does.
<1>10. ASSUME NEW s \in Switches, NEW id \in ActionIds, NEW m \in Matches, m[1] = "metered",
              Live(id), ~Contended(id, m), NEW k \in Nat, MeterComes(s, id, k)
       PROVE  \/ MeterOf[id] \in meters'[s]
              \/ \E j \in DOMAIN chan'[s] :
                   j < (IF s = a THEN k - 1 ELSE k) /\ chan'[s][j] = AddMeter(id)
  <2>1. CASE s # a
    BY <1>2, <1>3, <1>10, <2>1 DEF MeterComes
  <2>2. CASE s = a /\ MeterOf[id] \in meters[s]
    <3>1. h.op = "unmeter" => MeterOf[h.id] # MeterOf[id]
      BY <1>4, <1>10 DEF Contended
    <3>2. h.op \in {"flow", "meter", "unflow", "unmeter"}
      BY <1>2 DEF Messages
    <3> QED BY <1>3, <2>2, <3>1, <3>2
  <2>3. CASE s = a /\ \E j \in DOMAIN chan[s] : j < k /\ chan[s][j] = AddMeter(id)
    <3>1. PICK j \in DOMAIN chan[s] : j < k /\ chan[s][j] = AddMeter(id)
      BY <2>3
    <3>2. CASE j = 1
      <4>1. h.op = "meter" /\ h.id = id
        BY <1>2, <2>3, <3>1, <3>2 DEF AddMeter
      <4> QED BY <1>3, <2>3, <4>1
    <3>3. CASE j # 1
      <4>1. j - 1 \in DOMAIN chan'[s] /\ j - 1 < k - 1 /\ chan'[s][j - 1] = AddMeter(id)
        <5>1. j - 1 \in 1..(n - 1) /\ (j - 1) + 1 = j
          BY <1>2, <2>3, <3>1, <3>3
        <5> QED BY <1>2, <2>3, <3>1, <5>1, SMTT(60)
      <4> QED BY <2>3, <4>1
    <3> QED BY <3>2, <3>3
  <2> QED BY <1>10, <2>1, <2>2, <2>3 DEF MeterComes
<1>11. MeterFirst'
  <2> SUFFICES ASSUME NEW s \in Switches, NEW id \in ActionIds, NEW m \in Matches,
                      m[1] = "metered", Live(id), ~Contended(id, m)
               PROVE  /\ \A i \in DOMAIN chan'[s] :
                           chan'[s][i] = Flow(id, m) => MeterComes(s, id, i)'
                      /\ \A x \in Threads :
                           task[x].at = s /\ Flow(id, m) \in task[x].out =>
                             \/ AddMeter(id) \in task[x].out
                             \/ MeterComes(s, id, Len(chan[s]) + 1)'
    BY <1>1, <1>5, <1>6 DEF MeterFirst, MeterComes, Flow, AddMeter
  <2>1. /\ \A i \in DOMAIN chan[s] : chan[s][i] = Flow(id, m) => MeterComes(s, id, i)
        /\ \A x \in Threads :
             task[x].at = s /\ Flow(id, m) \in task[x].out =>
               AddMeter(id) \in task[x].out \/ MeterComes(s, id, Len(chan[s]) + 1)
    BY DEF EnforcedInv, MeterFirst
  <2>2. ASSUME NEW i \in DOMAIN chan'[s], chan'[s][i] = Flow(id, m)
        PROVE  MeterComes(s, id, i)'
    <3>1. CASE s = a
      <4>1. /\ i + 1 \in DOMAIN chan[s] /\ i + 1 \in Nat /\ (i + 1) - 1 = i
            /\ chan[s][i + 1] = Flow(id, m)
        BY <1>2, <2>2, <3>1
      <4>2. MeterComes(s, id, i + 1)
        BY <2>1, <4>1
      <4>3. \/ MeterOf[id] \in meters'[s]
            \/ \E j \in DOMAIN chan'[s] : j < i /\ chan'[s][j] = AddMeter(id)
        BY <1>10, <3>1, <4>1, <4>2
      <4> QED BY <4>3 DEF MeterComes, AddMeter
    <3>2. CASE s # a
      <4>1. chan[s] \in Seq(Messages)
        BY DEF TypeOK
      <4>2. i \in DOMAIN chan[s] /\ i \in Nat /\ chan[s][i] = Flow(id, m)
        BY <1>2, <2>2, <3>2, <4>1
      <4>3. MeterComes(s, id, i)
        BY <2>1, <4>2
      <4>4. \/ MeterOf[id] \in meters'[s]
            \/ \E j \in DOMAIN chan'[s] : j < i /\ chan'[s][j] = AddMeter(id)
        BY <1>10, <3>2, <4>2, <4>3
      <4> QED BY <4>4 DEF MeterComes, AddMeter
    <3> QED BY <3>1, <3>2
  <2>3. ASSUME NEW x \in Threads, task[x].at = s, Flow(id, m) \in task[x].out,
               MeterComes(s, id, Len(chan[s]) + 1)
        PROVE  MeterComes(s, id, Len(chan[s]) + 1)'
    <3>1. CASE s = a
      <4>1. Len(chan[s]) + 1 \in Nat /\ (Len(chan[s]) + 1) - 1 = Len(chan'[s]) + 1
        BY <1>2, <3>1 DEF n
      <4>2. \/ MeterOf[id] \in meters'[s]
            \/ \E j \in DOMAIN chan'[s] : j < Len(chan'[s]) + 1 /\ chan'[s][j] = AddMeter(id)
        BY <1>10, <2>3, <3>1, <4>1
      <4> QED BY <4>2 DEF MeterComes, AddMeter
    <3>2. CASE s # a
      <4>1. Len(chan[s]) + 1 \in Nat /\ chan'[s] = chan[s]
        BY <1>2, <3>2 DEF TypeOK
      <4>2. \/ MeterOf[id] \in meters'[s]
            \/ \E j \in DOMAIN chan'[s] : j < Len(chan'[s]) + 1 /\ chan'[s][j] = AddMeter(id)
        BY <1>10, <2>3, <3>2, <4>1
      <4> QED BY <4>2 DEF MeterComes, AddMeter
    <3> QED BY <3>1, <3>2
  <2> QED BY <2>1, <2>2, <2>3
<1>12. Enforcing'
  <2> SUFFICES ASSUME NEW id \in ActionIds, NEW s \in datapaths \intersect connected,
                      Live(id), id \notin preSession[s], NEW m \in RequiredMatches(request[id], s),
                      ~Contended(id, m)
               PROVE  Placed(s, id, m)' \/ Pending(s, id, m)'
    BY <1>1, <1>5, <1>6 DEF Enforcing, Placed, Pending, Awaits, Flow
  <2>0. /\ s \in Switches /\ request[id] \in Requests \union {NoRequest}
        /\ m \in Matches /\ m[1] # "port_drop" /\ id # NoAction
    BY RequiredKinds, NoActionAssumption DEF TypeOK
  <2>1. Placed(s, id, m) \/ Pending(s, id, m)
    BY DEF EnforcedInv, Enforcing
  <2>2. Pending(s, id, m) => Pending(s, id, m)'
    BY <1>1 DEF Pending, Awaits, Flow
  <2>3. CASE s # a
    BY <1>2, <1>3, <2>0, <2>1, <2>2, <2>3 DEF Placed, Flow
  <2>4. CASE s = a /\ table[s][m] = id
    <3>1. h.op \in {"flow", "meter", "unflow", "unmeter"}
      BY <1>2 DEF Messages
    <3>2. CASE h.op = "flow"
      <4>1. ASSUME h.match = m, h.id # id PROVE FALSE
        <5>1. m \in RequiredMatches(request[h.id], a)
          BY <1>4, <2>0, <3>2, <4>1 DEF Wanted
        <5> QED BY <1>4, <4>1, <5>1 DEF Contended
      <4>2. Installed(table[a], meters[a], h)[m] = id
        BY <1>3, <2>0, <2>4, <4>1 DEF Installed
      <4> QED BY <1>3, <2>4, <3>2, <4>2 DEF Placed
    <3>3. CASE h.op = "meter"
      BY <1>3, <2>4, <3>3 DEF Placed
    <3>4. CASE h.op = "unflow"
      <4>1. h.id # id
        BY <1>4, <3>4
      <4> QED BY <1>3, <2>0, <2>4, <3>4, <4>1 DEF Placed, WithoutCookie, CookieMatches
    <3>5. CASE h.op = "unmeter"
      <4>1. h.id # id
        BY <1>4, <3>5
      <4>2. ~(m[1] = "metered" /\ MeterOf[h.id] = MeterOf[id])
        BY <1>4, <4>1 DEF Contended
      <4> QED BY <1>3, <2>0, <2>4, <3>5, <4>2 DEF Placed, WithoutMeter
    <3> QED BY <3>1, <3>2, <3>3, <3>4, <3>5
  <2>5. CASE s = a /\ \E i \in DOMAIN chan[s] : chan[s][i] = Flow(id, m)
    <3>1. PICK i \in DOMAIN chan[s] : chan[s][i] = Flow(id, m)
      BY <2>5
    <3>2. CASE i = 1
      <4>1. h.op = "flow" /\ h.id = id /\ h.match = m
        BY <1>2, <2>5, <3>1, <3>2 DEF Flow
      <4>2. m[1] = "metered" => MeterOf[id] \in meters[a]
        <5>1. ASSUME m[1] = "metered" PROVE MeterComes(a, id, 1)
          BY <2>0, <2>5, <3>1, <3>2, <5>1 DEF EnforcedInv, MeterFirst
        <5>2. \A j \in DOMAIN chan[a] : ~(j < 1)
          BY <1>2
        <5> QED BY <5>1, <5>2 DEF MeterComes
      <4>3. Installed(table[a], meters[a], h)[m] = id
        BY <1>3, <2>0, <4>1, <4>2 DEF Installed
      <4> QED BY <1>3, <2>5, <4>1, <4>3 DEF Placed
    <3>3. CASE i # 1
      <4>1. i - 1 \in 1..(n - 1) /\ (i - 1) + 1 = i
        BY <1>2, <2>5, <3>1, <3>3
      <4>2. i - 1 \in DOMAIN chan'[s] /\ chan'[s][i - 1] = Flow(id, m)
        BY <1>2, <2>5, <3>1, <4>1
      <4> QED BY <4>2 DEF Placed, Flow
    <3> QED BY <3>2, <3>3
  <2> QED BY <2>1, <2>2, <2>3, <2>4, <2>5 DEF Placed
<1> QED BY <1>8, <1>9, <1>11, <1>12 DEF EnforcedInv

\* The session of switch a changes: every action that counts is excused there,
\* and nothing changes elsewhere.
LEMMA SessionEnforces ==
  ASSUME TypeOK, OnlyIssued, OrphanInv, EnforcedInv, NEW a \in Switches,
         UNCHANGED <<active_actions, request, aborted>>,
         preSession' = [preSession EXCEPT ![a] = Issued],
         \A x \in Switches : x # a => (x \in datapaths' => x \in datapaths),
         \A x \in Switches : x # a => (x \in connected' => x \in connected),
         \A x \in Switches :
           x # a => (chan'[x] = chan[x] /\ table'[x] = table[x] /\ meters'[x] = meters[x]),
         \/ chan'[a] = chan[a] /\ meters'[a] = meters[a]
         \/ chan'[a] = <<>> /\ \A x \in Threads : task'[x].at = a => task'[x].out = {},
         datapaths' \subseteq Switches,
         \A x \in Threads : task'[x].pc = task[x].pc,
         \A x \in Threads : task'[x].id = task[x].id,
         \A x \in Threads : task'[x].out \in {task[x].out, {}},
         \A x \in Threads : task'[x].out = task[x].out \/ task[x].at = a,
         \A x \in Threads : task'[x].out # {} => (task'[x].at = task[x].at),
         \A x \in Threads : task[x].left \subseteq (task'[x].left \union {a})
  PROVE  EnforcedInv'
<1>1. Issued' = Issued /\ \A id : (Live(id)' <=> Live(id))
  BY LiveKept DEF Issued
<1>2. \A id, m : Contended(id, m)' <=> Contended(id, m)
  BY <1>1 DEF Contended
<1>3. \A x \in Switches : chan'[x] \in {chan[x], <<>>}
  OBVIOUS
<1>4. NoDeletes'
  <2> SUFFICES ASSUME NEW s \in Switches, NEW i \in DOMAIN chan'[s],
                      chan'[s][i].op \in {"unflow", "unmeter"}, NEW id, id = chan'[s][i].id
               PROVE  ~Live(id)
    BY <1>1 DEF NoDeletes
  <2>1. chan'[s] = chan[s]
    BY <1>3
  <2> QED BY <2>1 DEF EnforcedInv, NoDeletes
<1>5. OnlyWanted'
  <2>1. ASSUME NEW s \in Switches, NEW i \in DOMAIN chan'[s] PROVE Wanted(s, chan'[s][i])
    <3>1. chan'[s] = chan[s]
      BY <1>3
    <3> QED BY <3>1 DEF EnforcedInv, OnlyWanted
  <2>2. ASSUME NEW x \in Threads, NEW m \in task'[x].out PROVE Wanted(task'[x].at, m)
    <3>1. m \in task[x].out /\ task'[x].at = task[x].at
      OBVIOUS
    <3> QED BY <3>1 DEF EnforcedInv, OnlyWanted
  <2> QED BY <2>1, <2>2 DEF OnlyWanted, Wanted
<1>6. MeterFirst'
  <2> SUFFICES ASSUME NEW s \in Switches, NEW id \in ActionIds, NEW m \in Matches,
                      m[1] = "metered", Live(id), ~Contended(id, m)
               PROVE  /\ \A i \in DOMAIN chan'[s] :
                           chan'[s][i] = Flow(id, m) => MeterComes(s, id, i)'
                      /\ \A x \in Threads :
                           task'[x].at = s /\ Flow(id, m) \in task'[x].out =>
                             \/ AddMeter(id) \in task'[x].out
                             \/ MeterComes(s, id, Len(chan[s]) + 1)'
    BY <1>1, <1>2 DEF MeterFirst, MeterComes, Flow, AddMeter
  <2>1. /\ \A i \in DOMAIN chan[s] : chan[s][i] = Flow(id, m) => MeterComes(s, id, i)
        /\ \A x \in Threads :
             task[x].at = s /\ Flow(id, m) \in task[x].out =>
               AddMeter(id) \in task[x].out \/ MeterComes(s, id, Len(chan[s]) + 1)
    BY DEF EnforcedInv, MeterFirst
  <2>2. CASE chan'[s] = chan[s] /\ meters'[s] = meters[s]
    <3>1. \A i : MeterComes(s, id, i) => MeterComes(s, id, i)'
      BY <2>2 DEF MeterComes, AddMeter
    <3>2. MeterComes(s, id, Len(chan[s]) + 1) => MeterComes(s, id, Len(chan[s]) + 1)'
      BY <2>2 DEF MeterComes, AddMeter
    <3> QED BY <2>1, <2>2, <3>1, <3>2
  <2>3. CASE chan'[s] = <<>> /\ \A x \in Threads : task'[x].at = s => task'[x].out = {}
    BY <2>3
  <2> QED BY <2>2, <2>3
<1>7. Enforcing'
  <2> SUFFICES ASSUME NEW id \in ActionIds, NEW s \in datapaths' \intersect connected',
                      Live(id), id \notin preSession'[s], NEW m \in RequiredMatches(request[id], s)
               PROVE  Contended(id, m) \/ Placed(s, id, m)' \/ Pending(s, id, m)'
    BY <1>1, <1>2 DEF Enforcing, Placed, Pending, Awaits, Flow
  <2>1. s \in Switches /\ s # a /\ preSession'[s] = preSession[s]
    BY LiveIsIssued DEF TypeOK
  <2>2. Contended(id, m) \/ Placed(s, id, m) \/ Pending(s, id, m)
    BY <2>1 DEF EnforcedInv, Enforcing
  <2>3. Placed(s, id, m) => Placed(s, id, m)'
    BY <2>1 DEF Placed, Flow
  <2>4. ASSUME Pending(s, id, m) PROVE Pending(s, id, m)'
    <3>1. PICK x \in Threads : Awaits(task[x], s, id, m)
      BY <2>4 DEF Pending
    <3>2. Awaits(task'[x], s, id, m)
      BY <2>1, <3>1 DEF Awaits
    <3> QED BY <3>2 DEF Pending, Awaits, Flow
  <2> QED BY <2>2, <2>3, <2>4
<1> QED BY <1>4, <1>5, <1>6, <1>7 DEF EnforcedInv

LEMMA EnforcedInit == Init => EnforcedInv
<1> SUFFICES ASSUME Init PROVE EnforcedInv
  OBVIOUS
<1>1. \A s \in Switches : chan[s] = <<>>
  BY DEF Init
<1>2. \A th \in Threads : task[th].out = {}
  BY DEF Init, Idle, Loop
<1>3. NoDeletes /\ OnlyWanted
  BY <1>1, <1>2 DEF NoDeletes, OnlyWanted
<1>4. MeterFirst
  BY <1>1, <1>2 DEF MeterFirst
<1>5. Enforcing
  BY DEF Init, Enforcing
<1> QED BY <1>3, <1>4, <1>5 DEF EnforcedInv

\* A loop comes to switch s.
LEMMA VisitEnforces ==
  ASSUME TypeOK, OnlyIssued, OnlyIssued', OrphanInv, EnforcedInv,
         NEW th \in Threads, NEW s \in Switches,
         VisitDatapath(th, s) \/ VisitInterface(th, s), NEW out \in SUBSET Messages,
         task' = Visited(th, s, out),
         \A m \in out : m.id = task[th].id /\ Wanted(s, m),
         \A id, m : m[1] = "metered" /\ Flow(id, m) \in out => AddMeter(id) \in out,
         task[th].pc \in InstallerPC /\ s \in datapaths \intersect connected =>
           \A m \in RequiredMatches(request[task[th].id], s) : Flow(task[th].id, m) \in out
  PROVE  EnforcedInv'
<1> DEFINE t == Sending(task[th], task[th].left \ {s}, s, out)
<1>1. /\ task[th] \in TaskType /\ task[th].left \ {s} \subseteq Switches
      /\ task[th].pc # "idle" /\ task[th].out = {}
      /\ task' = [task EXCEPT ![th] = t]
      /\ UNCHANGED <<datapaths, active_actions, request, networkVars, historyVars>>
  BY DEF VisitDatapath, VisitInterface, Visited, TypeOK, TaskType
<1>2. /\ t \in TaskType /\ t.pc = task[th].pc /\ t.id = task[th].id
      /\ t.left = task[th].left \ {s} /\ t.out = out
      /\ out # {} => t.at = s
  BY <1>1, SendingTyped
<1> HIDE DEF t
<1>3. /\ UNCHANGED <<datapaths, connected, chan, table, meters, preSession, active_actions, aborted>>
      /\ Issued' = Issued
  BY <1>1 DEF networkVars, historyVars, Issued
<1>4. \A id \in Issued : Live(id)' => Live(id)
  BY <1>1, <1>2, <1>3, LiveStays, ZenonT(60)
<1>5. /\ \A m \in t.out : \A at : at = t.at => Wanted(at, m)'
      /\ \A m \in t.out : m.id \in Issued
  <2>1. task[th].id \in Issued /\ request' = request
    BY <1>1 DEF OnlyIssued, TaskIssued
  <2>2. \A m \in t.out : \A at : at = t.at => at = s
    BY <1>2
  <2> QED BY <1>2, <2>1, <2>2 DEF Wanted
<1>6. ASSUME NEW id \in ActionIds, NEW x \in datapaths \intersect connected, Live(id)',
             NEW m \in RequiredMatches(request'[id], x),
             id \notin Issued \/ Awaits(task[th], x, id, m)
      PROVE  Awaits(t, x, id, m)
  <2>1. id \in Issued
    BY <1>3, <1>6 DEF Live, Installing, OnlyIssued, TaskIssued
  <2>2. task[th].pc \in InstallerPC /\ task[th].id = id /\ x \in task[th].left
    BY <1>1, <1>6, <2>1 DEF Awaits
  <2>3. CASE x = s
    <3>1. Flow(id, m) \in out
      BY <1>1, <1>6, <2>2, <2>3
    <3> QED BY <1>2, <2>2, <2>3, <3>1 DEF Awaits
  <2>4. CASE x # s
    BY <1>2, <2>2, <2>4 DEF Awaits
  <2> QED BY <2>3, <2>4
<1> QED BY <1>1, <1>2, <1>3, <1>4, <1>5, <1>6, QuietEnforces

\* What an install sends to one switch: all its rules there, and the meter first
\* for a rate limit.
LEMMA InstallMessagesWanted ==
  ASSUME NEW req \in Requests \union {NoRequest}, NEW s \in Switches, NEW id, req = request[id]
  PROVE  /\ \A m \in InstallMessages(id, req, s) : Wanted(s, m)
         /\ \A i, m : m[1] = "metered" /\ Flow(i, m) \in InstallMessages(id, req, s)
              => AddMeter(i) \in InstallMessages(id, req, s)
         /\ \A m \in RequiredMatches(req, s) : Flow(id, m) \in InstallMessages(id, req, s)
<1>1. \A m \in RequiredMatches(req, s) : m[1] = "metered" => req.kind = "rate_limit"
  BY RequiredKinds
<1>2. ASSUME NEW m \in InstallMessages(id, req, s)
      PROVE  \/ m = AddMeter(id) /\ req.kind = "rate_limit"
             \/ \E n \in RequiredMatches(req, s) : m = Flow(id, n)
  BY DEF InstallMessages
<1>3. \A m \in InstallMessages(id, req, s) : Wanted(s, m)
  BY <1>2 DEF Wanted, Flow, AddMeter
<1>4. ASSUME NEW i, NEW m, m[1] = "metered", Flow(i, m) \in InstallMessages(id, req, s)
      PROVE  AddMeter(i) \in InstallMessages(id, req, s)
  <2>1. i = id /\ m \in RequiredMatches(req, s)
    BY <1>2, <1>4 DEF Flow, AddMeter
  <2> QED BY <1>1, <1>4, <2>1 DEF InstallMessages
<1> QED BY <1>3, <1>4 DEF InstallMessages

LEMMA VisitDatapathEnforces ==
  ASSUME TypeOK, OnlyIssued, OnlyIssued', OrphanInv, EnforcedInv,
         NEW th \in Threads, NEW s \in Switches, VisitDatapath(th, s)
  PROVE  EnforcedInv'
<1> DEFINE id == task[th].id
           msgs == IF task[th].pc = "install" THEN InstallMessages(id, request[id], s)
                   ELSE EraseMessages(id)
           out == Outgoing(s, msgs)
<1>1. id \in ActionIds /\ request[id] \in Requests \union {NoRequest}
      /\ task[th].pc \in {"install", "erase"}
  BY DEF VisitDatapath, OnlyIssued, TaskIssued, Issued, TypeOK
<1>2. msgs \subseteq Messages /\ \A m \in msgs : m.id = id
  BY <1>1, InstallMessagesTyped, EraseMessagesTyped
<1>3. task' = Visited(th, s, out)
  BY DEF VisitDatapath
<1>4. /\ \A m \in msgs : Wanted(s, m)
      /\ \A i, m : m[1] = "metered" /\ Flow(i, m) \in msgs => AddMeter(i) \in msgs
      /\ task[th].pc \in InstallerPC => \A m \in RequiredMatches(request[id], s) : Flow(id, m) \in msgs
  <2>1. CASE task[th].pc = "install"
    BY <1>1, <2>1, InstallMessagesWanted
  <2>2. CASE task[th].pc = "erase"
    BY <1>1, <2>2, EraseMessagesTyped
       DEF Wanted, Flow, InstallerPC, EraseMessages, DeleteFlows, DeleteMeter
  <2> QED BY <1>1, <2>1, <2>2
<1> HIDE DEF msgs
<1>5. out \in {{}, msgs} /\ (s \in connected => out = msgs)
  BY DEF Outgoing
<1>6. /\ out \in SUBSET Messages
      /\ \A m \in out : m.id = id /\ Wanted(s, m)
      /\ \A i, m : m[1] = "metered" /\ Flow(i, m) \in out => AddMeter(i) \in out
      /\ task[th].pc \in InstallerPC /\ s \in datapaths \intersect connected =>
           \A m \in RequiredMatches(request[id], s) : Flow(id, m) \in out
  BY <1>2, <1>4, <1>5
<1> HIDE DEF out
<1> QED BY <1>3, <1>6, VisitEnforces

LEMMA VisitInterfaceEnforces ==
  ASSUME TypeOK, OnlyIssued, OnlyIssued', OrphanInv, EnforcedInv,
         NEW th \in Threads, NEW s \in Switches, VisitInterface(th, s)
  PROVE  EnforcedInv'
<1> DEFINE id == task[th].id
           req == request[id]
<1>1. id \in ActionIds /\ req \in Requests /\ req.kind = "reroute_traffic"
  BY DEF VisitInterface, OnlyIssued, TaskIssued, Issued, TypeOK
<1>2. PICK ports \in {{}, PortMatches(req, s)} :
        task' = Visited(th, s,
          IF s \in datapaths
          THEN Outgoing(s, InstallMessages(id, req, s) \union {Flow(id, m) : m \in ports})
          ELSE {})
  BY DEF VisitInterface
<1>3. ports \subseteq Matches /\ \A m \in ports : m[1] = "port_drop"
  BY <1>1, PortMatchesTyped DEF PortMatches
<1> DEFINE msgs == InstallMessages(id, req, s) \union {Flow(id, m) : m \in ports}
           out == IF s \in datapaths THEN Outgoing(s, msgs) ELSE {}
<1>4. /\ msgs \subseteq Messages
      /\ \A m \in msgs : m.id = id /\ Wanted(s, m)
      /\ \A i, m : m[1] = "metered" /\ Flow(i, m) \in msgs => AddMeter(i) \in msgs
      /\ \A m \in RequiredMatches(req, s) : Flow(id, m) \in msgs
  <2>1. \A m \in {Flow(id, n) : n \in ports} : m \in Messages /\ m.id = id /\ Wanted(s, m)
    BY <1>1, <1>3 DEF Flow, Messages, Wanted
  <2>2. /\ \A m \in InstallMessages(id, req, s) : m.id = id /\ m \in Messages /\ Wanted(s, m)
        /\ \A m \in RequiredMatches(req, s) : Flow(id, m) \in InstallMessages(id, req, s)
    BY <1>1, InstallMessagesTyped, InstallMessagesWanted
  <2>3. ASSUME NEW i, NEW m, m[1] = "metered", Flow(i, m) \in msgs PROVE AddMeter(i) \in msgs
    <3>1. \A n \in ports : Flow(id, n) # Flow(i, m)
      BY <1>3, <2>3 DEF Flow
    <3>2. Flow(i, m) \in InstallMessages(id, req, s)
      BY <2>3, <3>1
    <3> QED BY <1>1, <2>3, <3>2, InstallMessagesWanted
  <2> HIDE DEF req
  <2> QED BY <2>1, <2>2, <2>3
<1>5. task' = Visited(th, s, out)
  BY <1>2
<1> HIDE DEF msgs
<1>6. out \in {{}, msgs} /\ (s \in datapaths \intersect connected => out = msgs)
  BY DEF Outgoing
<1>7. /\ out \in SUBSET Messages
      /\ \A m \in out : m.id = id /\ Wanted(s, m)
      /\ \A i, m : m[1] = "metered" /\ Flow(i, m) \in out => AddMeter(i) \in out
      /\ task[th].pc \in InstallerPC /\ s \in datapaths \intersect connected =>
           \A m \in RequiredMatches(request[id], s) : Flow(id, m) \in out
  BY <1>4, <1>6
<1> HIDE DEF out
<1> QED BY <1>5, <1>7, VisitEnforces

\* A thread ends, or goes on to the next action of a clear.
LEMMA EndEnforces ==
  ASSUME TypeOK, OnlyIssued, OnlyIssued', OrphanInv, EnforcedInv, NEW th \in Threads,
         NEW t \in TaskType, task' = [task EXCEPT ![th] = t], t.out = {}, t.pc \notin InstallerPC,
         UNCHANGED <<datapaths, connected, chan, table, meters, preSession, request>>,
         aborted \subseteq aborted',
         \A id \in active_actions' :
           id \in active_actions \/ (task[th].pc \in InstallerPC /\ id = task[th].id),
         task[th].pc = "erase" =>
           task[th].id \in aborted' \/ task[th].id \notin active_actions',
         task[th].pc \in InstallerPC =>
           task[th].id \in aborted' \/ (task[th].left = {} /\ task[th].out = {})
  PROVE  EnforcedInv'
<1>1. Issued' = Issued
  BY DEF Issued
<1>2. \A id \in Issued : Live(id)' => Live(id)
  BY LiveStays
<1>3. ASSUME NEW id \in ActionIds, NEW x \in datapaths \intersect connected, Live(id)',
             NEW m \in RequiredMatches(request'[id], x),
             id \notin Issued \/ Awaits(task[th], x, id, m)
      PROVE  Awaits(t, x, id, m)
  <2>1. id \in Issued /\ id \notin aborted'
    BY <1>1, <1>3 DEF Live, Installing, OnlyIssued, TaskIssued
  <2> QED BY <1>3, <2>1 DEF Awaits
<1> QED BY <1>1, <1>2, <1>3, QuietEnforces

LEMMA AnswerEnforces ==
  ASSUME TypeOK, OnlyIssued, OnlyIssued', OrphanInv, EnforcedInv, NEW th \in Threads,
         Register(th) \/ IterationError(th) \/ UnregisterTwice(th)
  PROVE  EnforcedInv'
<1>1. /\ Idle \in TaskType /\ Idle.out = {} /\ Idle.pc \notin InstallerPC
  BY IdleTyped DEF InstallerPC
<1>2. /\ task' = [task EXCEPT ![th] = Idle]
      /\ UNCHANGED <<datapaths, connected, chan, table, meters, preSession, request>>
      /\ aborted \subseteq aborted'
  BY DEF Register, IterationError, UnregisterTwice, networkVars, historyVars
<1>3. \A id \in active_actions' :
        id \in active_actions \/ (task[th].pc \in InstallerPC /\ id = task[th].id)
  BY DEF Register, IterationError, UnregisterTwice, InstallerPC
<1>4. /\ task[th].pc = "erase" => task[th].id \in aborted' \/ task[th].id \notin active_actions'
      /\ task[th].pc \in InstallerPC =>
           task[th].id \in aborted' \/ (task[th].left = {} /\ task[th].out = {})
  BY DEF Register, IterationError, UnregisterTwice, InstallerPC, LoopDone
<1> HIDE DEF Idle
<1> QED BY <1>1, <1>2, <1>3, <1>4, EndEnforces

LEMMA ClearEnforces ==
  ASSUME TypeOK, OnlyIssued, OnlyIssued', OrphanInv, EnforcedInv, NEW th \in Threads,
         NEW ids \in SUBSET ActionIds, NEW t \in Erase(ids), task' = [task EXCEPT ![th] = t],
         UNCHANGED <<datapaths, connected, chan, table, meters, preSession, request, aborted>>,
         active_actions' \subseteq active_actions,
         task[th].pc \notin InstallerPC,
         task[th].pc = "erase" => task[th].id \notin active_actions'
  PROVE  EnforcedInv'
<1>1. datapaths \subseteq Switches
  BY DEF TypeOK
<1>2. t \in TaskType /\ t.out = {} /\ (t = Idle \/ t.pc = "erase")
  BY <1>1, EraseTyped
<1>3. t.pc \notin InstallerPC
  BY <1>2, IdleTyped DEF InstallerPC
<1>4. \A id \in active_actions' :
        id \in active_actions \/ (task[th].pc \in InstallerPC /\ id = task[th].id)
  OBVIOUS
<1> QED BY <1>2, <1>3, <1>4, EndEnforces

LEMMA UnregisterEnforces ==
  ASSUME TypeOK, OnlyIssued, OnlyIssued', OrphanInv, EnforcedInv, NEW th \in Threads, Unregister(th)
  PROVE  EnforcedInv'
<1>1. PICK t \in Erase(task[th].todo) : task' = [task EXCEPT ![th] = t]
  BY DEF Unregister
<1>2. task[th].todo \in SUBSET ActionIds
  BY DEF TypeOK, TaskType
<1>3. /\ UNCHANGED <<datapaths, connected, chan, table, meters, preSession, request, aborted>>
      /\ active_actions' \subseteq active_actions /\ task[th].id \notin active_actions'
      /\ task[th].pc \notin InstallerPC
  BY DEF Unregister, networkVars, historyVars, InstallerPC
<1> QED BY <1>1, <1>2, <1>3, ClearEnforces

LEMMA BeginClearEnforces ==
  ASSUME TypeOK, OnlyIssued, OnlyIssued', OrphanInv, EnforcedInv, NEW th \in Threads,
         NEW ids \in SUBSET active_actions, BeginClear(th, ids)
  PROVE  EnforcedInv'
<1>1. PICK t \in Erase(ids) : task' = [task EXCEPT ![th] = t]
  BY DEF BeginClear
<1>2. ids \in SUBSET ActionIds
  BY DEF TypeOK
<1>3. /\ UNCHANGED <<datapaths, connected, chan, table, meters, preSession, request, aborted>>
      /\ active_actions' \subseteq active_actions /\ task[th].pc \notin InstallerPC
      /\ task[th].pc # "erase"
  BY DEF BeginClear, networkVars, historyVars, InstallerPC
<1> QED BY <1>1, <1>2, <1>3, ClearEnforces

\* A new installer has all its switches before it.
LEMMA BeginInstallerEnforces ==
  ASSUME TypeOK, OnlyIssued, OnlyIssued', OrphanInv, EnforcedInv, NEW th \in Threads,
         NEW req \in Offered, NEW id \in ActionIds,
         BeginInstall(th, req, id) \/ BeginReroute(th, req, id)
  PROVE  EnforcedInv'
<1>0. req \in Requests /\ req # NoRequest
  BY OfferedAssumption DEF Requests, NoRequest, PolicyKinds
<1>1. PICK pc \in InstallerPC, left \in SUBSET Switches, size \in Nat :
        /\ task' = [task EXCEPT ![th] = Loop(pc, id, left, size, {})]
        /\ \A s \in datapaths : RequiredMatches(req, s) # {} => s \in left
  <2>1. CASE BeginInstall(th, req, id)
    BY <2>1, DatapathsFinite DEF BeginInstall, InstallerPC, TypeOK
  <2>2. CASE BeginReroute(th, req, id)
    <3>1. {i[1] : i \in BlockedInterfaces(req)} \subseteq Switches
      BY <2>2, OfferedAssumption, InterfacesAssumption
         DEF BeginReroute, BlockedInterfaces, Requests, PolicyKinds
    <3>2. \A s \in datapaths : RequiredMatches(req, s) # {} => s \in {i[1] : i \in BlockedInterfaces(req)}
      BY <2>2 DEF BeginReroute, RequiredMatches
    <3> QED BY <2>2, <3>1, <3>2 DEF BeginReroute, InstallerPC
  <2> QED BY <2>1, <2>2
<1>2. /\ id \notin Issued /\ request' = [request EXCEPT ![id] = req]
      /\ task[th].pc \notin InstallerPC /\ task[th].pc # "erase"
      /\ UNCHANGED <<datapaths, connected, chan, table, meters, preSession, aborted, active_actions>>
  BY DEF BeginInstall, BeginReroute, networkVars, historyVars, InstallerPC
<1>3. /\ Issued' = Issued \union {id} /\ request'[id] = req
      /\ \A i \in Issued : request'[i] = request[i]
  BY <1>0, <1>2 DEF TypeOK, Issued
<1> DEFINE t == Loop(pc, id, left, size, {})
<1>4. /\ t \in TaskType /\ t.pc = pc /\ t.id = id /\ t.left = left /\ t.out = {}
  BY <1>1, LoopTyped DEF Loop, InstallerPC
<1>5. task' = [task EXCEPT ![th] = t]
  BY <1>1
<1> HIDE DEF t
<1>6. \A i \in Issued : Live(i)' => Live(i)
  BY <1>2, <1>4, <1>5, LiveStays
<1>7. ASSUME NEW i \in ActionIds, NEW x \in datapaths \intersect connected, Live(i)',
             NEW m \in RequiredMatches(request'[i], x),
             i \notin Issued \/ Awaits(task[th], x, i, m)
      PROVE  Awaits(t, x, i, m)
  <2>1. i \in Issued'
    BY <1>7 DEF Live, Installing, OnlyIssued, TaskIssued
  <2>2. i = id
    BY <1>2, <1>3, <1>7, <2>1 DEF Awaits
  <2> QED BY <1>1, <1>3, <1>4, <1>7, <2>2 DEF Awaits
<1> QED BY <1>2, <1>3, <1>4, <1>5, <1>6, <1>7, QuietEnforces

LEMMA NetworkEnforces ==
  ASSUME TypeOK, OnlyIssued, OrphanInv, EnforcedInv, NEW s \in Switches, Network(s)
  PROVE  EnforcedInv'
<1>0. datapaths \subseteq Switches
  BY DEF TypeOK
<1>1. CASE SwitchConnects(s)
  <2>1. /\ UNCHANGED <<active_actions, request, aborted, chan, table, meters>>
        /\ preSession' = [preSession EXCEPT ![s] = Issued]
        /\ connected' = connected \union {s} /\ datapaths' = datapaths \union {s}
        /\ task' = WithEntry(s)
    BY <1>1 DEF SwitchConnects
  <2>2. \A x \in Threads : /\ task'[x].pc = task[x].pc /\ task'[x].id = task[x].id
                           /\ task'[x].out = task[x].out
                           /\ task'[x].out # {} => (task'[x].at = task[x].at)
                           /\ task[x].left \subseteq (task'[x].left \union {s})
    BY <2>1, EntryThreads
  <2> QED BY <1>0, <2>1, <2>2, SessionEnforces, ZenonT(60)
<1>2. ASSUME NEW restarted \in BOOLEAN, ConnectionLost(s, restarted) PROVE EnforcedInv'
  <2>1. /\ UNCHANGED <<datapaths, active_actions, request, aborted>>
        /\ preSession' = [preSession EXCEPT ![s] = Issued]
        /\ connected' = connected \ {s}
        /\ chan'[s] = <<>>
        /\ \A x \in Switches :
             x # s => (chan'[x] = chan[x] /\ table'[x] = table[x] /\ meters'[x] = meters[x])
    BY <1>2 DEF ConnectionLost, TypeOK
  <2>2. \A x \in Threads : /\ task'[x].pc = task[x].pc /\ task'[x].id = task[x].id
                           /\ task'[x].left = task[x].left
                           /\ task[x].at = s => task'[x].out = {}
                           /\ task[x].at # s => task'[x] = task[x]
    BY <1>2, LossThreads
  <2>3. /\ \A x \in Threads : task'[x].out \in {task[x].out, {}}
        /\ \A x \in Threads : task'[x].out = task[x].out \/ task[x].at = s
        /\ \A x \in Threads : task'[x].out # {} => (task'[x].at = task[x].at)
        /\ \A x \in Threads : task'[x].at = s => task'[x].out = {}
    BY <2>2
  <2> QED BY <1>0, <2>1, <2>2, <2>3, SessionEnforces, ZenonT(60)
<1>3. CASE HandleDead(s)
  <2>1. /\ UNCHANGED <<active_actions, request, aborted, chan, table, meters, connected>>
        /\ preSession' = [preSession EXCEPT ![s] = Issued]
        /\ datapaths' = datapaths \ {s}
        /\ task' = WithoutEntry(s)
    BY <1>3 DEF HandleDead
  <2>2. \A x \in Threads : /\ task'[x].pc = task[x].pc /\ task'[x].id = task[x].id
                           /\ task'[x].out = task[x].out
                           /\ task'[x].out # {} => (task'[x].at = task[x].at)
                           /\ task[x].left \subseteq (task'[x].left \union {s})
    BY <2>1, NoEntryThreads
  <2> QED BY <1>0, <2>1, <2>2, SessionEnforces, ZenonT(60)
<1> QED BY <1>1, <1>2, <1>3, ReceiveEnforces DEF Network

LEMMA RequestEnforces ==
  ASSUME TypeOK, OnlyIssued, OnlyIssued', OrphanInv, EnforcedInv, NEW th \in Threads, Request(th)
  PROVE  EnforcedInv'
<1>1. CASE \E req \in Offered, id \in ActionIds :
             BeginInstall(th, req, id) \/ BeginReroute(th, req, id)
  BY <1>1, BeginInstallerEnforces
<1>2. CASE \E target \in Targets : ClearTarget(th, target)
  <2>1. PICK target \in Targets : ClearTarget(th, target)
    BY <1>2
  <2> DEFINE ids == {id \in active_actions : request[id].target = target}
  <2>2. ids \in SUBSET active_actions /\ BeginClear(th, ids)
    BY <2>1 DEF ClearTarget
  <2> HIDE DEF ids
  <2> QED BY <2>2, BeginClearEnforces
<1>3. CASE ClearAll(th)
  BY <1>3, BeginClearEnforces DEF ClearAll
<1> QED BY <1>1, <1>2, <1>3 DEF Request

-----------------------------------------------------------------------------
(* No meter outlives its rate limits.                                         *)

\* Thread state t clears id and has sent the delete of its meter to s, or has
\* passed s by.
PassedBy(t, s, id) ==
  /\ t.pc = "erase" /\ t.id = id /\ s \notin t.left
  /\ ~(t.at = s /\ DeleteMeter(id) \in t.out)

Passed(s, id) == \E th \in Threads : PassedBy(task[th], s, id)

\* The rate limit id answers for a meter on s.
Answers(s, id) ==
  /\ request[id].kind = "rate_limit"
  /\ \/ Excused(s, id)
     \/ /\ s \in datapaths /\ s \in connected
        /\ id \in active_actions \/ Installing(id)
        /\ ~Passed(s, id)

MetersAnswered ==
  \A s \in Switches, meter \in MeterIds :
    MeterStands(s, meter) => \E id \in Issued : MeterOf[id] = meter /\ Answers(s, id)

\* A delete of the meter follows message i on its way to s.
MeterDeleted(s, meter, i) ==
  \E j \in DOMAIN chan[s] : j > i /\ chan[s][j].op = "unmeter" /\ MeterOf[chan[s][j].id] = meter

LEMMA MeterStandsIf ==
  ASSUME NEW s, NEW meter
  PROVE  MeterStands(s, meter) <=>
           \/ meter \in meters[s] /\ ~MeterDeleted(s, meter, 0)
           \/ \E i \in DOMAIN chan[s] :
                /\ chan[s][i].op = "meter" /\ MeterOf[chan[s][i].id] = meter
                /\ ~MeterDeleted(s, meter, i)
BY DEF MeterStands, MeterDeleted

\* A switch that takes a message gains no meter that did not stand before.
LEMMA ReceiveKeepsMeters ==
  ASSUME TypeOK, NEW a \in Switches, SwitchReceives(a),
         NEW s \in Switches, NEW meter \in MeterIds, MeterStands(s, meter)'
  PROVE  MeterStands(s, meter)
<1> DEFINE h == Head(chan[a])
           n == Len(chan[a])
<1>1. /\ n \in Nat /\ n >= 1 /\ DOMAIN chan[a] = 1..n /\ DOMAIN chan'[a] = 1..(n - 1)
      /\ \A i \in 1..(n - 1) : chan'[a][i] = chan[a][i + 1]
      /\ h = chan[a][1] /\ h \in Messages
      /\ \A x \in Switches : x # a => chan'[x] = chan[x]
  <2>1. chan \in [Switches -> Seq(Messages)] /\ chan[a] \in Seq(Messages) /\ chan[a] # <<>>
    BY DEF TypeOK, SwitchReceives
  <2>2. chan'[a] = Tail(chan[a]) /\ \A x \in Switches : x # a => chan'[x] = chan[x]
    BY <2>1 DEF SwitchReceives
  <2> QED BY <2>1, <2>2
<1>2. /\ h.op \in {"flow", "unflow"} => meters'[a] = meters[a]
      /\ h.op = "meter" => meters'[a] = meters[a] \union {MeterOf[h.id]}
      /\ h.op = "unmeter" => meters'[a] = meters[a] \ {MeterOf[h.id]}
      /\ \A x \in Switches : x # a => meters'[x] = meters[x]
      /\ h.op \in {"flow", "meter", "unflow", "unmeter"}
  BY <1>1 DEF SwitchReceives, TypeOK, Messages
<1> HIDE DEF h, n
<1>3. CASE s # a
  <2>1. chan'[s] = chan[s] /\ meters'[s] = meters[s]
    BY <1>1, <1>2, <1>3
  <2> QED BY <2>1 DEF MeterStands
<1>4. CASE s = a
  \* A delete behind the next message is still behind after it was taken.
  <2>1. ASSUME NEW i \in 1..n, MeterDeleted(a, meter, i) PROVE MeterDeleted(a, meter, i - 1)'
    <3>1. PICK j \in DOMAIN chan[a] :
            j > i /\ chan[a][j].op = "unmeter" /\ MeterOf[chan[a][j].id] = meter
      BY <2>1 DEF MeterDeleted
    <3>2. j - 1 \in DOMAIN chan'[a] /\ j - 1 > i - 1 /\ chan'[a][j - 1] = chan[a][j]
      BY <1>1, <3>1
    <3> QED BY <3>1, <3>2 DEF MeterDeleted
  <2>2. MeterDeleted(a, meter, 0) =>
          (h.op = "unmeter" /\ MeterOf[h.id] = meter) \/ MeterDeleted(a, meter, 1)
    BY <1>1 DEF MeterDeleted
  <2>3. CASE \E i \in DOMAIN chan'[a] :
               /\ chan'[a][i].op = "meter" /\ MeterOf[chan'[a][i].id] = meter
               /\ ~MeterDeleted(a, meter, i)'
    <3>1. PICK i \in DOMAIN chan'[a] :
               /\ chan'[a][i].op = "meter" /\ MeterOf[chan'[a][i].id] = meter
               /\ ~MeterDeleted(a, meter, i)'
      BY <2>3
    <3>2. i + 1 \in 1..n /\ chan[a][i + 1] = chan'[a][i] /\ (i + 1) - 1 = i
      BY <1>1, <3>1
    <3>3. ~MeterDeleted(a, meter, i + 1)
      BY <2>1, <3>1, <3>2
    <3> QED BY <1>1, <1>4, <3>1, <3>2, <3>3, MeterStandsIf
  <2>4. CASE meter \in meters'[a] /\ ~MeterDeleted(a, meter, 0)'
    <3>1. ~MeterDeleted(a, meter, 1)
      BY <1>1, <2>1, <2>4
    <3>2. CASE h.op = "meter" /\ MeterOf[h.id] = meter
      <4>1. 1 \in DOMAIN chan[a]
        BY <1>1
      <4> QED BY <1>1, <1>4, <3>1, <3>2, <4>1, MeterStandsIf
    <3>3. CASE ~(h.op = "meter" /\ MeterOf[h.id] = meter)
      <4>1. meter \in meters[a] /\ ~(h.op = "unmeter" /\ MeterOf[h.id] = meter)
        BY <1>2, <2>4, <3>3
      <4> QED BY <1>4, <2>2, <3>1, <4>1, MeterStandsIf
    <3> QED BY <3>2, <3>3
  <2>5. MeterStands(a, meter)'
    BY <1>4
  <2> QED BY <2>3, <2>4, <2>5 DEF MeterStands, MeterDeleted
<1> QED BY <1>3, <1>4

\* What one more message on a connection changes.
LEMMA AppendChangesMeters ==
  ASSUME TypeOK, NEW a \in Switches, NEW msg \in Messages, UNCHANGED meters,
         chan' = [chan EXCEPT ![a] = Append(@, msg)],
         NEW s \in Switches, NEW meter \in MeterIds, MeterStands(s, meter)'
  PROVE  /\ \/ MeterStands(s, meter)
            \/ s = a /\ msg.op = "meter" /\ MeterOf[msg.id] = meter
         /\ ~(s = a /\ msg.op = "unmeter" /\ MeterOf[msg.id] = meter)
<1>0. chan \in [Switches -> Seq(Messages)] /\ chan[a] \in Seq(Messages)
  BY DEF TypeOK
<1>1. CASE s # a
  <2>1. chan'[s] = chan[s]
    BY <1>0, <1>1
  <2> QED BY <1>1, <2>1 DEF MeterStands
<1>2. CASE s = a
  <2> DEFINE n == Len(chan[a])
  <2>1. /\ n \in Nat
        /\ DOMAIN chan[a] = 1..n /\ DOMAIN chan'[a] = 1..(n + 1)
        /\ \A i \in 1..n : chan'[a][i] = chan[a][i]
        /\ chan'[a][n + 1] = msg
    <3>1. chan'[a] = Append(chan[a], msg)
      BY <1>0
    <3> QED BY <1>0, <3>1
  <2> HIDE DEF n
  <2>2. ASSUME NEW i \in 0..n, MeterDeleted(a, meter, i) PROVE MeterDeleted(a, meter, i)'
    <3>1. PICK j \in DOMAIN chan[a] :
            j > i /\ chan[a][j].op = "unmeter" /\ MeterOf[chan[a][j].id] = meter
      BY <2>2 DEF MeterDeleted
    <3>2. j \in DOMAIN chan'[a] /\ chan'[a][j] = chan[a][j]
      BY <2>1, <3>1
    <3> QED BY <3>1, <3>2 DEF MeterDeleted
  <2>3. ASSUME NEW i \in 0..n, msg.op = "unmeter", MeterOf[msg.id] = meter
        PROVE  MeterDeleted(a, meter, i)'
    <3>1. n + 1 \in DOMAIN chan'[a] /\ n + 1 > i
      BY <2>1
    <3> QED BY <2>1, <2>3, <3>1 DEF MeterDeleted
  <2>4. CASE meter \in meters'[a] /\ ~MeterDeleted(a, meter, 0)'
    <3>1. 0 \in 0..n
      BY <2>1
    <3> QED BY <1>2, <2>2, <2>3, <2>4, <3>1, MeterStandsIf
  <2>5. CASE \E i \in DOMAIN chan'[a] :
               /\ chan'[a][i].op = "meter" /\ MeterOf[chan'[a][i].id] = meter
               /\ ~MeterDeleted(a, meter, i)'
    <3>1. PICK i \in DOMAIN chan'[a] :
               /\ chan'[a][i].op = "meter" /\ MeterOf[chan'[a][i].id] = meter
               /\ ~MeterDeleted(a, meter, i)'
      BY <2>5
    <3>2. CASE i = n + 1
      BY <1>2, <2>1, <3>1, <3>2
    <3>3. CASE i # n + 1
      <4>1. i \in DOMAIN chan[a] /\ i \in 0..n /\ chan'[a][i] = chan[a][i]
        BY <2>1, <3>1, <3>3
      <4>2. ~MeterDeleted(a, meter, i) /\ ~(msg.op = "unmeter" /\ MeterOf[msg.id] = meter)
        BY <2>2, <2>3, <3>1, <4>1
      <4> QED BY <1>2, <3>1, <4>1, <4>2, MeterStandsIf
    <3> QED BY <3>2, <3>3
  <2>6. MeterStands(a, meter)'
    BY <1>2
  <2> QED BY <2>4, <2>5, <2>6 DEF MeterStands, MeterDeleted
<1> QED BY <1>1, <1>2

LEMMA AnswersInit == Init => MetersAnswered
<1> SUFFICES ASSUME Init, NEW s \in Switches, NEW meter \in MeterIds, MeterStands(s, meter)
             PROVE  FALSE
  BY DEF MetersAnswered
<1>1. chan[s] = <<>> /\ meters[s] = {}
  BY DEF Init
<1> QED BY <1>1 DEF MeterStands

\* A thread that sends nothing yet: who has answered goes on to, unless the clear
\* that removes it has been everywhere.
LEMMA QuietAnswers ==
  ASSUME TypeOK, MetersAnswered, NEW th \in Threads, NEW t \in TaskType,
         task' = [task EXCEPT ![th] = t],
         UNCHANGED <<datapaths, connected, chan, meters, preSession>>,
         aborted \subseteq aborted',
         Issued \subseteq Issued', \A id \in Issued : request'[id] = request[id],
         \A id \in Issued : id \in active_actions \/ Installing(id) =>
           \/ id \in aborted' \union active_actions'
           \/ Installing(id)'
           \/ \A s \in Switches : Passed(s, id),
         \A s \in datapaths \intersect connected, id \in Issued :
           request[id].kind = "rate_limit" /\ PassedBy(t, s, id) => PassedBy(task[th], s, id)
  PROVE  MetersAnswered'
<1>0. task'[th] = t /\ \A x \in Threads : x # th => task'[x] = task[x]
  BY DEF TypeOK
<1> SUFFICES ASSUME NEW s \in Switches, NEW meter \in MeterIds, MeterStands(s, meter)
             PROVE  \E id \in Issued' : MeterOf[id] = meter /\ Answers(s, id)'
  BY DEF MetersAnswered, MeterStands
<1>1. PICK id \in Issued : MeterOf[id] = meter /\ Answers(s, id)
  BY DEF MetersAnswered
<1>2. CASE Excused(s, id)
  BY <1>1, <1>2 DEF Answers, Excused
<1>3. CASE ~Excused(s, id)
  <2>1. /\ request[id].kind = "rate_limit" /\ s \in datapaths /\ s \in connected
        /\ id \in active_actions \/ Installing(id)
        /\ ~Passed(s, id)
    BY <1>1, <1>3 DEF Answers
  <2>2. ASSUME Passed(s, id)' PROVE FALSE
    <3>1. PICK x \in Threads : PassedBy(task'[x], s, id)
      BY <2>2 DEF Passed, PassedBy, DeleteMeter
    <3>2. CASE x = th
      <4>1. PassedBy(t, s, id)
        BY <1>0, <3>1, <3>2, Zenon
      <4>2. PassedBy(task[th], s, id)
        BY <2>1, <4>1
      <4> QED BY <2>1, <4>2 DEF Passed
    <3>3. CASE x # th
      <4>1. task'[x] = task[x]
        BY <1>0, <3>3
      <4>2. PassedBy(task[x], s, id)
        BY <3>1, <4>1, Zenon
      <4> QED BY <2>1, <4>2 DEF Passed
    <3> QED BY <3>2, <3>3
  <2>3. id \in aborted' \union active_actions' \/ Installing(id)'
    BY <2>1
  <2>4. /\ request'[id].kind = "rate_limit" /\ id \in Issued'
        /\ s \in datapaths' /\ s \in connected'
    BY <2>1
  <2> QED BY <1>1, <2>2, <2>3, <2>4 DEF Answers, Excused
<1> QED BY <1>2, <1>3

\* A step of a thread that is not an installer leaves the installers alone, and so
\* does one that keeps the thread's action.
LEMMA InstallingStays ==
  ASSUME TypeOK, NEW th \in Threads, NEW t, task' = [task EXCEPT ![th] = t],
         \/ task[th].pc \notin InstallerPC
         \/ t.pc = task[th].pc /\ t.id = task[th].id,
         NEW id, Installing(id)
  PROVE  Installing(id)'
<1>1. PICK x \in Threads : task[x].pc \in InstallerPC /\ task[x].id = id
  BY DEF Installing, InstallerPC
<1>2. task'[x].pc \in InstallerPC /\ task'[x].id = id
  BY <1>1 DEF TypeOK
<1> QED BY <1>2 DEF Installing, InstallerPC

LEMMA VisitAnswers ==
  ASSUME TypeOK, OnlyIssued, MetersAnswered, NEW th \in Threads, NEW s \in Switches,
         VisitDatapath(th, s) \/ VisitInterface(th, s)
  PROVE  MetersAnswered'
<1>0. /\ task[th] \in TaskType /\ task[th].left \ {s} \subseteq Switches
      /\ task[th].pc # "idle" /\ task[th].out = {} /\ task[th].id \in ActionIds
      /\ request[task[th].id] \in Requests \union {NoRequest}
      /\ task[th].pc = "reroute" => request[task[th].id] \in Requests
                                    /\ request[task[th].id].kind = "reroute_traffic"
      /\ UNCHANGED <<datapaths, active_actions, request, networkVars, historyVars>>
  BY DEF VisitDatapath, VisitInterface, TypeOK, TaskType, OnlyIssued, TaskIssued, Issued
<1>1. PICK out \in SUBSET Messages :
        /\ task' = Visited(th, s, out)
        /\ task[th].pc = "erase" /\ s \in connected /\ request[task[th].id].kind = "rate_limit" =>
             DeleteMeter(task[th].id) \in out
  <2>1. CASE VisitDatapath(th, s)
    <3> DEFINE id == task[th].id
               msgs == IF task[th].pc = "install" THEN InstallMessages(id, request[id], s)
                       ELSE EraseMessages(id)
    <3>1. msgs \subseteq Messages
      BY <1>0, InstallMessagesTyped, EraseMessagesTyped
    <3>2. task[th].pc = "erase" /\ request[id].kind = "rate_limit" => DeleteMeter(id) \in msgs
      BY DEF EraseMessages
    <3>3. task' = Visited(th, s, Outgoing(s, msgs))
      BY <2>1 DEF VisitDatapath
    <3> HIDE DEF msgs
    <3> QED BY <3>1, <3>2, <3>3 DEF Outgoing
  <2>2. CASE VisitInterface(th, s)
    <3> DEFINE id == task[th].id
               req == request[id]
    <3>1. PICK ports \in {{}, PortMatches(req, s)} :
            task' = Visited(th, s,
              IF s \in datapaths
              THEN Outgoing(s, InstallMessages(id, req, s) \union {Flow(id, m) : m \in ports})
              ELSE {})
      BY <2>2 DEF VisitInterface
    <3>2. task[th].pc = "reroute"
      BY <2>2 DEF VisitInterface
    <3>3. ports \subseteq Matches /\ InstallMessages(id, req, s) \subseteq Messages
      BY <1>0, <3>2, PortMatchesTyped, InstallMessagesTyped
    <3>4. {Flow(id, m) : m \in ports} \subseteq Messages
      BY <1>0, <3>3 DEF Flow, Messages
    <3> DEFINE out == IF s \in datapaths
                      THEN Outgoing(s, InstallMessages(id, req, s)
                                       \union {Flow(id, m) : m \in ports})
                      ELSE {}
    <3>5. out \in SUBSET Messages
      BY <3>3, <3>4 DEF Outgoing
    <3>6. task' = Visited(th, s, out)
      BY <3>1
    <3> HIDE DEF out
    <3> QED BY <3>2, <3>5, <3>6
  <2> QED BY <2>1, <2>2
<1> DEFINE t == Sending(task[th], task[th].left \ {s}, s, out)
<1>2. /\ t \in TaskType /\ t.pc = task[th].pc /\ t.id = task[th].id
      /\ t.left = task[th].left \ {s} /\ t.out = out
      /\ out # {} => t.at = s
  BY <1>0, SendingTyped
<1>3. task' = [task EXCEPT ![th] = t]
  BY <1>1 DEF Visited
<1> HIDE DEF t
<1>4. \A id : Installing(id) => Installing(id)'
  BY <1>2, <1>3, InstallingStays
<1>5. ASSUME NEW x \in datapaths \intersect connected, NEW id \in Issued,
             request[id].kind = "rate_limit", PassedBy(t, x, id)
      PROVE  PassedBy(task[th], x, id)
  BY <1>0, <1>1, <1>2, <1>5 DEF PassedBy
<1>6. /\ UNCHANGED <<datapaths, connected, chan, meters, preSession, request, aborted, active_actions>>
      /\ Issued' = Issued
  BY <1>0 DEF networkVars, historyVars, Issued
<1> QED BY <1>2, <1>3, <1>4, <1>5, <1>6, QuietAnswers

LEMMA AnswerAnswers ==
  ASSUME TypeOK, OnlyIssued, MetersAnswered, NEW th \in Threads,
         Register(th) \/ IterationError(th) \/ UnregisterTwice(th)
  PROVE  MetersAnswered'
<1>1. Idle \in TaskType /\ Idle.pc # "erase"
  BY IdleTyped
<1>2. /\ task' = [task EXCEPT ![th] = Idle]
      /\ UNCHANGED <<datapaths, connected, chan, meters, preSession, request>>
      /\ Issued' = Issued /\ aborted \subseteq aborted' /\ active_actions \subseteq active_actions'
      /\ task[th].pc \in InstallerPC => task[th].id \in aborted' \union active_actions'
  BY DEF Register, IterationError, UnregisterTwice, networkVars, historyVars, Issued, InstallerPC
<1> HIDE DEF Idle
<1>3. ASSUME NEW id \in Issued, Installing(id)
      PROVE  id \in aborted' \union active_actions' \/ Installing(id)'
  <2>1. PICK x \in Threads : task[x].pc \in InstallerPC /\ task[x].id = id
    BY <1>3 DEF Installing, InstallerPC
  <2>2. x # th => task'[x] = task[x]
    BY <1>2 DEF TypeOK
  <2> QED BY <1>2, <2>1, <2>2 DEF Installing, InstallerPC
<1> QED BY <1>1, <1>2, <1>3, QuietAnswers DEF PassedBy

LEMMA ClearAnswers ==
  ASSUME TypeOK, OnlyIssued, MetersAnswered, NEW th \in Threads, task[th].pc \notin InstallerPC,
         NEW ids \in SUBSET ActionIds, NEW t \in Erase(ids), task' = [task EXCEPT ![th] = t],
         UNCHANGED <<datapaths, connected, chan, meters, preSession, request, aborted>>,
         \A id \in active_actions : id \in active_actions' \/ \A s \in Switches : Passed(s, id)
  PROVE  MetersAnswered'
<1>1. datapaths \subseteq Switches
  BY DEF TypeOK
<1>2. t \in TaskType /\ (t.pc = "erase" => t.left = datapaths)
  BY <1>1, EraseTyped, IdleTyped
<1>3. \A id : Installing(id) => Installing(id)'
  BY InstallingStays
<1>4. Issued' = Issued
  BY DEF Issued
<1> QED BY <1>2, <1>3, <1>4, QuietAnswers DEF PassedBy

LEMMA UnregisterAnswers ==
  ASSUME TypeOK, OnlyIssued, MetersAnswered, NEW th \in Threads, Unregister(th)
  PROVE  MetersAnswered'
<1>1. PICK t \in Erase(task[th].todo) : task' = [task EXCEPT ![th] = t]
  BY DEF Unregister
<1>2. /\ task[th].todo \in SUBSET ActionIds
      /\ UNCHANGED <<datapaths, connected, chan, meters, preSession, request, aborted>>
      /\ task[th].pc = "erase" /\ task[th].pc \notin InstallerPC
      /\ active_actions' = active_actions \ {task[th].id}
      /\ task[th].left = {} /\ task[th].out = {}
  BY DEF TypeOK, TaskType, Unregister, LoopDone, networkVars, historyVars, InstallerPC
<1>3. \A s \in Switches : Passed(s, task[th].id)
  BY <1>2 DEF Passed, PassedBy
<1> QED BY <1>1, <1>2, <1>3, ClearAnswers

LEMMA BeginClearAnswers ==
  ASSUME TypeOK, OnlyIssued, MetersAnswered, NEW th \in Threads,
         NEW ids \in SUBSET active_actions, BeginClear(th, ids)
  PROVE  MetersAnswered'
<1>1. PICK t \in Erase(ids) : task' = [task EXCEPT ![th] = t]
  BY DEF BeginClear
<1>2. /\ ids \in SUBSET ActionIds /\ task[th].pc \notin InstallerPC
      /\ UNCHANGED <<datapaths, connected, chan, meters, preSession, request, aborted, active_actions>>
  BY DEF TypeOK, BeginClear, networkVars, historyVars, InstallerPC
<1> QED BY <1>1, <1>2, ClearAnswers

LEMMA BeginInstallerAnswers ==
  ASSUME TypeOK, OnlyIssued, MetersAnswered, NEW th \in Threads,
         NEW req \in Offered, NEW id \in ActionIds,
         BeginInstall(th, req, id) \/ BeginReroute(th, req, id)
  PROVE  MetersAnswered'
<1>0. req # NoRequest
  BY OfferedAssumption DEF Requests, NoRequest, PolicyKinds
<1>1. PICK pc \in InstallerPC, left \in SUBSET Switches, size \in Nat :
        task' = [task EXCEPT ![th] = Loop(pc, id, left, size, {})]
  <2>1. CASE BeginInstall(th, req, id)
    BY <2>1, DatapathsFinite DEF BeginInstall, InstallerPC, TypeOK
  <2>2. CASE BeginReroute(th, req, id)
    <3>1. {i[1] : i \in BlockedInterfaces(req)} \subseteq Switches
      BY <2>2, OfferedAssumption, InterfacesAssumption
         DEF BeginReroute, BlockedInterfaces, Requests, PolicyKinds
    <3> QED BY <2>2, <3>1 DEF BeginReroute, InstallerPC
  <2> QED BY <2>1, <2>2
<1>2. /\ id \notin Issued /\ request' = [request EXCEPT ![id] = req]
      /\ task[th].pc \notin InstallerPC
      /\ UNCHANGED <<datapaths, connected, chan, meters, preSession, aborted, active_actions>>
  BY DEF BeginInstall, BeginReroute, networkVars, historyVars, InstallerPC
<1>3. Issued \subseteq Issued' /\ \A i \in Issued : request'[i] = request[i]
  BY <1>0, <1>2 DEF TypeOK, Issued
<1> DEFINE t == Loop(pc, id, left, size, {})
<1>4. t \in TaskType /\ t.pc # "erase"
  BY <1>1, LoopTyped DEF Loop, InstallerPC
<1>5. task' = [task EXCEPT ![th] = t]
  BY <1>1
<1> HIDE DEF t
<1>6. \A i : Installing(i) => Installing(i)'
  BY <1>2, <1>5, InstallingStays
<1> QED BY <1>2, <1>3, <1>4, <1>5, <1>6, QuietAnswers DEF PassedBy

\* A message goes out: an added meter is answered for by its sender, a deleted one
\* stands no more.
LEMMA SendAnswers ==
  ASSUME TypeOK, OnlyIssued, OrphanInv, OnlyWanted, MetersAnswered, NEW th \in Threads, Send(th)
  PROVE  MetersAnswered'
<1> DEFINE msg == NextMessage(task[th].out)
           a == task[th].at
           out == task[th].out \ {msg}
           t == Sending(task[th], task[th].left, a, out)
<1>1. /\ task \in [Threads -> TaskType] /\ task[th] \in TaskType
      /\ task[th].out \in SUBSET Messages /\ task[th].out # {}
      /\ task[th].left \subseteq Switches /\ a \in Switches \union {NoAction}
  BY DEF Send, TypeOK, TaskType
<1>2. msg \in task[th].out /\ msg \in Messages
  BY <1>1, NextMessageExists
<1>3. /\ chan' = [chan EXCEPT ![a] = Append(@, msg)]
      /\ task' = [task EXCEPT ![th] = t]
      /\ UNCHANGED <<datapaths, active_actions, request, connected, meters, preSession, aborted>>
      /\ Issued' = Issued
  BY DEF Send, historyVars, Issued
<1>4. TaskSends(task[th])
  BY DEF OrphanInv
<1>5. /\ a \in Switches /\ a \in connected /\ (a \in datapaths \/ Excused(a, task[th].id))
      /\ msg.id = task[th].id /\ task[th].pc # "idle"
      /\ msg.op = "unmeter" => msg = DeleteMeter(task[th].id)
      /\ msg.op = "meter" => task[th].pc \in InstallerPC
  BY <1>1, <1>2, <1>4 DEF TaskSends, TypeOK, TaskType, InstallerPC, Messages, DeleteMeter
<1>6. /\ t \in TaskType /\ t.pc = task[th].pc /\ t.id = task[th].id
      /\ t.left = task[th].left /\ t.out = out
      /\ out # {} => t.at = a
  BY <1>1, SendingTyped
<1> HIDE DEF msg, a, out, t
<1>7. task'[th] = t /\ \A x \in Threads : x # th => task'[x] = task[x]
  BY <1>1, <1>3
<1>8. /\ \A id : Installing(id)' <=> Installing(id)
      /\ task[th].id \in Issued
  BY <1>5, <1>6, <1>7 DEF Installing, OnlyIssued, TaskIssued
<1> SUFFICES ASSUME NEW s \in Switches, NEW meter \in MeterIds, MeterStands(s, meter)'
             PROVE  \E id \in Issued : MeterOf[id] = meter /\ Answers(s, id)'
  BY <1>3 DEF MetersAnswered
<1>9. /\ \/ MeterStands(s, meter)
         \/ s = a /\ msg.op = "meter" /\ MeterOf[msg.id] = meter
      /\ ~(s = a /\ msg.op = "unmeter" /\ MeterOf[msg.id] = meter)
  <2>1. a \in Switches /\ msg \in Messages /\ meters' = meters
        /\ chan' = [chan EXCEPT ![a] = Append(@, msg)]
    BY <1>2, <1>3, <1>5
  <2> QED BY <2>1, AppendChangesMeters, ZenonT(60)
<1>10. CASE MeterStands(s, meter)
  <2>1. PICK id \in Issued : MeterOf[id] = meter /\ Answers(s, id)
    BY <1>10 DEF MetersAnswered
  <2>2. ASSUME Passed(s, id)' PROVE Passed(s, id)
    <3>1. PICK x \in Threads : PassedBy(task'[x], s, id)
      BY <2>2 DEF Passed, PassedBy, DeleteMeter
    <3>2. CASE x = th
      <4>1. PassedBy(t, s, id)
        BY <1>7, <3>1, <3>2, Zenon
      <4>2. ~(s = a /\ msg = DeleteMeter(id))
        BY <1>9, <2>1 DEF DeleteMeter
      <4>3. PassedBy(task[th], s, id)
        BY <1>6, <4>1, <4>2 DEF PassedBy, a, out
      <4> QED BY <4>3 DEF Passed
    <3>3. CASE x # th
      <4>1. task'[x] = task[x]
        BY <1>7, <3>3
      <4>2. PassedBy(task[x], s, id)
        BY <3>1, <4>1, Zenon
      <4> QED BY <4>2 DEF Passed
    <3> QED BY <3>2, <3>3
  <2> QED BY <1>3, <1>8, <2>1, <2>2 DEF Answers, Excused
<1>11. CASE s = a /\ msg.op = "meter" /\ MeterOf[msg.id] = meter
  <2> DEFINE id == task[th].id
  <2>1. Installing(id) /\ request[id].kind = "rate_limit"
    BY <1>2, <1>5, <1>11 DEF Installing, InstallerPC, OnlyWanted, Wanted, a
  <2>3. PICK i \in Issued : i = id
    BY <1>8
  <2>4. ~Passed(s, i)'
    <3>1. ASSUME NEW x \in Threads, PassedBy(task'[x], s, i) PROVE FALSE
      <4>1. task[x].pc = "erase" /\ task[x].id = i
        BY <1>6, <1>7, <3>1 DEF PassedBy
      <4> QED BY <2>1, <2>3, <4>1 DEF OrphanInv, OneInstaller
    <3> QED BY <3>1 DEF Passed, PassedBy, DeleteMeter
  <2>5. /\ request'[i].kind = "rate_limit" /\ Installing(i)' /\ s \in connected'
        /\ s \in datapaths' \/ Excused(s, i)'
    BY <1>3, <1>5, <1>8, <1>11, <2>1, <2>3 DEF Excused
  <2> QED BY <1>5, <1>11, <2>3, <2>4, <2>5 DEF Answers
<1> QED BY <1>9, <1>10, <1>11

LEMMA ReceiveAnswers ==
  ASSUME TypeOK, MetersAnswered, NEW a \in Switches, SwitchReceives(a)
  PROVE  MetersAnswered'
<1>1. /\ UNCHANGED <<datapaths, active_actions, request, task, connected, preSession, aborted>>
      /\ Issued' = Issued
  BY DEF SwitchReceives, controllerVars, historyVars, Issued
<1>2. \A s, id : Answers(s, id)' <=> Answers(s, id)
  BY <1>1 DEF Answers, Excused, Installing, Passed, PassedBy, DeleteMeter
<1> SUFFICES ASSUME NEW s \in Switches, NEW meter \in MeterIds, MeterStands(s, meter)'
             PROVE  \E id \in Issued : MeterOf[id] = meter /\ Answers(s, id)'
  BY <1>1 DEF MetersAnswered
<1>3. MeterStands(s, meter)
  BY ReceiveKeepsMeters, Zenon
<1> QED BY <1>2, <1>3 DEF MetersAnswered

\* The session of switch a changes: whatever meter is left on it, some rate limit
\* brought it, and is excused.
LEMMA SessionAnswers ==
  ASSUME TypeOK, OnlyIssued, OrphanInv, OnlyWanted, MetersAnswered, NEW a \in Switches,
         UNCHANGED <<active_actions, request, aborted>>,
         preSession' = [preSession EXCEPT ![a] = Issued],
         \A x \in Switches : x # a => (x \in datapaths => x \in datapaths'),
         \A x \in Switches : x # a => (x \in connected => x \in connected'),
         \A x \in Switches : x # a => (chan'[x] = chan[x] /\ meters'[x] = meters[x]),
         \/ chan'[a] = chan[a] /\ meters'[a] = meters[a]
         \/ chan'[a] = <<>> /\ meters'[a] \subseteq meters[a],
         \A x \in Threads : task'[x].pc = task[x].pc,
         \A x \in Threads : task'[x].id = task[x].id,
         \A x \in Threads : task'[x].out = task[x].out \/ task[x].at = a,
         \A x \in Threads : task'[x].out # {} => (task'[x].at = task[x].at),
         \A x \in Threads : task[x].left \subseteq (task'[x].left \union {a})
  PROVE  MetersAnswered'
<1>1. Issued' = Issued /\ \A id : (Installing(id)' <=> Installing(id))
  BY DEF Issued, Installing
<1> SUFFICES ASSUME NEW s \in Switches, NEW meter \in MeterIds, MeterStands(s, meter)'
             PROVE  \E id \in Issued : MeterOf[id] = meter /\ Answers(s, id)'
  BY <1>1 DEF MetersAnswered
<1>2. CASE s # a
  <2>1. chan'[s] = chan[s] /\ meters'[s] = meters[s]
    BY <1>2
  <2>2. MeterStands(s, meter)
    BY <2>1 DEF MeterStands
  <2>3. PICK id \in Issued : MeterOf[id] = meter /\ Answers(s, id)
    BY <2>2 DEF MetersAnswered
  <2>4. ASSUME Passed(s, id)' PROVE Passed(s, id)
    <3>1. PICK x \in Threads : PassedBy(task'[x], s, id)
      BY <2>4 DEF Passed, PassedBy, DeleteMeter
    <3>2. PassedBy(task[x], s, id)
      BY <1>2, <3>1 DEF PassedBy
    <3> QED BY <3>2 DEF Passed
  <2>5. Excused(s, id) => Excused(s, id)'
    BY <1>2 DEF Excused, TypeOK
  <2> QED BY <1>1, <1>2, <2>3, <2>4, <2>5 DEF Answers
<1>3. CASE s = a
  <2>1. \A id \in Issued : Excused(a, id)'
    BY DEF Excused, TypeOK
  <2>2. \E id \in Issued : MeterOf[id] = meter /\ request[id].kind = "rate_limit"
    <3>1. CASE MeterStands(a, meter)
      BY <3>1 DEF MetersAnswered, Answers
    <3>2. CASE ~MeterStands(a, meter)
      <4>1. chan'[a] = <<>> /\ meter \in meters[a]
        BY <1>3, <3>2 DEF MeterStands
      <4>2. PICK j \in DOMAIN chan[a] : chan[a][j].op = "unmeter" /\ MeterOf[chan[a][j].id] = meter
        BY <3>2, <4>1, MeterStandsIf DEF MeterDeleted
      <4>3. chan[a][j].id \in Issued /\ request[chan[a][j].id].kind = "rate_limit"
        BY <4>2 DEF OrphanInv, RulesIssued, OnlyWanted, Wanted
      <4> QED BY <4>2, <4>3
    <3> QED BY <3>1, <3>2
  <2>3. PICK id \in Issued : MeterOf[id] = meter /\ request[id].kind = "rate_limit"
    BY <2>2
  <2> QED BY <1>3, <2>1, <2>3 DEF Answers
<1> QED BY <1>2, <1>3

LEMMA NetworkAnswers ==
  ASSUME TypeOK, OnlyIssued, OrphanInv, OnlyWanted, MetersAnswered, NEW s \in Switches, Network(s)
  PROVE  MetersAnswered'
<1>1. CASE SwitchConnects(s)
  <2>1. /\ UNCHANGED <<active_actions, request, aborted, chan, meters>>
        /\ preSession' = [preSession EXCEPT ![s] = Issued]
        /\ connected' = connected \union {s} /\ datapaths' = datapaths \union {s}
        /\ task' = WithEntry(s)
    BY <1>1 DEF SwitchConnects
  <2>2. \A x \in Threads : /\ task'[x].pc = task[x].pc /\ task'[x].id = task[x].id
                           /\ task'[x].out = task[x].out
                           /\ task'[x].out # {} => (task'[x].at = task[x].at)
                           /\ task[x].left \subseteq (task'[x].left \union {s})
    BY <2>1, EntryThreads
  <2> QED BY <2>1, <2>2, SessionAnswers, ZenonT(60)
<1>2. ASSUME NEW restarted \in BOOLEAN, ConnectionLost(s, restarted) PROVE MetersAnswered'
  <2>1. /\ UNCHANGED <<datapaths, active_actions, request, aborted>>
        /\ preSession' = [preSession EXCEPT ![s] = Issued]
        /\ connected' = connected \ {s}
        /\ chan'[s] = <<>> /\ meters'[s] \subseteq meters[s]
        /\ \A x \in Switches : x # s => (chan'[x] = chan[x] /\ meters'[x] = meters[x])
    BY <1>2 DEF ConnectionLost, TypeOK
  <2>2. \A x \in Threads : /\ task'[x].pc = task[x].pc /\ task'[x].id = task[x].id
                           /\ task'[x].left = task[x].left
                           /\ task[x].at = s => task'[x].out = {}
                           /\ task[x].at # s => task'[x] = task[x]
    BY <1>2, LossThreads
  <2>3. /\ \A x \in Threads : task'[x].out = task[x].out \/ task[x].at = s
        /\ \A x \in Threads : task'[x].out # {} => (task'[x].at = task[x].at)
    BY <2>2
  <2>4. \A x \in Switches : x # s => (x \in connected => x \in connected')
    BY <2>1
  <2> QED BY <2>1, <2>2, <2>3, <2>4, SessionAnswers, ZenonT(60)
<1>3. CASE HandleDead(s)
  <2>1. /\ UNCHANGED <<active_actions, request, aborted, chan, meters, connected>>
        /\ preSession' = [preSession EXCEPT ![s] = Issued]
        /\ datapaths' = datapaths \ {s}
        /\ task' = WithoutEntry(s)
    BY <1>3 DEF HandleDead
  <2>2. \A x \in Threads : /\ task'[x].pc = task[x].pc /\ task'[x].id = task[x].id
                           /\ task'[x].out = task[x].out
                           /\ task'[x].out # {} => (task'[x].at = task[x].at)
                           /\ task[x].left \subseteq (task'[x].left \union {s})
    BY <2>1, NoEntryThreads
  <2>3. \A x \in Switches : x # s => (x \in datapaths => x \in datapaths')
    BY <2>1
  <2> QED BY <2>1, <2>2, <2>3, SessionAnswers, ZenonT(60)
<1> QED BY <1>1, <1>2, <1>3, ReceiveAnswers DEF Network

LEMMA RequestAnswers ==
  ASSUME TypeOK, OnlyIssued, MetersAnswered, NEW th \in Threads, Request(th)
  PROVE  MetersAnswered'
<1>1. CASE \E req \in Offered, id \in ActionIds :
             BeginInstall(th, req, id) \/ BeginReroute(th, req, id)
  BY <1>1, BeginInstallerAnswers
<1>2. CASE \E target \in Targets : ClearTarget(th, target)
  <2>1. PICK target \in Targets : ClearTarget(th, target)
    BY <1>2
  <2> DEFINE ids == {id \in active_actions : request[id].target = target}
  <2>2. ids \in SUBSET active_actions /\ BeginClear(th, ids)
    BY <2>1 DEF ClearTarget
  <2> HIDE DEF ids
  <2> QED BY <2>2, BeginClearAnswers
<1>3. CASE ClearAll(th)
  BY <1>3, BeginClearAnswers DEF ClearAll
<1> QED BY <1>1, <1>2, <1>3 DEF Request

ControllerInv == TypeOK /\ OnlyIssued /\ OrphanInv /\ EnforcedInv /\ MetersAnswered

\* The handlers, the switches and the lost connections keep all of it.
LEMMA ControllerStep == ControllerInv /\ [Next]_vars => ControllerInv'
<1>1. ASSUME ControllerInv, UNCHANGED vars PROVE ControllerInv'
  <2> USE DEF ControllerInv
  <2>1. OrphanInv'
    BY <1>1 DEF vars, OrphanInv, TaskSends, OneInstaller, RulesIssued, RulesReachable,
                EraseProgress, NoOrphanRules, Accounted, Excused, Stands, DeletedLater,
                Installing, Issued
  <2>2. TypeOK' /\ OnlyIssued'
    BY <1>1 DEF vars, TypeOK, OnlyIssued, TaskIssued, Issued
  <2>3. NoDeletes' /\ OnlyWanted'
    BY <1>1 DEF vars, EnforcedInv, NoDeletes, OnlyWanted, Live, Installing, Erasing, Wanted
  <2>4. MeterFirst'
    BY <1>1 DEF vars, EnforcedInv, MeterFirst, MeterComes, Live, Installing, Erasing,
                Contended, Issued
  <2>5. Enforcing'
    BY <1>1 DEF vars, EnforcedInv, Enforcing, Live, Installing, Erasing, Contended, Issued,
                Placed, Pending, Awaits
  <2>6. MetersAnswered'
    BY <1>1 DEF vars, MetersAnswered, MeterStands, Answers, Excused, Installing, Issued,
                Passed, PassedBy
  <2> QED BY <2>1, <2>2, <2>3, <2>4, <2>5, <2>6 DEF EnforcedInv
<1>2. ASSUME ControllerInv, NEW th \in Threads, Work(th) PROVE ControllerInv'
  <2>1. TypeOK /\ OnlyIssued /\ OrphanInv /\ EnforcedInv /\ OnlyWanted /\ MetersAnswered
    BY <1>2 DEF ControllerInv, EnforcedInv
  <2>2. TypeOK' /\ OnlyIssued' /\ OrphanInv'
    BY <1>2, <2>1, WorkTyped, WorkStep
  <2>3. EnforcedInv'
    BY <1>2, <2>1, <2>2, VisitDatapathEnforces, VisitInterfaceEnforces, SendEnforces,
       AnswerEnforces, UnregisterEnforces DEF Work
  <2>4. MetersAnswered'
    BY <1>2, <2>1, VisitAnswers, SendAnswers, AnswerAnswers, UnregisterAnswers DEF Work
  <2> QED BY <2>2, <2>3, <2>4 DEF ControllerInv
<1>3. ASSUME ControllerInv, NEW th \in Threads, Request(th) PROVE ControllerInv'
  BY <1>3, RequestTyped, RequestStep, RequestEnforces, RequestAnswers DEF ControllerInv
<1>4. ASSUME ControllerInv, NEW s \in Switches, Network(s) PROVE ControllerInv'
  BY <1>4, NetworkTyped, NetworkStep, NetworkEnforces, NetworkAnswers DEF ControllerInv, EnforcedInv
<1> QED BY <1>1, <1>2, <1>3, <1>4 DEF Next

\* The invariant behind the two theorems that follow, which say what it means.
THEOREM ControllerInvariant == Spec => []ControllerInv
<1>1. Init => ControllerInv
  BY InitTyped, OrphanInit, EnforcedInit, AnswersInit DEF ControllerInv
<1> QED BY <1>1, ControllerStep, PTL DEF Spec

\* A registered policy is in force, for any number of switches, threads and
\* overlapping requests, whatever connections are lost and made: the property
\* RegisteredIsEnforced of _apply_*, _clear_* and the two event handlers.
THEOREM RegisteredMeansEnforced == Spec => []RegisteredIsEnforced
<1>1. ControllerInv => RegisteredIsEnforced
  <2> SUFFICES ASSUME ControllerInv, NEW id \in active_actions, NEW s \in datapaths \intersect connected,
                      id \notin preSession[s] \union aborted, ~Erasing(id),
                      NEW m \in RequiredMatches(request[id], s), ~Contended(id, m)
               PROVE  Stands(s, id, m)
    BY DEF RegisteredIsEnforced
  <2> USE DEF ControllerInv
  <2>1. Live(id) /\ id \in ActionIds /\ s \in Switches
    BY DEF Live, TypeOK
  <2>2. ~Pending(s, id, m)
    BY DEF OrphanInv, OneInstaller, Pending, Awaits, Installing, InstallerPC
  <2>3. Placed(s, id, m)
    BY <2>1, <2>2 DEF EnforcedInv, Enforcing
  <2>4. \A i \in DOMAIN chan[s] : chan[s][i] # DeleteFlows(id)
    BY <2>1 DEF EnforcedInv, NoDeletes, DeleteFlows
  <2> QED BY <2>3, <2>4 DEF Placed, Stands, DeletedLater
<1> QED BY <1>1, ControllerInvariant, PTL

\* No meter outlives the rate limits that use it, not even one that two of them
\* share: the property NoOrphanMeters of _upsert_meter and _delete_meter.
THEOREM NoMeterOutlives == Spec => []NoOrphanMeters
<1>1. ControllerInv => NoOrphanMeters
  <2> SUFFICES ASSUME ControllerInv, NEW s \in Switches, NEW meter \in MeterIds, MeterStands(s, meter)
               PROVE  \E id \in Issued : MeterOf[id] = meter /\ Accounted(s, id)
    BY DEF NoOrphanMeters
  <2>1. PICK id \in Issued : MeterOf[id] = meter /\ Answers(s, id)
    BY DEF ControllerInv, MetersAnswered
  <2>2. Accounted(s, id)
    BY <2>1 DEF Answers, Excused, Accounted
  <2> QED BY <2>1, <2>2
<1> QED BY <1>1, ControllerInvariant, PTL

-----------------------------------------------------------------------------
(* The stage runner and its calls.                                            *)

Steps == {"teardown", "delete", "post", "verify", "defend", "execute", "over"}

Calls ==
  [kind : {"clear"}, call : 1..calls] \union [kind : {"install"}, call : 1..calls, req : Offered]

Resets == [goal : SUBSET ActionIds, ok : BOOLEAN, success : BOOLEAN]

RunnerTyped ==
  /\ reset \in Resets
  /\ calls \in Nat /\ (step # "teardown" => calls # 0)
  /\ step \in Steps
  /\ inbox \subseteq Calls
  /\ serving \in [Threads -> 0..calls]

\* A call is in one place: it waits for a thread, or one thread serves it, or it
\* has been answered.
OneCarrier ==
  /\ \A m, n \in inbox : m.call = n.call => m = n
  /\ \A x, y \in Threads : serving[x] # 0 /\ serving[x] = serving[y] => x = y
  /\ \A m \in inbox, x \in Threads : m.call # serving[x]

Answered == step \in Waiting /\ reply # "none" => ~UnderWay

\* The present call is what its step says, and a thread that clears everything
\* still has before it what the reset is to clear.
PresentCall ==
  /\ \A m \in inbox : m.call = calls =>
       (step \in {"delete", "post"} => m.kind = "clear") /\ (step = "execute" => m.kind = "install")
  /\ \A x \in Threads : serving[x] = calls =>
       /\ step \in {"delete", "post"} =>
            /\ task[x].pc = "erase"
            /\ reset.goal \intersect active_actions \subseteq {task[x].id} \union task[x].todo
       /\ step = "execute" => task[x].pc \in InstallerPC /\ task[x].id = mine

\* Nothing that a reset is about comes back.
GoalIsPast == reset.goal \subseteq Issued /\ \A id \in reset.goal : ~Installing(id)

GoalIsGone ==
  \/ step \in {"delete", "post"} /\ reply = "ok"
  \/ reset.ok
  \/ reset.success
  => reset.goal \intersect active_actions = {}

\* Without a clear that was given up, none is under way outside the teardown.
NoStrayClears ==
  ~givenUp =>
    /\ \A m \in inbox : m.kind = "clear" => m.call = calls /\ step \in {"delete", "post"}
    /\ \A x \in Threads :
         task[x].pc = "erase" => serving[x] = calls /\ step \in {"delete", "post"}

DefenceKept ==
  /\ step \in {"delete", "post", "verify", "defend"} => mine = NoAction
  /\ step \in {"execute", "over"} /\ reply = "ok" /\ mine # NoAction /\ ~givenUp =>
       mine \in active_actions

RunnerInv ==
  /\ RunnerTyped /\ OneCarrier /\ Answered /\ PresentCall
  /\ GoalIsPast /\ GoalIsGone /\ NoStrayClears /\ DefenceKept

LEMMA ResetFields ==
  ASSUME NEW r \in Resets, NEW b \in BOOLEAN, NEW q,
         q = [r EXCEPT !.ok = b] \/ q = [r EXCEPT !.success = b]
  PROVE  /\ q \in Resets /\ q.goal = r.goal
         /\ q = [r EXCEPT !.ok = b] => (q.ok <=> b) /\ (q.success <=> r.success)
         /\ q = [r EXCEPT !.success = b] => (q.success <=> b) /\ (q.ok <=> r.ok)
BY DEF Resets

\* What a handler may do to the registry and its own action.
LEMMA WorkKinds ==
  ASSUME TypeOK, OrphanInv, NEW th \in Threads, Work(th)
  PROVE  /\ \A x \in Threads : x # th => task'[x] = task[x]
         /\ request' = request /\ task[th].pc # "idle"
         /\ \/ /\ task'[th].pc = task[th].pc /\ task'[th].id = task[th].id
               /\ task'[th].todo = task[th].todo
               /\ active_actions' = active_actions
            \/ /\ task[th].pc \in InstallerPC /\ task'[th].pc = "idle"
               /\ active_actions' = active_actions \union {task[th].id}
            \/ task'[th].pc = "idle" /\ active_actions' = active_actions
            \/ /\ task[th].pc = "erase"
               /\ active_actions' = active_actions \ {task[th].id}
               /\ \/ task[th].todo = {} /\ task'[th].pc = "idle"
                  \/ /\ task'[th].pc = "erase" /\ task'[th].id \in task[th].todo
                     /\ task'[th].todo = task[th].todo \ {task'[th].id}
<1>0. /\ task[th] \in TaskType /\ task[th].left \subseteq Switches /\ task[th].out \subseteq Messages
      /\ task[th].at \in Switches \union {NoAction} /\ task[th].todo \subseteq ActionIds
      /\ task[th].id \in ActionIds \union {NoAction}
      /\ datapaths \subseteq Switches
  BY DEF TypeOK, TaskType
<1>1. ASSUME NEW left, NEW at, NEW out, task' = [task EXCEPT ![th] = Sending(task[th], left, at, out)]
      PROVE  /\ \A x \in Threads : x # th => task'[x] = task[x]
             /\ task'[th].pc = task[th].pc /\ task'[th].id = task[th].id
             /\ task'[th].todo = task[th].todo
  BY <1>1 DEF TypeOK, Sending
<1>2. ASSUME task' = [task EXCEPT ![th] = Idle]
      PROVE  /\ \A x \in Threads : x # th => task'[x] = task[x]
             /\ task'[th].pc = "idle"
  BY <1>2, IdleTyped DEF TypeOK
<1>3. ASSUME NEW s \in Switches, VisitDatapath(th, s)
      PROVE  /\ \A x \in Threads : x # th => task'[x] = task[x]
             /\ task'[th].pc = task[th].pc /\ task'[th].id = task[th].id
             /\ task'[th].todo = task[th].todo
             /\ request' = request /\ task[th].pc # "idle" /\ active_actions' = active_actions
  <2>1. PICK out : task' = Visited(th, s, out)
    BY <1>3 DEF VisitDatapath
  <2>2. task' = [task EXCEPT ![th] = Sending(task[th], task[th].left \ {s}, s, out)]
    BY <2>1 DEF Visited
  <2>3. request' = request /\ task[th].pc # "idle" /\ active_actions' = active_actions
    BY <1>3 DEF VisitDatapath
  <2> QED BY <1>1, <2>2, <2>3
<1>4. ASSUME NEW s \in Switches, VisitInterface(th, s)
      PROVE  /\ \A x \in Threads : x # th => task'[x] = task[x]
             /\ task'[th].pc = task[th].pc /\ task'[th].id = task[th].id
             /\ task'[th].todo = task[th].todo
             /\ request' = request /\ task[th].pc # "idle" /\ active_actions' = active_actions
  <2>1. PICK out : task' = Visited(th, s, out)
    BY <1>4 DEF VisitInterface
  <2>2. task' = [task EXCEPT ![th] = Sending(task[th], task[th].left \ {s}, s, out)]
    BY <2>1 DEF Visited
  <2>3. request' = request /\ task[th].pc # "idle" /\ active_actions' = active_actions
    BY <1>4 DEF VisitInterface
  <2> QED BY <1>1, <2>2, <2>3
<1>5. CASE Send(th)
  <2>1. PICK out : task' = [task EXCEPT ![th] = Sending(task[th], task[th].left, task[th].at, out)]
    BY <1>5 DEF Send
  <2>2. task[th].pc # "idle"
    BY <1>5 DEF Send, OrphanInv, TaskSends
  <2> QED BY <1>1, <1>5, <2>1, <2>2 DEF Send
<1>6. CASE Register(th)
  BY <1>2, <1>6 DEF Register, InstallerPC
<1>7. CASE IterationError(th) \/ UnregisterTwice(th)
  BY <1>2, <1>7 DEF IterationError, UnregisterTwice
<1>8. CASE Unregister(th)
  <2>1. PICK t \in Erase(task[th].todo) : task' = [task EXCEPT ![th] = t]
    BY <1>8 DEF Unregister
  <2>2. task'[th] = t /\ \A x \in Threads : x # th => task'[x] = task[x]
    BY <2>1 DEF TypeOK
  <2>3. \/ task[th].todo = {} /\ t.pc = "idle"
        \/ t.pc = "erase" /\ t.id \in task[th].todo /\ t.todo = task[th].todo \ {t.id}
    <3>1. CASE task[th].todo = {}
      BY <3>1, IdleTyped DEF Erase
    <3>2. CASE task[th].todo # {}
      BY <3>2 DEF Erase, Loop
    <3> QED BY <3>1, <3>2
  <2> QED BY <1>8, <2>2, <2>3 DEF Unregister
<1> QED BY <1>3, <1>4, <1>5, <1>6, <1>7, <1>8 DEF Work

\* The runner's steps are the controller's, or change nothing there.
LEMMA RunnerIsClient ==
  ASSUME RunnerTyped, [RunnerNext]_stageVars
  PROVE  [Next]_vars
<1>1. CASE UNCHANGED stageVars
  BY <1>1 DEF stageVars
<1>2. CASE Runner
  BY <1>2 DEF Runner, Teardown, PostInstead, ClearAnswered, Verify, Defend, Executed, NextStage
<1>3. ASSUME NEW th \in Threads, Serve(th) PROVE Next \/ UNCHANGED vars
  <2>1. PICK m \in inbox : ServeClear(th, m) \/ ServeInstall(th, m)
    BY <1>3 DEF Serve
  <2>2. CASE ServeClear(th, m)
    BY <2>2 DEF ServeClear, Next, Request
  <2>3. CASE ServeInstall(th, m)
    <3>1. m.req \in Offered
      BY <2>3 DEF ServeInstall, RunnerTyped, Calls
    <3>2. PICK id \in ActionIds : BeginInstall(th, m.req, id) \/ BeginReroute(th, m.req, id)
      BY <2>3 DEF ServeInstall
    <3> QED BY <3>1, <3>2 DEF Next, Request
  <2> QED BY <2>1, <2>2, <2>3
<1>4. ASSUME NEW th \in Threads, Handle(th) PROVE Next
  BY <1>4 DEF Handle, Next
<1>5. ASSUME NEW s \in Switches, Network(s) PROVE Next
  BY <1>5 DEF Next
<1> QED BY <1>1, <1>2, <1>3, <1>4, <1>5 DEF RunnerNext

LEMMA RunnerStarts == RunnerInit => RunnerInv
<1> SUFFICES ASSUME RunnerInit PROVE RunnerInv
  OBVIOUS
<1> USE DEF RunnerInit
<1>1. NoReset \in Resets /\ NoReset.goal = {}
  BY DEF NoReset, Resets
<1>2. /\ calls = 0 /\ step = "teardown" /\ inbox = {} /\ reset = NoReset
      /\ \A th \in Threads : serving[th] = 0 /\ task[th].pc = "idle"
      /\ serving \in [Threads -> 0..calls]
  BY DEF Init, Idle, Loop
<1>3. RunnerTyped /\ OneCarrier /\ Answered /\ PresentCall
  BY <1>1, <1>2 DEF RunnerTyped, Steps, OneCarrier, Answered, PresentCall, Waiting
<1>4. GoalIsPast /\ GoalIsGone
  BY <1>1, <1>2 DEF GoalIsPast, GoalIsGone
<1>5. NoStrayClears /\ DefenceKept
  BY <1>2 DEF NoStrayClears, DefenceKept
<1> QED BY <1>3, <1>4, <1>5 DEF RunnerInv

LEMMA CallNumber ==
  /\ \A m \in Calls : m.call \in 1..calls
  /\ calls \in Nat => \A call \in 1..calls : Clear(call) \in Calls
  /\ calls \in Nat => \A call \in 1..calls, req \in Offered : Install(call, req) \in Calls
BY DEF Calls, Clear, Install

\* The present call becomes a new one: nobody carries that but the inbox.
LEMMA CallGrows ==
  ASSUME RunnerTyped, OneCarrier, calls' = calls + 1, serving' = serving,
         NEW m, m.call = calls + 1, inbox' \in {inbox, inbox \union {m}}
  PROVE  /\ OneCarrier'
         /\ \A n \in inbox' : n = m \/ (n \in inbox /\ n.call # calls')
         /\ \A x \in Threads : serving'[x] # calls'
<1>1. calls \in Nat /\ \A x \in Threads : serving[x] \in 0..calls
  BY DEF RunnerTyped
<1>2. \A n \in inbox : n.call \in 1..calls
  BY CallNumber DEF RunnerTyped
<1>3. \A n \in inbox' : n = m \/ (n \in inbox /\ n.call # calls')
  BY <1>1, <1>2
<1>4. \A x \in Threads : serving'[x] # calls' /\ serving'[x] # m.call
  BY <1>1
<1>5. \A n \in inbox : n.call # m.call
  BY <1>1, <1>2
<1> QED BY <1>3, <1>4, <1>5 DEF OneCarrier

LEMMA CallsTyped ==
  ASSUME RunnerTyped, calls' = calls + 1, serving' = serving, NEW m, m \in Calls',
         inbox' \in {inbox, inbox \union {m}}, step' \in Steps, reset' \in Resets
  PROVE  RunnerTyped'
<1>1. calls \in Nat /\ calls' \in Nat /\ calls' # 0
  BY DEF RunnerTyped
<1>2. Calls \subseteq Calls'
  BY <1>1 DEF Calls
<1>3. serving' \in [Threads -> 0..calls']
  BY <1>1 DEF RunnerTyped
<1> QED BY <1>1, <1>2, <1>3 DEF RunnerTyped

\* Nothing a reset is about comes back by what the runner does.
LEMMA GoalKept ==
  ASSUME GoalIsPast, GoalIsGone, UNCHANGED <<request, task>>, reset' = reset,
         reset.goal \intersect active_actions' \subseteq reset.goal \intersect active_actions,
         step' \in {"delete", "post"} /\ reply' = "ok" =>
           reset.goal \intersect active_actions' = {}
  PROVE  GoalIsPast' /\ GoalIsGone'
<1>1. GoalIsPast'
  BY DEF GoalIsPast, Installing, Issued
<1>2. GoalIsGone'
  BY DEF GoalIsGone
<1> QED BY <1>1, <1>2

LEMMA TeardownKeeps ==
  ASSUME TypeOK, OnlyIssued, OneInstaller, RunnerInv, Teardown
  PROVE  RunnerInv'
<1>0. /\ UNCHANGED <<task, request, active_actions, serving, givenUp>>
      /\ step = "teardown" /\ step' = "delete" /\ reply' = "none" /\ mine' = NoAction
      /\ calls' = calls + 1
      /\ reset' = [goal |-> active_actions, ok |-> FALSE, success |-> FALSE]
  BY DEF Teardown, vars, Call
<1>1. calls \in Nat /\ RunnerTyped /\ OneCarrier
  BY DEF RunnerInv, RunnerTyped
<1> DEFINE m == Clear(calls + 1)
<1>2. inbox' \in {inbox, inbox \union {m}} /\ m.call = calls + 1 /\ m.kind = "clear"
  BY DEF Teardown, Call, Clear
<1>3. m \in Calls'
  BY <1>0, <1>1 DEF Calls, Clear
<1>4. reset' \in Resets /\ reset'.goal = active_actions /\ ~reset'.ok /\ ~reset'.success
  BY <1>0 DEF Resets, TypeOK
<1> HIDE DEF m
<1>5. /\ OneCarrier'
      /\ \A n \in inbox' : n = m \/ (n \in inbox /\ n.call # calls')
      /\ \A x \in Threads : serving'[x] # calls'
  BY <1>0, <1>1, <1>2, CallGrows
<1>6. RunnerTyped'
  BY <1>0, <1>1, <1>2, <1>3, <1>4, CallsTyped DEF Steps
<1>7. Answered' /\ PresentCall'
  BY <1>0, <1>2, <1>5 DEF Answered, PresentCall
<1>8. GoalIsPast'
  BY <1>0, <1>4 DEF OnlyIssued, OneInstaller, GoalIsPast, Installing, Issued
<1>9. GoalIsGone'
  BY <1>0, <1>4 DEF GoalIsGone
<1>10. NoStrayClears'
  BY <1>0, <1>2, <1>5 DEF RunnerInv, NoStrayClears
<1>11. DefenceKept'
  BY <1>0 DEF DefenceKept
<1> QED BY <1>5, <1>6, <1>7, <1>8, <1>9, <1>10, <1>11 DEF RunnerInv

\* A runner that goes on from a clear without giving it up leaves none behind.
LEMMA NoneLeft ==
  ASSUME Answered, NoStrayClears, step \in {"delete", "post"},
         ~(givenUp \/ (TimedOut /\ UnderWay))
  PROVE  /\ \A n \in inbox : n.kind # "clear"
         /\ \A x \in Threads : task[x].pc # "erase"
<1>1. ~UnderWay
  BY DEF Answered, Waiting, TimedOut
<1> QED BY <1>1 DEF NoStrayClears, UnderWay

LEMMA PostInsteadKeeps ==
  ASSUME RunnerInv, PostInstead
  PROVE  RunnerInv'
<1>0. /\ UNCHANGED <<task, request, active_actions, serving, reset, mine>>
      /\ step = "delete" /\ step' = "post" /\ reply' = "none"
      /\ calls' = calls + 1
      /\ givenUp' = (givenUp \/ (TimedOut /\ UnderWay))
  BY DEF PostInstead, vars, Call
<1>1. calls \in Nat /\ RunnerTyped /\ OneCarrier /\ reset \in Resets
  BY DEF RunnerInv, RunnerTyped
<1> DEFINE m == Clear(calls + 1)
<1>2. inbox' \in {inbox, inbox \union {m}} /\ m.call = calls + 1 /\ m.kind = "clear"
  BY DEF PostInstead, Call, Clear
<1>3. m \in Calls'
  BY <1>0, <1>1 DEF Calls, Clear
<1> HIDE DEF m
<1>5. /\ OneCarrier'
      /\ \A n \in inbox' : n = m \/ (n \in inbox /\ n.call # calls')
      /\ \A x \in Threads : serving'[x] # calls'
  BY <1>0, <1>1, <1>2, CallGrows
<1>6. RunnerTyped'
  BY <1>0, <1>1, <1>2, <1>3, CallsTyped DEF Steps
<1>7. Answered' /\ PresentCall'
  BY <1>0, <1>2, <1>5 DEF Answered, PresentCall
<1>8. GoalIsPast' /\ GoalIsGone'
  BY <1>0, GoalKept DEF RunnerInv
<1>9. NoStrayClears'
  <2> SUFFICES ASSUME ~givenUp' PROVE NoStrayClears'
    BY DEF NoStrayClears
  <2>1. /\ \A n \in inbox : n.kind # "clear"
        /\ \A x \in Threads : task[x].pc # "erase"
    BY <1>0, NoneLeft DEF RunnerInv
  <2> QED BY <1>0, <1>2, <1>5, <2>1 DEF NoStrayClears
<1>10. DefenceKept'
  BY <1>0 DEF RunnerInv, DefenceKept
<1> QED BY <1>5, <1>6, <1>7, <1>8, <1>9, <1>10 DEF RunnerInv

LEMMA ClearAnsweredKeeps ==
  ASSUME RunnerInv, ClearAnswered
  PROVE  RunnerInv'
<1>0. /\ UNCHANGED <<task, request, active_actions, serving, mine, reply, calls, inbox>>
      /\ step \in {"delete", "post"} /\ step' = "verify"
      /\ givenUp' = (givenUp \/ (TimedOut /\ UnderWay))
      /\ reset' = [reset EXCEPT !.ok = (reply = "ok")]
  BY DEF ClearAnswered, vars
<1>1. RunnerTyped /\ reset \in Resets /\ calls \in Nat /\ calls # 0
  BY <1>0 DEF RunnerInv, RunnerTyped
<1>2. /\ reset' \in Resets /\ reset'.goal = reset.goal
      /\ reset'.ok <=> reply = "ok"
      /\ reset'.success <=> reset.success
  <2> DEFINE b == reply = "ok"
  <2>1. reset' = [reset EXCEPT !.ok = b] /\ b \in BOOLEAN
    BY <1>0
  <2>2. b <=> reply = "ok"
    OBVIOUS
  <2> HIDE DEF b
  <2> QED BY <1>1, <2>1, <2>2, ResetFields
<1>3. RunnerTyped'
  BY <1>0, <1>1, <1>2 DEF RunnerTyped, Calls, Steps
<1>4. OneCarrier' /\ Answered' /\ PresentCall'
  BY <1>0 DEF RunnerInv, OneCarrier, Answered, PresentCall, Waiting
<1>5. GoalIsPast'
  BY <1>0, <1>2 DEF RunnerInv, GoalIsPast, Installing, Issued
<1>6. GoalIsGone'
  BY <1>0, <1>2 DEF RunnerInv, GoalIsGone
<1>7. NoStrayClears'
  <2> SUFFICES ASSUME ~givenUp' PROVE NoStrayClears'
    BY DEF NoStrayClears
  <2>1. /\ \A n \in inbox : n.kind # "clear"
        /\ \A x \in Threads : task[x].pc # "erase"
    BY <1>0, NoneLeft DEF RunnerInv
  <2> QED BY <1>0, <2>1 DEF NoStrayClears
<1>8. DefenceKept'
  BY <1>0 DEF RunnerInv, DefenceKept
<1> QED BY <1>3, <1>4, <1>5, <1>6, <1>7, <1>8 DEF RunnerInv

LEMMA VerifyKeeps ==
  ASSUME RunnerInv, Verify
  PROVE  RunnerInv'
<1>0. /\ UNCHANGED <<task, request, active_actions, serving, mine, reply, calls, inbox, givenUp>>
      /\ step = "verify" /\ step' = "defend"
  BY DEF Verify, vars
<1>1. RunnerTyped /\ reset \in Resets
  BY DEF RunnerInv, RunnerTyped
<1>2. PICK count : reset' = [reset EXCEPT !.success = reset.ok /\ count = 0]
  BY DEF Verify
<1>3. (reset.ok /\ count = 0) \in BOOLEAN
  OBVIOUS
<1>4. /\ reset' \in Resets /\ reset'.goal = reset.goal
      /\ reset'.ok <=> reset.ok
      /\ reset'.success => reset.ok
  <2> DEFINE b == reset.ok /\ count = 0
  <2>1. reset' = [reset EXCEPT !.success = b] /\ b \in BOOLEAN /\ (b => reset.ok)
    BY <1>2, <1>3
  <2> HIDE DEF b
  <2> QED BY <1>1, <2>1, ResetFields
<1>5. RunnerTyped'
  BY <1>0, <1>1, <1>4 DEF RunnerTyped, Calls, Steps
<1>6. OneCarrier' /\ Answered' /\ PresentCall'
  BY <1>0 DEF RunnerInv, OneCarrier, Answered, PresentCall, Waiting
<1>7. GoalIsPast'
  BY <1>0, <1>4 DEF RunnerInv, GoalIsPast, Installing, Issued
<1>8. GoalIsGone'
  BY <1>0, <1>4 DEF RunnerInv, GoalIsGone
<1>9. NoStrayClears' /\ DefenceKept'
  BY <1>0 DEF RunnerInv, NoStrayClears, DefenceKept
<1> QED BY <1>5, <1>6, <1>7, <1>8, <1>9 DEF RunnerInv

LEMMA DefendKeeps ==
  ASSUME RunnerInv, Defend
  PROVE  RunnerInv'
<1>0. /\ UNCHANGED <<task, request, active_actions, serving, mine, reset, givenUp>>
      /\ step = "defend"
  BY DEF Defend, vars
<1>1. /\ calls \in Nat /\ calls # 0 /\ RunnerTyped /\ OneCarrier /\ reset \in Resets
      /\ mine = NoAction /\ ~(step \in {"delete", "post"})
  BY <1>0 DEF RunnerInv, RunnerTyped, DefenceKept
<1>2. GoalIsPast' /\ DefenceKept'
  BY <1>0, <1>1 DEF RunnerInv, GoalIsPast, Installing, Issued, DefenceKept
<1>3. CASE \E req \in Offered : Call("execute", LAMBDA call : Install(call, req))
  <2>1. PICK req \in Offered : Call("execute", LAMBDA call : Install(call, req))
    BY <1>3
  <2> DEFINE m == Install(calls + 1, req)
  <2>2. /\ calls' = calls + 1 /\ step' = "execute" /\ reply' = "none"
        /\ inbox' \in {inbox, inbox \union {m}} /\ m.call = calls + 1 /\ m.kind = "install"
    BY <2>1 DEF Call, Install
  <2>3. m \in Calls'
    BY <1>1, <2>2 DEF Calls, Install
  <2> HIDE DEF m
  <2>4. /\ OneCarrier'
        /\ \A n \in inbox' : n = m \/ (n \in inbox /\ n.call # calls')
        /\ \A x \in Threads : serving'[x] # calls'
    BY <1>0, <1>1, <2>2, CallGrows
  <2>5. RunnerTyped'
    BY <1>0, <1>1, <2>2, <2>3, CallsTyped DEF Steps
  <2>6. Answered' /\ PresentCall'
    BY <2>2, <2>4 DEF Answered, PresentCall
  <2>7. GoalIsGone'
    BY <1>0, <2>2 DEF RunnerInv, GoalIsGone
  <2>8. NoStrayClears'
    BY <1>0, <2>2, <2>4 DEF RunnerInv, NoStrayClears
  <2> QED BY <1>2, <2>4, <2>5, <2>6, <2>7, <2>8 DEF RunnerInv
<1>4. CASE step' = "over" /\ UNCHANGED <<reply, calls, inbox>>
  <2>1. RunnerTyped'
    BY <1>0, <1>1, <1>4 DEF RunnerTyped, Calls, Steps
  <2>2. OneCarrier' /\ Answered' /\ PresentCall'
    BY <1>0, <1>4 DEF RunnerInv, OneCarrier, Answered, PresentCall, Waiting
  <2>3. GoalIsGone' /\ NoStrayClears'
    BY <1>0, <1>4 DEF RunnerInv, GoalIsGone, NoStrayClears
  <2> QED BY <1>2, <2>1, <2>2, <2>3 DEF RunnerInv
<1> QED BY <1>3, <1>4 DEF Defend

LEMMA ExecutedKeeps ==
  ASSUME RunnerInv, Executed
  PROVE  RunnerInv'
<1>0. /\ UNCHANGED <<task, request, active_actions, serving, mine, reset, givenUp,
                     reply, calls, inbox>>
      /\ step = "execute" /\ step' = "over"
  BY DEF Executed, vars
<1>1. RunnerTyped'
  BY <1>0 DEF RunnerInv, RunnerTyped, Calls, Steps
<1>2. OneCarrier' /\ Answered' /\ PresentCall'
  BY <1>0 DEF RunnerInv, OneCarrier, Answered, PresentCall, Waiting
<1>3. GoalIsPast'
  BY <1>0 DEF RunnerInv, GoalIsPast, Installing, Issued
<1>4. GoalIsGone'
  BY <1>0 DEF RunnerInv, GoalIsGone
<1>5. NoStrayClears' /\ DefenceKept'
  BY <1>0 DEF RunnerInv, NoStrayClears, DefenceKept
<1> QED BY <1>1, <1>2, <1>3, <1>4, <1>5 DEF RunnerInv

LEMMA NextStageKeeps ==
  ASSUME RunnerInv, NextStage
  PROVE  RunnerInv'
<1>0. /\ UNCHANGED <<task, request, active_actions, serving, mine, reset, givenUp, calls, inbox>>
      /\ step = "over" /\ step' = "teardown" /\ reply' = "none"
  BY DEF NextStage, vars
<1>1. RunnerTyped'
  BY <1>0 DEF RunnerInv, RunnerTyped, Calls, Steps
<1>2. OneCarrier' /\ Answered' /\ PresentCall'
  BY <1>0 DEF RunnerInv, OneCarrier, Answered, PresentCall, Waiting
<1>3. GoalIsPast'
  BY <1>0 DEF RunnerInv, GoalIsPast, Installing, Issued
<1>4. GoalIsGone'
  BY <1>0 DEF RunnerInv, GoalIsGone
<1>5. NoStrayClears' /\ DefenceKept'
  BY <1>0 DEF RunnerInv, NoStrayClears, DefenceKept
<1> QED BY <1>1, <1>2, <1>3, <1>4, <1>5 DEF RunnerInv

\* A step that moves no thread to another action and leaves the registry and the
\* runner alone.
LEMMA StillKeeps ==
  ASSUME RunnerInv, UNCHANGED <<request, active_actions, runnerVars>>,
         \A x \in Threads : /\ task'[x].pc = task[x].pc /\ task'[x].id = task[x].id
                            /\ task'[x].todo = task[x].todo
  PROVE  RunnerInv'
<1>0. UNCHANGED <<stage, step, reply, calls, inbox, serving, reset, mine, givenUp>>
  BY DEF runnerVars
<1>1. RunnerTyped'
  BY <1>0 DEF RunnerInv, RunnerTyped, Calls, Steps
<1>2. OneCarrier' /\ Answered'
  BY <1>0 DEF RunnerInv, OneCarrier, Answered, UnderWay
<1>3. PresentCall'
  BY <1>0 DEF RunnerInv, PresentCall
<1>4. GoalIsPast'
  BY <1>0 DEF RunnerInv, GoalIsPast, Installing, Issued
<1>5. GoalIsGone'
  BY <1>0 DEF RunnerInv, GoalIsGone
<1>6. NoStrayClears' /\ DefenceKept'
  BY <1>0 DEF RunnerInv, NoStrayClears, DefenceKept
<1> QED BY <1>1, <1>2, <1>3, <1>4, <1>5, <1>6 DEF RunnerInv

LEMMA NetworkKeepsRunner ==
  ASSUME TypeOK, RunnerInv, NEW s \in Switches, Network(s), UNCHANGED runnerVars
  PROVE  RunnerInv'
<1>1. CASE SwitchConnects(s)
  <2>1. task' = WithEntry(s) /\ UNCHANGED <<request, active_actions>>
    BY <1>1 DEF SwitchConnects
  <2>2. \A x \in Threads : /\ task'[x].pc = task[x].pc /\ task'[x].id = task[x].id
                           /\ task'[x].todo = task[x].todo
    BY <2>1, EntryThreads
  <2> QED BY <2>1, <2>2, StillKeeps
<1>2. CASE \E restarted \in BOOLEAN : ConnectionLost(s, restarted)
  <2>1. PICK restarted \in BOOLEAN : ConnectionLost(s, restarted)
    BY <1>2
  <2>2. UNCHANGED <<request, active_actions>>
    BY <2>1 DEF ConnectionLost
  <2>3. \A x \in Threads : /\ task'[x].pc = task[x].pc /\ task'[x].id = task[x].id
                           /\ task'[x].todo = task[x].todo
    BY <2>1, LossThreads
  <2> QED BY <2>2, <2>3, StillKeeps
<1>3. CASE HandleDead(s)
  <2>1. task' = WithoutEntry(s) /\ UNCHANGED <<request, active_actions>>
    BY <1>3 DEF HandleDead
  <2>2. \A x \in Threads : /\ task'[x].pc = task[x].pc /\ task'[x].id = task[x].id
                           /\ task'[x].todo = task[x].todo
    BY <2>1, NoEntryThreads
  <2> QED BY <2>1, <2>2, StillKeeps
<1>4. CASE SwitchReceives(s)
  <2>1. UNCHANGED <<request, active_actions, task>>
    BY <1>4 DEF SwitchReceives, controllerVars
  <2> QED BY <2>1, StillKeeps
<1> QED BY <1>1, <1>2, <1>3, <1>4 DEF Network

\* Thread th takes call m: it carries what the inbox carried.
LEMMA TakenCall ==
  ASSUME RunnerTyped, OneCarrier, NEW th \in Threads, NEW m \in inbox,
         inbox' = inbox \ {m}, serving' = [serving EXCEPT ![th] = m.call],
         UNCHANGED <<calls, step, reset>>
  PROVE  /\ RunnerTyped' /\ OneCarrier' /\ (UnderWay' => UnderWay)
         /\ serving'[th] = m.call /\ \A x \in Threads : x # th => serving'[x] = serving[x]
<1>1. m.call \in 1..calls /\ calls \in Nat
  BY CallNumber DEF RunnerTyped
<1>2. serving'[th] = m.call /\ \A x \in Threads : x # th => serving'[x] = serving[x]
  BY DEF RunnerTyped
<1>3. serving' \in [Threads -> 0..calls']
  BY <1>1 DEF RunnerTyped
<1>4. RunnerTyped'
  BY <1>3 DEF RunnerTyped, Calls
<1>5. OneCarrier'
  BY <1>2 DEF OneCarrier
<1>6. UnderWay' => UnderWay
  BY <1>2 DEF UnderWay
<1> QED BY <1>2, <1>4, <1>5, <1>6

LEMMA ServeClearKeeps ==
  ASSUME TypeOK, RunnerInv, NEW th \in Threads, NEW m \in inbox, ServeClear(th, m),
         inbox' = inbox \ {m}, UNCHANGED <<stage, step, calls, reset, givenUp>>
  PROVE  RunnerInv'
<1>0. /\ m.kind = "clear" /\ mine' = mine /\ RunnerTyped /\ OneCarrier
      /\ calls \in Nat /\ reset \in Resets
  BY DEF ServeClear, RunnerInv, RunnerTyped
<1>1. CASE ClearAll(th) /\ serving' = [serving EXCEPT ![th] = m.call] /\ UNCHANGED reply
  <2>1. /\ RunnerTyped' /\ OneCarrier' /\ (UnderWay' => UnderWay)
        /\ serving'[th] = m.call /\ \A x \in Threads : x # th => serving'[x] = serving[x]
    BY <1>0, <1>1, TakenCall
  <2>2. UNCHANGED <<active_actions, request>> /\ task[th].pc = "idle"
    BY <1>1 DEF ClearAll, BeginClear
  <2>3. /\ \A x \in Threads : x # th => task'[x] = task[x]
        /\ task'[th].pc = "erase" /\ active_actions \subseteq {task'[th].id} \union task'[th].todo
    <3>1. PICK t \in Erase(active_actions) : task' = [task EXCEPT ![th] = t]
      BY <1>1 DEF ClearAll, BeginClear
    <3>2. t.pc = "erase" /\ active_actions \subseteq {t.id} \union t.todo
      BY <1>1 DEF ClearAll, BeginClear, Erase, Loop
    <3> QED BY <3>1, <3>2 DEF TypeOK
  <2>4. Answered'
    BY <1>1, <2>1 DEF RunnerInv, Answered
  <2>5. PresentCall'
    <3>1. \A n \in inbox' : n \in inbox
      OBVIOUS
    <3>2. serving'[th] = calls' => step # "execute"
      BY <1>0, <2>1 DEF RunnerInv, PresentCall
    <3>3. reset'.goal \intersect active_actions' \subseteq {task'[th].id} \union task'[th].todo
      BY <2>2, <2>3
    <3> QED BY <1>0, <2>1, <2>2, <2>3, <3>1, <3>2, <3>3 DEF RunnerInv, PresentCall
  <2>6. \A id : Installing(id)' => Installing(id)
    BY <2>3 DEF Installing
  <2>7. GoalIsPast'
    BY <2>2, <2>6 DEF RunnerInv, GoalIsPast, Issued
  <2>8. GoalIsGone'
    BY <1>1, <2>2 DEF RunnerInv, GoalIsGone
  <2>9. NoStrayClears'
    BY <1>0, <2>1, <2>3 DEF RunnerInv, NoStrayClears
  <2>10. DefenceKept'
    BY <1>0, <1>1, <2>2 DEF RunnerInv, DefenceKept
  <2> QED BY <2>1, <2>4, <2>5, <2>7, <2>8, <2>9, <2>10 DEF RunnerInv
<1>2. CASE active_actions = {} /\ Answer(m.call, "ok") /\ UNCHANGED <<vars, serving>>
  <2>1. UNCHANGED <<active_actions, request, task, serving>>
    BY <1>2 DEF vars
  <2>2. RunnerTyped'
    BY <1>0, <2>1 DEF RunnerTyped, Calls
  <2>3. OneCarrier' /\ PresentCall'
    BY <1>0, <2>1 DEF RunnerInv, OneCarrier, PresentCall
  <2>4. Answered'
    <3>1. CASE m.call = calls
      <4>1. ~UnderWay'
        BY <2>1, <3>1 DEF RunnerInv, OneCarrier, UnderWay
      <4> QED BY <4>1 DEF Answered
    <3>2. CASE m.call # calls
      <4>1. reply' = reply
        BY <1>2, <3>2 DEF Answer
      <4> QED BY <2>1, <4>1 DEF RunnerInv, Answered, UnderWay
    <3> QED BY <3>1, <3>2
  <2>5. GoalIsPast' /\ NoStrayClears'
    BY <1>0, <2>1 DEF RunnerInv, GoalIsPast, Installing, Issued, NoStrayClears
  <2>6. GoalIsGone'
    BY <1>2, <2>1 DEF GoalIsGone
  <2>7. step \in {"execute", "over"} => reply' = reply
    BY <1>0, <1>2 DEF RunnerInv, PresentCall, Answer, Waiting
  <2>8. DefenceKept'
    BY <1>0, <2>1, <2>7 DEF RunnerInv, DefenceKept
  <2> QED BY <2>2, <2>3, <2>4, <2>5, <2>6, <2>8 DEF RunnerInv
<1> QED BY <1>1, <1>2 DEF ServeClear

LEMMA ServeInstallKeeps ==
  ASSUME TypeOK, OnlyIssued, RunnerInv, NEW th \in Threads, NEW m \in inbox, ServeInstall(th, m),
         inbox' = inbox \ {m}, UNCHANGED <<stage, step, calls, reset, givenUp>>
  PROVE  RunnerInv'
<1>0. /\ m.kind = "install" /\ reply' = reply /\ serving' = [serving EXCEPT ![th] = m.call]
      /\ RunnerTyped /\ OneCarrier /\ calls \in Nat /\ reset \in Resets
  BY DEF ServeInstall, RunnerInv, RunnerTyped
<1>1. PICK id \in ActionIds :
        /\ BeginInstall(th, m.req, id) \/ BeginReroute(th, m.req, id)
        /\ mine' = IF step = "execute" /\ m.call = calls THEN id ELSE mine
  BY DEF ServeInstall
<1>2. /\ RunnerTyped' /\ OneCarrier' /\ (UnderWay' => UnderWay)
      /\ serving'[th] = m.call /\ \A x \in Threads : x # th => serving'[x] = serving[x]
  BY <1>0, TakenCall
<1>3. /\ active_actions' = active_actions /\ id \notin Issued
      /\ request' = [request EXCEPT ![id] = m.req]
  BY <1>1 DEF BeginInstall, BeginReroute
<1>4. /\ \A x \in Threads : x # th => task'[x] = task[x]
      /\ task'[th].pc \in InstallerPC /\ task'[th].id = id
  <2>1. CASE BeginInstall(th, m.req, id)
    BY <2>1 DEF BeginInstall, TypeOK, Loop, InstallerPC
  <2>2. CASE BeginReroute(th, m.req, id)
    BY <2>2 DEF BeginReroute, TypeOK, Loop, InstallerPC
  <2> QED BY <1>1, <2>1, <2>2
<1>5. Answered'
  BY <1>0, <1>2 DEF RunnerInv, Answered
<1>6. PresentCall'
  <2>1. \A n \in inbox' : n \in inbox
    OBVIOUS
  <2>2. m.call = calls => ~(step \in {"delete", "post"})
    BY <1>0 DEF RunnerInv, PresentCall
  <2>3. \A x \in Threads : x # th /\ serving[x] = calls => mine' = mine
    BY <1>0, <1>1 DEF OneCarrier
  <2>4. m.call = calls /\ step = "execute" => mine' = id
    BY <1>1
  <2>5. \A x \in Threads : x # th /\ serving'[x] = calls' =>
          /\ step' \in {"delete", "post"} =>
               /\ task'[x].pc = "erase"
               /\ reset'.goal \intersect active_actions' \subseteq {task'[x].id} \union task'[x].todo
          /\ step' = "execute" => task'[x].pc \in InstallerPC /\ task'[x].id = mine'
    BY <1>2, <1>3, <1>4, <2>3 DEF RunnerInv, PresentCall
  <2> QED BY <1>2, <1>4, <2>1, <2>2, <2>4, <2>5 DEF RunnerInv, PresentCall
<1>7. Issued \subseteq Issued'
  BY <1>3 DEF Issued, TypeOK
<1>8. \A other : Installing(other)' => Installing(other) \/ other = id
  BY <1>4 DEF Installing
<1>9. GoalIsPast'
  BY <1>3, <1>7, <1>8 DEF RunnerInv, GoalIsPast
<1>10. GoalIsGone'
  BY <1>0, <1>3 DEF RunnerInv, GoalIsGone
<1>11. NoStrayClears'
  BY <1>0, <1>2, <1>4 DEF RunnerInv, NoStrayClears, InstallerPC
<1>12. DefenceKept'
  <2>1. CASE step = "execute" /\ m.call = calls
    <3>1. UnderWay /\ step \in Waiting
      BY <2>1 DEF UnderWay, Waiting
    <3>2. reply = "none"
      BY <3>1 DEF RunnerInv, Answered
    <3> QED BY <1>0, <2>1, <3>2 DEF DefenceKept
  <2>2. CASE ~(step = "execute" /\ m.call = calls)
    <3>1. mine' = mine
      BY <1>1, <2>2
    <3> QED BY <1>0, <1>3, <3>1 DEF RunnerInv, DefenceKept
  <2> QED BY <2>1, <2>2
<1> QED BY <1>2, <1>5, <1>6, <1>9, <1>10, <1>11, <1>12 DEF RunnerInv

\* Thread th ends its call: nobody carries that any more.
LEMMA EndedCall ==
  ASSUME RunnerTyped, OneCarrier, NEW th \in Threads, serving' = [serving EXCEPT ![th] = 0],
         Answer(serving[th], IF Succeeds THEN "ok" ELSE "error"),
         UNCHANGED <<calls, step, reset, inbox>>
  PROVE  /\ RunnerTyped' /\ OneCarrier'
         /\ serving'[th] = 0 /\ \A x \in Threads : x # th => serving'[x] = serving[x]
         /\ step \in Waiting => calls # 0
         /\ Answered => Answered'
<1>1. calls \in Nat /\ (step \in Waiting => calls # 0)
  BY DEF RunnerTyped, Waiting
<1>2. serving'[th] = 0 /\ \A x \in Threads : x # th => serving'[x] = serving[x]
  BY DEF RunnerTyped
<1>3. serving' \in [Threads -> 0..calls']
  BY <1>1 DEF RunnerTyped
<1>4. RunnerTyped'
  BY <1>3 DEF RunnerTyped, Calls
<1>5. \A m \in inbox : m.call # 0
  BY <1>1, CallNumber DEF RunnerTyped
<1>6. OneCarrier'
  BY <1>2, <1>5 DEF OneCarrier
<1>7. ASSUME Answered PROVE Answered'
  <2>1. CASE step \in Waiting /\ serving[th] = calls
    <3>1. ~UnderWay'
      BY <1>1, <1>2, <2>1 DEF OneCarrier, UnderWay
    <3> QED BY <3>1 DEF Answered
  <2>2. CASE step \in Waiting /\ serving[th] # calls
    <3>1. reply' = reply
      BY <2>2 DEF Answer
    <3>2. UnderWay' => UnderWay
      BY <1>1, <1>2, <2>2 DEF UnderWay
    <3> QED BY <1>7, <3>1, <3>2 DEF Answered
  <2>3. CASE step \notin Waiting
    BY <2>3 DEF Answered
  <2> QED BY <2>1, <2>2, <2>3
<1> QED BY <1>1, <1>2, <1>4, <1>6, <1>7

\* A thread registers its action and answers.
LEMMA RegisterKeepsRunner ==
  ASSUME OneInstaller, RunnerInv, NEW th \in Threads,
         serving' = [serving EXCEPT ![th] = 0],
         Answer(serving[th], IF Succeeds THEN "ok" ELSE "error"),
         UNCHANGED <<stage, step, calls, inbox, reset, mine, givenUp, request>>,
         \A x \in Threads : x # th => task'[x] = task[x],
         task[th].pc \in InstallerPC, task'[th].pc = "idle",
         active_actions' = active_actions \union {task[th].id}
  PROVE  RunnerInv'
<1>1. /\ RunnerTyped' /\ OneCarrier'
      /\ serving'[th] = 0 /\ \A x \in Threads : x # th => serving'[x] = serving[x]
      /\ step \in Waiting => calls # 0
      /\ Answered'
  BY EndedCall DEF RunnerInv
<1>2. Installing(task[th].id)
  BY DEF Installing, InstallerPC
<1>3. task[th].id \notin reset.goal
  BY <1>2 DEF RunnerInv, GoalIsPast
<1>4. reset'.goal \intersect active_actions' = reset.goal \intersect active_actions
  BY <1>3
<1>5. PresentCall'
  BY <1>1, <1>4 DEF RunnerInv, PresentCall, Waiting
<1>6. \A id : Installing(id)' => Installing(id)
  BY DEF Installing
<1>7. GoalIsPast'
  BY <1>6 DEF RunnerInv, GoalIsPast, Issued
<1>8. step \in {"delete", "post"} => reply' = reply
  BY DEF RunnerInv, PresentCall, Answer, InstallerPC
<1>9. GoalIsGone'
  BY <1>4, <1>8 DEF RunnerInv, GoalIsGone
<1>10. NoStrayClears'
  BY <1>1 DEF RunnerInv, NoStrayClears
<1>11. DefenceKept'
  <2>1. CASE step = "execute" /\ serving[th] = calls
    <3>1. task[th].id = mine
      BY <2>1 DEF RunnerInv, PresentCall
    <3> QED BY <2>1, <3>1 DEF DefenceKept
  <2>2. CASE ~(step = "execute" /\ serving[th] = calls)
    <3>1. step \in {"execute", "over"} => reply' = reply
      BY <2>2 DEF Answer, Waiting
    <3> QED BY <3>1 DEF RunnerInv, DefenceKept
  <2> QED BY <2>1, <2>2
<1> QED BY <1>1, <1>5, <1>7, <1>9, <1>10, <1>11 DEF RunnerInv

\* An exception ends a request, or another clear was first.
LEMMA FailureKeepsRunner ==
  ASSUME RunnerInv, NEW th \in Threads,
         serving' = [serving EXCEPT ![th] = 0],
         Answer(serving[th], IF Succeeds THEN "ok" ELSE "error"),
         UNCHANGED <<stage, step, calls, inbox, reset, mine, givenUp, request, active_actions>>,
         \A x \in Threads : x # th => task'[x] = task[x], task'[th].pc = "idle"
  PROVE  RunnerInv'
<1>1. /\ RunnerTyped' /\ OneCarrier'
      /\ serving'[th] = 0 /\ \A x \in Threads : x # th => serving'[x] = serving[x]
      /\ step \in Waiting => calls # 0
      /\ Answered'
  BY EndedCall DEF RunnerInv
<1>2. reply' = "ok" => reply = "ok"
  BY DEF Answer, Succeeds
<1>3. PresentCall'
  BY <1>1 DEF RunnerInv, PresentCall, Waiting
<1>4. \A id : Installing(id)' => Installing(id)
  BY DEF Installing
<1>5. GoalIsPast'
  BY <1>4 DEF RunnerInv, GoalIsPast, Issued
<1>6. GoalIsGone'
  BY <1>2 DEF RunnerInv, GoalIsGone
<1>7. NoStrayClears'
  BY <1>1 DEF RunnerInv, NoStrayClears
<1>8. DefenceKept'
  BY <1>2 DEF RunnerInv, DefenceKept
<1> QED BY <1>1, <1>3, <1>5, <1>6, <1>7, <1>8 DEF RunnerInv

\* A clear takes an action out of the registry, the last one of its snapshot or not.
LEMMA UnregisterKeepsRunner ==
  ASSUME RunnerInv, NEW th \in Threads, Handle(th),
         UNCHANGED <<request>>,
         \A x \in Threads : x # th => task'[x] = task[x], task[th].pc = "erase",
         active_actions' = active_actions \ {task[th].id},
         \/ task[th].todo = {} /\ task'[th].pc = "idle"
         \/ /\ task'[th].pc = "erase" /\ task'[th].id \in task[th].todo
            /\ task'[th].todo = task[th].todo \ {task'[th].id}
  PROVE  RunnerInv'
<1>0. UNCHANGED <<stage, step, calls, inbox, reset, mine, givenUp>>
  BY DEF Handle
<1>1. reset.goal \intersect active_actions' \subseteq reset.goal \intersect active_actions
  OBVIOUS
<1>2. \A id : Installing(id)' => Installing(id)
  BY DEF Installing
<1>3. GoalIsPast'
  BY <1>0, <1>2 DEF RunnerInv, GoalIsPast, Issued
<1>4. ~givenUp => step \in {"delete", "post"}
  BY DEF RunnerInv, NoStrayClears
<1>5. DefenceKept'
  BY <1>0, <1>4 DEF RunnerInv, DefenceKept
<1>6. CASE task[th].todo = {} /\ task'[th].pc = "idle"
  <2>1. /\ serving' = [serving EXCEPT ![th] = 0]
        /\ Answer(serving[th], IF Succeeds THEN "ok" ELSE "error")
    BY <1>6 DEF Handle
  <2>2. /\ RunnerTyped' /\ OneCarrier'
        /\ serving'[th] = 0 /\ \A x \in Threads : x # th => serving'[x] = serving[x]
        /\ step \in Waiting => calls # 0
        /\ Answered'
    BY <1>0, <2>1, EndedCall DEF RunnerInv
  <2>3. PresentCall'
    BY <1>0, <1>1, <2>2 DEF RunnerInv, PresentCall, Waiting
  <2>4. NoStrayClears'
    BY <1>0, <1>6, <2>2 DEF RunnerInv, NoStrayClears
  <2>5. step \in {"delete", "post"} /\ serving[th] = calls =>
          reset.goal \intersect active_actions' = {}
    BY <1>6 DEF RunnerInv, PresentCall
  <2>6. step \in {"delete", "post"} /\ serving[th] # calls => reply' = reply
    BY <2>1 DEF Answer
  <2>7. GoalIsGone'
    BY <1>0, <1>1, <2>5, <2>6 DEF RunnerInv, GoalIsGone
  <2> QED BY <1>3, <1>5, <2>2, <2>3, <2>4, <2>7 DEF RunnerInv
<1>7. CASE /\ task'[th].pc = "erase" /\ task'[th].id \in task[th].todo
           /\ task'[th].todo = task[th].todo \ {task'[th].id}
  <2>1. reply' = reply /\ serving' = serving
    BY <1>7 DEF Handle
  <2>2. RunnerTyped'
    BY <1>0, <2>1 DEF RunnerInv, RunnerTyped, Calls
  <2>3. OneCarrier' /\ Answered'
    BY <1>0, <2>1 DEF RunnerInv, OneCarrier, Answered, UnderWay
  <2>4. step \in {"delete", "post"} /\ serving[th] = calls =>
          reset.goal \intersect active_actions' \subseteq {task'[th].id} \union task'[th].todo
    BY <1>7 DEF RunnerInv, PresentCall
  <2>5. PresentCall'
    BY <1>0, <1>1, <1>7, <2>1, <2>4 DEF RunnerInv, PresentCall, InstallerPC
  <2>6. NoStrayClears'
    BY <1>0, <1>7, <2>1 DEF RunnerInv, NoStrayClears
  <2>7. GoalIsGone'
    BY <1>0, <1>1, <2>1 DEF RunnerInv, GoalIsGone
  <2> QED BY <1>3, <1>5, <2>2, <2>3, <2>5, <2>6, <2>7 DEF RunnerInv
<1> QED BY <1>6, <1>7

LEMMA HandleKeeps ==
  ASSUME TypeOK, OrphanInv, RunnerInv, NEW th \in Threads, Handle(th)
  PROVE  RunnerInv'
<1>1. /\ UNCHANGED <<stage, step, calls, inbox, reset, mine, givenUp>> /\ Work(th)
      /\ task'[th].pc = "idle" => /\ serving' = [serving EXCEPT ![th] = 0]
                                  /\ Answer(serving[th], IF Succeeds THEN "ok" ELSE "error")
      /\ task'[th].pc # "idle" => UNCHANGED <<reply, serving>>
  BY DEF Handle
<1>2. /\ \A x \in Threads : x # th => task'[x] = task[x]
      /\ request' = request /\ task[th].pc # "idle"
  BY <1>1, WorkKinds
<1>3. CASE /\ task'[th].pc = task[th].pc /\ task'[th].id = task[th].id
           /\ task'[th].todo = task[th].todo
           /\ active_actions' = active_actions
  <2>1. UNCHANGED runnerVars
    BY <1>1, <1>2, <1>3 DEF runnerVars
  <2> QED BY <1>2, <1>3, <2>1, StillKeeps
<1>4. CASE /\ task[th].pc \in InstallerPC /\ task'[th].pc = "idle"
           /\ active_actions' = active_actions \union {task[th].id}
  BY <1>1, <1>2, <1>4, RegisterKeepsRunner DEF OrphanInv
<1>5. CASE task'[th].pc = "idle" /\ active_actions' = active_actions
  BY <1>1, <1>2, <1>5, FailureKeepsRunner
<1>6. CASE /\ task[th].pc = "erase"
           /\ active_actions' = active_actions \ {task[th].id}
           /\ \/ task[th].todo = {} /\ task'[th].pc = "idle"
              \/ /\ task'[th].pc = "erase" /\ task'[th].id \in task[th].todo
                 /\ task'[th].todo = task[th].todo \ {task'[th].id}
  BY <1>2, <1>6, UnregisterKeepsRunner
<1> QED BY <1>1, <1>3, <1>4, <1>5, <1>6, WorkKinds

\* The stage runner, and the controller it calls, keep their invariants.
THEOREM RunnerInvariant == RunnerSpec => [](ControllerInv /\ RunnerInv)
<1>1. RunnerInit => ControllerInv /\ RunnerInv
  BY RunnerStarts, InitTyped, OrphanInit, EnforcedInit, AnswersInit DEF RunnerInit, ControllerInv
<1>2. ControllerInv /\ RunnerInv /\ [RunnerNext]_stageVars => (ControllerInv /\ RunnerInv)'
  <2> SUFFICES ASSUME ControllerInv, RunnerInv, [RunnerNext]_stageVars
               PROVE  ControllerInv' /\ RunnerInv'
    OBVIOUS
  <2>1. TypeOK /\ OnlyIssued /\ OrphanInv /\ OneInstaller /\ RunnerTyped
    BY DEF ControllerInv, OrphanInv, RunnerInv
  <2>2. ControllerInv'
    BY <2>1, RunnerIsClient, ControllerStep
  <2>3. CASE UNCHANGED stageVars
    <3>1. UNCHANGED <<request, active_actions, runnerVars>> /\ UNCHANGED task
      BY <2>3 DEF stageVars, vars
    <3> QED BY <2>2, <3>1, StillKeeps
  <2>4. CASE Runner
    BY <2>1, <2>2, <2>4, TeardownKeeps, PostInsteadKeeps, ClearAnsweredKeeps, VerifyKeeps,
       DefendKeeps, ExecutedKeeps, NextStageKeeps DEF Runner
  <2>5. ASSUME NEW th \in Threads, Serve(th) PROVE RunnerInv'
    <3>1. PICK m \in inbox : (ServeClear(th, m) \/ ServeInstall(th, m)) /\ inbox' = inbox \ {m}
      BY <2>5 DEF Serve
    <3>2. UNCHANGED <<stage, step, calls, reset, givenUp>>
      BY <2>5 DEF Serve
    <3> QED BY <2>1, <3>1, <3>2, ServeClearKeeps, ServeInstallKeeps
  <2>6. ASSUME NEW th \in Threads, Handle(th) PROVE RunnerInv'
    BY <2>1, <2>6, HandleKeeps
  <2>7. ASSUME NEW s \in Switches, Network(s), UNCHANGED runnerVars PROVE RunnerInv'
    BY <2>1, <2>7, NetworkKeepsRunner
  <2> QED BY <2>2, <2>3, <2>4, <2>5, <2>6, <2>7 DEF RunnerNext
<1> QED BY <1>1, <1>2, PTL DEF RunnerSpec

\* The runner is a client of the controller: it makes it do nothing that other
\* clients could not.
THEOREM RunnerIsAClient == RunnerSpec => Spec
<1>1. RunnerInit => Init
  BY DEF RunnerInit
<1>2. RunnerInv /\ [RunnerNext]_stageVars => [Next]_vars
  BY RunnerIsClient DEF RunnerInv
<1> QED BY <1>1, <1>2, RunnerInvariant, PTL DEF RunnerSpec, Spec

\* A teardown that reports success has cleared what was registered when it began,
\* whichever of its calls were lost, late or doubled and whatever the count after
\* it said: the property ResetIsReal of stage_teardown.
THEOREM ResetMeansGone == RunnerSpec => []ResetIsReal
<1>1. ControllerInv /\ RunnerInv => ResetIsReal
  <2> SUFFICES ASSUME ControllerInv, RunnerInv, reset.success, NEW id \in reset.goal
               PROVE  /\ id \notin active_actions
                      /\ \A s \in Switches, m \in Matches :
                           Stands(s, id, m) => id \in preSession[s] \union aborted
    BY DEF ResetIsReal
  <2>1. id \notin active_actions
    BY DEF RunnerInv, GoalIsGone
  <2>2. id \in ActionIds /\ ~Installing(id)
    BY DEF RunnerInv, GoalIsPast, Issued
  <2>3. \A s \in Switches, m \in Matches : Stands(s, id, m) => Accounted(s, id)
    BY <2>2 DEF ControllerInv, OrphanInv, NoOrphanRules
  <2> QED BY <2>1, <2>2, <2>3 DEF Accounted
<1> QED BY <1>1, RunnerInvariant, PTL

\* A defence answered with 202 is registered until its stage is over, unless a
\* clear was given up while it was under way: the property DefenceLasts of
\* execute_defender.
THEOREM DefenceStays == RunnerSpec => []DefenceLasts
<1>1. RunnerInv => DefenceLasts
  BY DEF RunnerInv, DefenceKept, DefenceLasts
<1> QED BY <1>1, RunnerInvariant, PTL
=============================================================================
