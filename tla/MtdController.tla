--------------------------- MODULE MtdController ---------------------------
(* The SDN controller of environment/sdn/controller_app.py: the registry of  *)
(* MTD policies (active_actions), the REST handlers that install and clear    *)
(* them, and the OpenFlow switches that hold their rules.                     *)
(*                                                                            *)
(* Handlers are green threads of one process. They run until datapath.send_msg *)
(* blocks on a full send queue, so any two handlers, and the handlers of      *)
(* switch events, interleave between two sends. A handler is therefore one    *)
(* action per send, plus one for each pass of its loops.                      *)
(*                                                                            *)
(* Answers that change nothing (observe, a missing or unknown target, 400,    *)
(* 404, 409, 501) are stuttering steps. controller_metrics feeds no decision  *)
(* and is left out.                                                           *)
EXTENDS Naturals, FiniteSets, Sequences

CONSTANTS
  Switches,     \* dpids of the OpenFlow switches
  Nodes,        \* the keys of NODE_INTERFACE_IPS
  IPs,          \* interface addresses; one may also be a request's raw target
  Interfaces,   \* NODE_INTERFACE_IPS: node |-> set of <<switch, ip>>
  Gateways,     \* switches that a "*_gw" node has an interface on
  ActionIds,    \* action ids; one per accepted request, so their number bounds requests
  MeterIds,     \* OpenFlow meter ids
  MeterOf,      \* _meter_id_for: action id |-> meter id
  Threads,      \* green threads that serve REST requests
  Offered,      \* the policy requests clients send
  QueueSlots,   \* Ryu's send queue: send_msg blocks while a datapath has this many messages
  NoAction,     \* "this rule slot is empty", "this thread has no action"
  MaxLosses     \* bound: how many control connections are lost in a behaviour

Targets == Nodes \union IPs
PolicyKinds == {"isolation", "rate_limit"}
Requests ==
  [kind : PolicyKinds, target : Targets] \union
  [kind : {"reroute_traffic"}, target : Nodes, via : Switches]
NoRequest == [kind |-> "none"]

ASSUME SwitchesAssumption == IsFiniteSet(Switches)
ASSUME InterfacesAssumption == Interfaces \in [Nodes -> SUBSET (Switches \X IPs)]
ASSUME NamesAssumption == Nodes \intersect IPs = {}
ASSUME GatewaysAssumption == Gateways \subseteq Switches
ASSUME MeterAssumption == MeterOf \in [ActionIds -> MeterIds]
ASSUME OfferedAssumption == Offered \subseteq Requests
ASSUME NoActionAssumption == NoAction \notin ActionIds
ASSUME BoundAssumption == MaxLosses \in Nat /\ QueueSlots \in Nat \ {0}

VARIABLES
  datapaths,      \* keys of self.datapaths
  active_actions, \* keys of self.active_actions
  request,        \* what each action id was issued for (the registry's record)
  task,           \* what each REST thread is doing
  connected,      \* switches whose control connection is up
  deadEvents,     \* DEAD_DISPATCHER events not handled yet, per switch
  losses,         \* control connections lost so far
  chan,           \* messages on each control connection, oldest first
  table,          \* POLICY_TABLE of each switch: match |-> owner of the rule
  meters,         \* meters configured on each switch
  preSession,     \* history: actions issued before the switch's present session
  aborted         \* history: actions whose install or clear an exception cut short

controllerVars == <<datapaths, active_actions, request, task>>
networkVars == <<connected, deadEvents, losses, chan, table, meters>>
historyVars == <<preSession, aborted>>
vars == <<datapaths, active_actions, request, task, connected, deadEvents,
          losses, chan, table, meters, preSession, aborted>>

-----------------------------------------------------------------------------
(* Rules and messages.                                                        *)

MatchKinds == {"ip_drop", "port_drop", "pair_drop", "metered"}
Matches == MatchKinds \X IPs

Flow(id, match) == [op |-> "flow", id |-> id, match |-> match]
AddMeter(id) == [op |-> "meter", id |-> id]
DeleteFlows(id) == [op |-> "unflow", id |-> id]
DeleteMeter(id) == [op |-> "unmeter", id |-> id]

Messages ==
  [op : {"flow"}, id : ActionIds, match : Matches] \union
  [op : {"meter", "unflow", "unmeter"}, id : ActionIds]

Issued == {id \in ActionIds : request[id] # NoRequest}

\* _target_ips: a node stands for all its interfaces, a raw address for itself.
TargetIPs(target) ==
  IF target \in Nodes THEN {i[2] : i \in Interfaces[target]} ELSE {target}

\* The interfaces a reroute blocks: those not on the preferred switch.
BlockedInterfaces(req) == {i \in Interfaces[req.target] : i[1] # req.via}

\* The 400/404/409 early returns of the handlers.
Acceptable(req) ==
  req.kind = "reroute_traffic" =>
    /\ Cardinality(Interfaces[req.target]) >= 2
    /\ BlockedInterfaces(req) # {}

\* Drop rules a reroute needs on switch s, but for the port rule, which
\* depends on whether the host was seen there.
RerouteMatches(req, s) ==
  {<<"ip_drop", i[2]>> : i \in {j \in BlockedInterfaces(req) : j[1] = s}} \union
  (IF s \in Gateways THEN {<<"pair_drop", ip>> : ip \in TargetIPs(req.target)} ELSE {})

PortMatches(req, s) ==
  {<<"port_drop", i[2]>> : i \in {j \in BlockedInterfaces(req) : j[1] = s}}

\* The matches a policy must own on switch s.
RequiredMatches(req, s) ==
  IF req.kind = "isolation" THEN {<<"ip_drop", ip>> : ip \in TargetIPs(req.target)}
  ELSE IF req.kind = "rate_limit" THEN {<<"metered", ip>> : ip \in TargetIPs(req.target)}
  ELSE IF req.kind = "reroute_traffic" /\ \E i \in BlockedInterfaces(req) : i[1] = s
       THEN RerouteMatches(req, s)
  ELSE {}

\* What the loop body of an install sends to one switch.
InstallMessages(id, req, s) ==
  {Flow(id, m) : m \in RequiredMatches(req, s)} \union
  (IF req.kind = "rate_limit" THEN {AddMeter(id)} ELSE {})

\* Wrong variant of EraseMessages: it forgets the meter.
EraseFlowsOnly(id) == {DeleteFlows(id)}

\* What the loop body of a clear sends to one switch.
EraseMessages(id) ==
  {DeleteFlows(id)} \union
  (IF request[id].kind = "rate_limit" THEN {DeleteMeter(id)} ELSE {})

\* _upsert_meter comes before the flows that use it, the flow delete before
\* the meter delete.
Precedes(m, n) ==
  \/ m.op = "meter" /\ n.op = "flow"
  \/ m.op = "unflow" /\ n.op = "unmeter"

-----------------------------------------------------------------------------
(* REST threads. pc is "install" or "erase" inside `for datapath in           *)
(* self.datapaths.values()`, "reroute" inside the loop over blocked           *)
(* interfaces.                                                                *)

\* The thread enters loop pc for action id, with these switches to visit.
Loop(pc, id, left, size, todo) ==
  [pc |-> pc, id |-> id, left |-> left, size |-> size,
   at |-> NoAction, out |-> {}, todo |-> todo]

Idle == Loop("idle", NoAction, {}, 0, {})

\* Thread state t, with switches left to visit and messages out for switch at.
Sending(t, left, at, out) ==
  [pc |-> t.pc, id |-> t.id, left |-> left, size |-> t.size,
   at |-> IF out = {} THEN NoAction ELSE at, out |-> out, todo |-> t.todo]

TaskType ==
  [pc : {"idle", "install", "reroute", "erase"},
   id : ActionIds \union {NoAction},         \* the action being worked on
   left : SUBSET Switches,                   \* switches the loop has yet to visit
   size : Nat,                               \* len(datapaths) when the loop began
   at : Switches \union {NoAction},          \* the switch being written to
   out : SUBSET Messages,                    \* messages not sent to it yet
   todo : SUBSET ActionIds]                  \* rest of a clear's snapshot

Init ==
  /\ datapaths = {}
  /\ active_actions = {}
  /\ request = [id \in ActionIds |-> NoRequest]
  /\ task = [th \in Threads |-> Idle]
  /\ connected = {}
  /\ deadEvents = [s \in Switches |-> 0]
  /\ losses = 0
  /\ chan = [s \in Switches |-> <<>>]
  /\ table = [s \in Switches |-> [m \in Matches |-> NoAction]]
  /\ meters = [s \in Switches |-> {}]
  /\ preSession = [s \in Switches |-> {}]
  /\ aborted = {}

\* Python checks the size of the dict before every step of the iteration, the
\* last one included.
SizeKept(th) == task[th].size = Cardinality(datapaths)

\* _apply_isolation, _apply_rate_limit: a fresh uuid, then the loop over datapaths.
BeginInstall(th, req, id) ==
  /\ task[th].pc = "idle"
  /\ req.kind \in PolicyKinds
  /\ id \notin Issued
  /\ request' = [request EXCEPT ![id] = req]
  /\ task' = [task EXCEPT ![th] =
       Loop("install", id, datapaths, Cardinality(datapaths), {})]
  /\ UNCHANGED <<datapaths, active_actions, networkVars, historyVars>>

\* _apply_dual_homed_reroute, up to its loop over the blocked interfaces.
BeginReroute(th, req, id) ==
  /\ task[th].pc = "idle"
  /\ req.kind = "reroute_traffic"
  /\ Acceptable(req)
  /\ id \notin Issued
  /\ request' = [request EXCEPT ![id] = req]
  /\ task' = [task EXCEPT ![th] =
       Loop("reroute", id, {i[1] : i \in BlockedInterfaces(req)}, 0, {})]
  /\ UNCHANGED <<datapaths, active_actions, networkVars, historyVars>>

\* One pass of a loop: switch s is next, and what is to be sent to it.
Visited(th, s, msgs) ==
  [task EXCEPT ![th] = Sending(@, @.left \ {s}, s, msgs)]

\* Sends go to the datapath object found in the dict. Those to an object whose
\* connection is gone are discarded.
Outgoing(s, msgs) == IF s \in connected THEN msgs ELSE {}

\* The next pass of `for datapath in self.datapaths.values()`.
VisitDatapath(th, s) ==
  /\ task[th].pc \in {"install", "erase"}
  /\ task[th].out = {}
  /\ SizeKept(th)
  /\ s \in task[th].left
  /\ LET id == task[th].id
         msgs == IF task[th].pc = "install"
                 THEN InstallMessages(id, request[id], s)
                 ELSE EraseMessages(id)
     IN task' = Visited(th, s, Outgoing(s, msgs))
  /\ UNCHANGED <<datapaths, active_actions, request, networkVars, historyVars>>

\* The next blocked interface. _datapath_for_switch skips a switch that is not
\* connected; the ingress port is dropped if the host's location is known.
VisitInterface(th, s) ==
  /\ task[th].pc = "reroute"
  /\ task[th].out = {}
  /\ s \in task[th].left
  /\ LET id == task[th].id
         req == request[id]
     IN \E ports \in {{}, PortMatches(req, s)} :
          task' = Visited(th, s,
            IF s \in datapaths
            THEN Outgoing(s, InstallMessages(id, req, s) \union {Flow(id, m) : m \in ports})
            ELSE {})
  /\ UNCHANGED <<datapaths, active_actions, request, networkVars, historyVars>>

\* The handlers fix the order of like messages; any fixed order will do.
NextMessage(out) == CHOOSE m \in out : \A n \in out : ~Precedes(n, m)

\* datapath.send_msg
Send(th) ==
  /\ task[th].out # {}
  /\ Len(chan[task[th].at]) < QueueSlots
  /\ LET m == NextMessage(task[th].out)
     IN /\ chan' = [chan EXCEPT ![task[th].at] = Append(@, m)]
        /\ task' = [task EXCEPT ![th] = Sending(@, @.left, @.at, @.out \ {m})]
  /\ UNCHANGED <<datapaths, active_actions, request, connected, deadEvents, losses,
                 table, meters, historyVars>>

\* Wrong variant: the switches not visited yet are forgotten.
LoopDoneEarly(th) == task[th].out = {}

LoopDone(th) == task[th].out = {} /\ task[th].left = {}

\* self.active_actions[action_id] = {...}; 202
Register(th) ==
  /\ \/ task[th].pc = "install" /\ SizeKept(th)
     \/ task[th].pc = "reroute"
  /\ LoopDone(th)
  /\ active_actions' = active_actions \union {task[th].id}
  /\ task' = [task EXCEPT ![th] = Idle]
  /\ UNCHANGED <<datapaths, request, networkVars, historyVars>>

\* RuntimeError: dictionary changed size during iteration. The request ends
\* with a 500 where it stands.
IterationError(th) ==
  /\ task[th].pc \in {"install", "erase"}
  /\ task[th].out = {}
  /\ ~SizeKept(th)
  /\ aborted' = aborted \union {task[th].id}
  /\ task' = [task EXCEPT ![th] = Idle]
  /\ UNCHANGED <<datapaths, active_actions, request, networkVars, preSession>>

\* A clear goes through its snapshot action by action, over every datapath for
\* each. Nothing is sent between two actions, nor before the answer.
Erase(ids) ==
  IF ids = {} THEN {Idle}
  ELSE {Loop("erase", id, datapaths, Cardinality(datapaths), ids \ {id}) : id \in ids}

\* _clear_target_policy, _clear_all_policies: the snapshot list(items()). With
\* nothing to clear they answer at once.
BeginClear(th, ids) ==
  /\ task[th].pc = "idle"
  /\ ids # {}
  /\ \E next \in Erase(ids) : task' = [task EXCEPT ![th] = next]
  /\ UNCHANGED <<datapaths, active_actions, request, networkVars, historyVars>>

ClearTarget(th, target) ==
  BeginClear(th, {id \in active_actions : request[id].target = target})

ClearAll(th) == BeginClear(th, active_actions)

\* del self.active_actions[action_id]; the next action, or "cleared" and 202.
Unregister(th) ==
  /\ task[th].pc = "erase"
  /\ LoopDone(th)
  /\ SizeKept(th)
  /\ task[th].id \in active_actions
  /\ active_actions' = active_actions \ {task[th].id}
  /\ \E next \in Erase(task[th].todo) : task' = [task EXCEPT ![th] = next]
  /\ UNCHANGED <<datapaths, request, networkVars, historyVars>>

\* The same `del` when another clear removed the entry first: KeyError, and the
\* rest of the snapshot is not cleared.
UnregisterTwice(th) ==
  /\ task[th].pc = "erase"
  /\ LoopDone(th)
  /\ SizeKept(th)
  /\ task[th].id \notin active_actions
  /\ task' = [task EXCEPT ![th] = Idle]
  /\ UNCHANGED <<datapaths, active_actions, request, networkVars, historyVars>>

-----------------------------------------------------------------------------
(* Switches and their control connections.                                    *)

\* A new entry of the dict is visited by the iterations that are under way.
WithEntry(s) ==
  [th \in Threads |->
     IF s \notin datapaths /\ task[th].pc \in {"install", "erase"}
     THEN Sending(task[th], task[th].left \union {s}, task[th].at, task[th].out)
     ELSE task[th]]

\* A removed one is not.
WithoutEntry(s) ==
  [th \in Threads |->
     IF task[th].pc \in {"install", "erase"}
     THEN Sending(task[th], task[th].left \ {s}, task[th].at, task[th].out)
     ELSE task[th]]

\* switch_features_handler and the MAIN_DISPATCHER half of state_change_handler:
\* the datapath is registered (over a stale one of the same dpid) and the default
\* pipeline installed. active_actions is not replayed.
SwitchConnects(s) ==
  /\ s \notin connected
  /\ connected' = connected \union {s}
  /\ datapaths' = datapaths \union {s}
  /\ task' = WithEntry(s)
  /\ preSession' = [preSession EXCEPT ![s] = Issued]
  /\ UNCHANGED <<active_actions, request, deadEvents, losses, chan, table, meters, aborted>>

\* The connection breaks: what is on it is lost, and so is what a thread still
\* has to send to its datapath object. The controller notices later. A switch
\* that restarted has lost its rules as well.
ConnectionLost(s, restarted) ==
  /\ s \in connected
  /\ losses < MaxLosses
  /\ losses' = losses + 1
  /\ connected' = connected \ {s}
  /\ deadEvents' = [deadEvents EXCEPT ![s] = @ + 1]
  /\ chan' = [chan EXCEPT ![s] = <<>>]
  /\ task' = [th \in Threads |->
       IF task[th].at = s THEN Sending(task[th], task[th].left, s, {}) ELSE task[th]]
  /\ IF restarted
     THEN /\ table' = [table EXCEPT ![s] = [m \in Matches |-> NoAction]]
          /\ meters' = [meters EXCEPT ![s] = {}]
     ELSE UNCHANGED <<table, meters>>
  /\ preSession' = [preSession EXCEPT ![s] = Issued]
  /\ UNCHANGED <<datapaths, active_actions, request, aborted>>

\* Wrong variant: the event is handled again and again.
HandleDeadAgain(s) ==
  /\ losses > 0
  /\ deadEvents' = [deadEvents EXCEPT ![s] = @ - 1]
  /\ datapaths' = datapaths \ {s}
  /\ task' = WithoutEntry(s)
  /\ UNCHANGED <<active_actions, request, connected, losses, chan, table, meters, historyVars>>

\* The DEAD_DISPATCHER half: self.datapaths.pop(datapath.id, None), whichever
\* datapath object the dict holds for that dpid by now.
HandleDead(s) ==
  /\ deadEvents[s] > 0
  /\ deadEvents' = [deadEvents EXCEPT ![s] = @ - 1]
  /\ datapaths' = datapaths \ {s}
  /\ task' = WithoutEntry(s)
  /\ preSession' = [preSession EXCEPT ![s] = Issued]
  /\ UNCHANGED <<active_actions, request, connected, losses, chan, table, meters, aborted>>

\* Wrong variant: a cookie mask of zero selects every entry.
AnyCookieMatches(owner, id) == owner # NoAction

\* What a delete by cookie with an all-ones mask selects.
CookieMatches(owner, id) == owner = id

\* A flow of the same match and priority replaces the entry, cookie included;
\* a metered one needs its meter. A second ADD of a meter is refused.
\* Deleting a meter deletes the flows that use it.
Installed(t, ms, m) ==
  IF m.match[1] = "metered" /\ MeterOf[m.id] \notin ms
  THEN t ELSE [t EXCEPT ![m.match] = m.id]

WithoutCookie(t, id) ==
  [match \in Matches |-> IF CookieMatches(t[match], id) THEN NoAction ELSE t[match]]

WithoutMeter(t, id) ==
  [match \in Matches |->
     IF match[1] = "metered" /\ t[match] # NoAction /\ MeterOf[t[match]] = MeterOf[id]
     THEN NoAction ELSE t[match]]

\* The switch applies the oldest message of its connection.
SwitchReceives(s) ==
  /\ chan[s] # <<>>
  /\ chan' = [chan EXCEPT ![s] = Tail(@)]
  /\ LET m == Head(chan[s])
     IN \/ /\ m.op = "flow"
           /\ table' = [table EXCEPT ![s] = Installed(@, meters[s], m)]
           /\ UNCHANGED meters
        \/ /\ m.op = "meter"
           /\ meters' = [meters EXCEPT ![s] = @ \union {MeterOf[m.id]}]
           /\ UNCHANGED table
        \/ /\ m.op = "unflow"
           /\ table' = [table EXCEPT ![s] = WithoutCookie(@, m.id)]
           /\ UNCHANGED meters
        \/ /\ m.op = "unmeter"
           /\ table' = [table EXCEPT ![s] = WithoutMeter(@, m.id)]
           /\ meters' = [meters EXCEPT ![s] = @ \ {MeterOf[m.id]}]
  /\ UNCHANGED <<controllerVars, connected, deadEvents, losses, historyVars>>

-----------------------------------------------------------------------------

Work(th) ==
  \/ \E s \in Switches : VisitDatapath(th, s) \/ VisitInterface(th, s)
  \/ Send(th)
  \/ Register(th)
  \/ IterationError(th)
  \/ Unregister(th)
  \/ UnregisterTwice(th)

Request(th) ==
  \/ \E req \in Offered, id \in ActionIds :
       BeginInstall(th, req, id) \/ BeginReroute(th, req, id)
  \/ \E target \in Targets : ClearTarget(th, target)
  \/ ClearAll(th)

Network(s) ==
  \/ SwitchConnects(s)
  \/ \E restarted \in BOOLEAN : ConnectionLost(s, restarted)
  \/ HandleDead(s)
  \/ SwitchReceives(s)

Next ==
  \/ \E th \in Threads : Work(th) \/ Request(th)
  \/ \E s \in Switches : Network(s)

Spec == Init /\ [][Next]_vars

\* A runnable green thread is resumed and TCP delivers what was sent.
FairSpec ==
  /\ Spec
  /\ \A th \in Threads : WF_vars(Work(th))
  /\ \A s \in Switches : WF_vars(SwitchReceives(s)) /\ WF_vars(HandleDead(s))
-----------------------------------------------------------------------------
(* What the controller must guarantee.                                        *)

\* Every variable holds what the controller and the switches can hold: what a
\* thread works on, what is on a connection, who owns a rule.
TypeOK ==
  /\ datapaths \subseteq Switches
  /\ active_actions \subseteq ActionIds
  /\ request \in [ActionIds -> Requests \union {NoRequest}]
  /\ task \in [Threads -> TaskType]
  /\ connected \subseteq Switches
  /\ deadEvents \in [Switches -> Nat]
  /\ losses \in 0..MaxLosses
  /\ chan \in [Switches -> Seq(Messages)]
  /\ table \in [Switches -> [Matches -> ActionIds \union {NoAction}]]
  /\ meters \in [Switches -> SUBSET MeterIds]
  /\ preSession \in [Switches -> SUBSET ActionIds]
  /\ aborted \subseteq ActionIds

Installing(id) ==
  \E th \in Threads : task[th].pc \in {"install", "reroute"} /\ task[th].id = id

Erasing(id) == \E th \in Threads : task[th].pc = "erase" /\ task[th].id = id

\* A delete of id's flows follows message i on its way to s.
DeletedLater(s, id, i) ==
  \E j \in DOMAIN chan[s] : j > i /\ chan[s][j] = DeleteFlows(id)

\* Rule m of id is on s or on its way there, and no delete of it follows.
Stands(s, id, m) ==
  \/ table[s][m] = id /\ ~DeletedLater(s, id, 0)
  \/ \E i \in DOMAIN chan[s] : chan[s][i] = Flow(id, m) /\ ~DeletedLater(s, id, i)

\* Someone answers for what id put on s: the registry, the handler that is
\* installing it, or one of the two losses the code does not handle: the switch
\* changed sessions since, or an exception cut a request on id short.
Accounted(s, id) ==
  \/ id \in active_actions
  \/ Installing(id)
  \/ id \in preSession[s]
  \/ id \in aborted

\* A policy rule never outlives its registry entry: whatever clears and installs
\* overlap, a rule that no delete is following belongs to a registered action,
\* except for the two losses Accounted names.
NoOrphanRules ==
  \A s \in Switches, id \in ActionIds, m \in Matches :
    Stands(s, id, m) => Accounted(s, id)

MeterStands(s, meter) ==
  LET deletedAfter(i) ==
        \E j \in DOMAIN chan[s] :
          j > i /\ chan[s][j].op = "unmeter" /\ MeterOf[chan[s][j].id] = meter
  IN \/ meter \in meters[s] /\ ~deletedAfter(0)
     \/ \E i \in DOMAIN chan[s] :
          /\ chan[s][i].op = "meter" /\ MeterOf[chan[s][i].id] = meter
          /\ ~deletedAfter(i)

\* A meter never outlives the rate limits that use it, under the same exceptions.
NoOrphanMeters ==
  \A s \in Switches, meter \in MeterIds :
    MeterStands(s, meter) =>
      \E id \in Issued : MeterOf[id] = meter /\ Accounted(s, id)

\* Another request wants the same match, or the same meter: the last one owns it.
Contended(id, m) ==
  \E other \in Issued \ {id} :
    \/ \E s \in Switches : m \in RequiredMatches(request[other], s)
    \/ m[1] = "metered" /\ MeterOf[other] = MeterOf[id]

\* A registered policy is in force: on every switch of the present session each
\* of its rules stands, unless it is being cleared, a clear of it was cut short,
\* or a later request took the match over. (The registry says "installed".)
RegisteredIsEnforced ==
  \A id \in active_actions, s \in datapaths \intersect connected :
    id \notin preSession[s] \union aborted /\ ~Erasing(id) =>
      \A m \in RequiredMatches(request[id], s) : Contended(id, m) \/ Stands(s, id, m)

Cleared(id) ==
  id \in Issued \ (active_actions \union aborted) /\ ~Installing(id)

\* Clearing takes effect: once an action has left the registry its rules leave
\* every switch whose session lasts.
ClearTakesEffect ==
  \A id \in ActionIds, s \in Switches :
    Cleared(id) ~> \/ id \in preSession[s]
                   \/ \A m \in Matches : table[s][m] # id
=============================================================================
