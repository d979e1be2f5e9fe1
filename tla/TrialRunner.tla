---------------------------- MODULE TrialRunner ----------------------------
(* The clients of the controller and of the cloud's policy service at work    *)
(* side by side: the two stage runners (game/strategy_runtime.py,             *)
(* eval/runners/run_stage.py) from the selection of a defence to its          *)
(* execution, and the trial runner (eval/runners/run_trial.py), which takes a *)
(* decision of a baseline or of the model, has it checked and adapted         *)
(* (defender/actions) and repeats a call that is not answered                 *)
(* (eval/emulator_client).                                                    *)
(*                                                                            *)
(* A round is a stage or a trial. A call is served by a thread of the service *)
(* it goes to, also after its caller gave it up. What a stage selects is      *)
(* DefenderSelector's and GameRounds' subject, how the controller installs    *)
(* MtdController's; the event a trial posts is left out.                      *)
EXTENDS CloudPolicy, Sequences

CONSTANTS
  Selections,      \* what a stage may select: [action, target]
  Modes,           \* model_mode of the trials
  ScenarioNodes,   \* entry node, path and target asset of the trials' scenario
  EntryNode,       \* its entry node
  OtherNodes,      \* nodes of the network that are not of the scenario
  NoTarget,        \* the empty target
  Parameters,      \* parameters of the model's answers that name keys of a request
  MaxRounds,       \* bound: rounds of each caller
  MaxGivenUp       \* bound: calls given up

\* A request that names no action_id.
NoId == <<Trial, 0, 0>>

\* The actions of the strategies of game/strategy_space.json; none of them undoes
\* another.
StageActions == {"observe", "quarantine_sensor", "isolate_sensor", "rate_limit", "reroute_traffic"}

\* A request to the controller: named if parameters named keys of it.
Choice(action, target) == [action |-> action, target |-> target, id |-> NoId, named |-> FALSE]

\* Parameters are a function from the keys of the request they name: "action",
\* "target", "action_id". What else they say (kbps, via) is left out.
NoParameters == [key \in {} |-> {}]

ASSUME TrialRunnerAssumption ==
  /\ \A x \in Selections : x.action \in StageActions /\ x = Choice(x.action, x.target)
  /\ EntryNode \in ScenarioNodes
  /\ NoParameters \notin Parameters
  /\ Modes \subseteq {"game_only", "rule_only", "random_baseline", "llm"}
  /\ MaxRounds \in [Callers -> Nat] /\ MaxGivenUp \in Nat

VARIABLES
  external,   \* the service's external_context
  mtd,        \* the controller's policies: [action, target, id, by, n, selected]
  caller,     \* each caller's round: [n, at, try, choice, decided]
  calls,      \* calls on their way or being served
  late,       \* history: the calls that were given up: [by, n, to]
  givenUp     \* how many times one was

vars == <<external, mtd, caller, calls, late, givenUp>>

Supported == {"observe", "quarantine_sensor", "rate_limit", "reroute_traffic", "release_sensor"}
Observe == Choice("observe", NoTarget)

-----------------------------------------------------------------------------
(* The decision of a trial: [action, target, sound, parameters], where a       *)
(* decision is sound if its rate limit is positive and its reroute goes via an *)
(* edge switch.                                                                *)

Decision(choice, sound, parameters) ==
  [action |-> choice.action, target |-> choice.target, sound |-> sound, parameters |-> parameters]

\* The baselines, by whether the state read shows pressure.
GameBaseline(pressed) == IF pressed THEN Choice("quarantine_sensor", EntryNode) ELSE Observe
RuleBaseline(pressed) == IF pressed THEN Choice("rate_limit", EntryNode) ELSE Observe
RandomBaseline == {Choice(a, IF a = "observe" THEN NoTarget ELSE EntryNode) : a \in Supported}

\* The model's answer has the form of a decision and any content ...
Answered ==
  {Decision(Choice(a, t), sound, parameters) :
     a \in Supported \union {"isolate_sensor"}, t \in ScenarioNodes \union OtherNodes \union {NoTarget},
     sound \in BOOLEAN, parameters \in Parameters \union {NoParameters}}

\* ... or is a text, of which _recover_decision_from_text makes one.
Recovered ==
  {Decision(Observe, TRUE, NoParameters)} \union
  {Decision(Choice(a, t), sound, NoParameters) : a \in Supported \ {"observe"}, t \in ScenarioNodes, sound \in BOOLEAN}

\* _select_decision
Decisions(mode, pressed) ==
  CASE mode = "game_only" -> {Decision(GameBaseline(pressed), TRUE, NoParameters)}
    [] mode = "rule_only" -> {Decision(RuleBaseline(pressed), TRUE, NoParameters)}
    [] mode = "random_baseline" -> {Decision(choice, TRUE, NoParameters) : choice \in RandomBaseline}
    [] OTHER -> Answered \union Recovered

\* Wrong variant: any node may be the target.
ExecutableAnywhere(d) == d.action \in Supported /\ d.sound

\* ConstraintGuard.evaluate: of the parameters it reads the limit and the switch only.
Executable(d) ==
  /\ d.action \in Supported
  /\ d.action # "observe" => d.target \in ScenarioNodes \union {NoTarget}
  /\ d.action \in {"rate_limit", "reroute_traffic"} => d.sound

\* The request that is made of a decision: its parameters cover action and target,
\* and may name an action_id.
Payload(action, target, parameters) ==
  LET body == Overlaid([action |-> action, target |-> target, action_id |-> NoId], parameters)
  IN [action |-> body["action"], target |-> body["target"], id |-> body["action_id"],
      named |-> parameters # NoParameters]

\* ActionAdapter.adapt: what cannot be executed is only observed.
Adapted(d) ==
  CASE ~Executable(d) -> Choice("observe", d.target)
    [] d.action = "observe" /\ d.target = NoTarget -> Observe
    [] OTHER -> Payload(d.action, d.target, d.parameters)

\* What a trial may ask of the controller.
Requests ==
  UNION {{Adapted(d) : d \in Decisions(mode, pressed)} : mode \in Modes, pressed \in BOOLEAN}

-----------------------------------------------------------------------------
(* Calls.                                                                     *)

NoRound == [n |-> 0, at |-> 0, try |-> 0, choice |-> NoChoice, decided |-> NoChoice]

\* The rounds end and begin between calls: at counts those of the round.
Idle(r) == caller[r].at = 0
Calling(r) == CallsOf(r)[caller[r].at]

\* The controller is asked for what was decided, the policy service gets what was
\* selected.
Call(r, round) ==
  LET to == CallsOf(r)[round.at]
  IN [by |-> r, n |-> round.n, to |-> to, try |-> round.try, selected |-> round.choice,
      choice |-> IF to = "action" THEN Intent(round.decided, round.choice) ELSE round.choice,
      context |-> NoContext]

Post(c) == [by |-> c.by, n |-> c.n, choice |-> c.selected]

\* Whether the caller still waits for this call.
Awaited(c) ==
  ~Idle(c.by) /\ c.n = caller[c.by].n /\ c.to = Calling(c.by) /\ c.try = caller[c.by].try

\* A stage that only observes does not call the controller, a trial does.
Over(r, round) ==
  \/ round.at > Len(CallsOf(r))
  \/ /\ r # Trial /\ CallsOf(r)[round.at] = "action"
     /\ Intent(round.decided, round.choice).action = "observe"

\* The caller goes on to its next call, or ends the round; the calls left are these.
GoesOn(r, decided, left) ==
  LET round == [caller[r] EXCEPT !.at = @ + 1, !.try = 1, !.decided = decided]
  IN IF Over(r, round)
     THEN /\ caller' = [caller EXCEPT ![r] = [NoRound EXCEPT !.n = caller[r].n]]
          /\ calls' = left
     ELSE /\ caller' = [caller EXCEPT ![r] = round]
          /\ calls' = left \union {Call(r, round)}

\* A call is answered: with a decision, or with nothing its caller looks at.
Answer(c, decided) ==
  IF Awaited(c) THEN GoesOn(c.by, decided, calls \ {c})
  ELSE calls' = calls \ {c} /\ UNCHANGED caller

-----------------------------------------------------------------------------
Init ==
  /\ external = NoContext
  /\ mtd = {}
  /\ caller = [r \in Callers |-> NoRound]
  /\ calls = {}
  /\ late = {} /\ givenUp = 0

\* A round begins with a choice made, and its first call.
Begins(r, choice) ==
  LET round == [n |-> caller[r].n + 1, at |-> 1, try |-> 1, choice |-> choice,
                decided |-> NoChoice]
  IN /\ Idle(r) /\ caller[r].n < MaxRounds[r]
     /\ caller' = [caller EXCEPT ![r] = round]
     /\ calls' = calls \union {Call(r, round)}
     /\ UNCHANGED <<external, mtd, late, givenUp>>

\* A stage has selected a defence.
BeginStage == \E r \in {Runtime, Eval}, choice \in Selections : Begins(r, choice)

\* A trial has read the state and taken its decision; one of an answer nothing can
\* be made of ends before it called anybody.
BeginTrial == \E request \in Requests : Begins(Trial, request)

\* The history of a call given up, and the calls that are left if it may be served
\* still or is lost.
Late(r) == late \union {[by |-> r, n |-> caller[r].n, to |-> Calling(r)]}
Left(r) == {calls, {c \in calls : ~Awaited(c) \/ c.by # r}}

\* The call times out or fails; it is made again, or the caller goes on without an
\* answer.
GiveUp(r) ==
  /\ ~Idle(r) /\ givenUp < MaxGivenUp
  /\ givenUp' = givenUp + 1 /\ late' = Late(r)
  /\ \E left \in Left(r), tries \in Tries(r, Calling(r)) :
       IF caller[r].try < tries
       THEN LET again == [caller[r] EXCEPT !.try = @ + 1]
            IN /\ caller' = [caller EXCEPT ![r] = again]
               /\ calls' = left \union {Call(r, again)}
       ELSE /\ caller[r].try = tries
            /\ GoesOn(r, caller[r].decided, left)
  /\ UNCHANGED <<external, mtd>>

\* POST /context, under the lock.
ServeContext(c) ==
  /\ c.to = "context"
  /\ external' = UpdateContext(external, ContextPayload(Post(c)))
  /\ Answer(c, NoChoice)
  /\ UNCHANGED <<mtd, late, givenUp>>

\* POST /decide: the snapshot is taken under the lock, ...
Snapshot(c) ==
  /\ c.to = "decide" /\ c.context = NoContext
  /\ calls' = (calls \ {c}) \union
       {[c EXCEPT !.context = MergedContext(external, ContextPayload(Post(c)))]}
  /\ UNCHANGED <<external, mtd, caller, late, givenUp>>

\* ... the decision by it is answered later.
Decide(c) ==
  /\ c.to = "decide" /\ c.context # NoContext
  /\ Answer(c, StrategyAction(c.context))
  /\ UNCHANGED <<external, mtd, late, givenUp>>

\* The policy a request installs: a new one, under an id of its own, unless it names
\* the id of one there may be.
Installed(c) ==
  [action |-> c.choice.action, target |-> c.choice.target,
   id |-> IF c.choice.id = NoId THEN <<c.by, c.n, c.try>> ELSE c.choice.id,
   by |-> c.by, n |-> c.n, selected |-> c.selected]

Releases == {"release_sensor", "clear_quarantine", "clear_target_policy"}
Installs == {"quarantine_sensor", "isolate_sensor", "rate_limit", "reroute_traffic"}

\* POST /mtd/action: what a request makes of the policies. A release takes away all
\* that there is on its target; an install may be refused (an unknown node, one that is
\* not dual-homed, a limit that is no number).
Applied(c) ==
  CASE c.choice.action = "clear_all_policies" -> {{}}
    [] c.choice.action \in Releases /\ c.choice.target # NoTarget ->
         {{p \in mtd : p.target # c.choice.target}}
    [] c.choice.action \in Installs /\ c.choice.target # NoTarget ->
         {mtd, {p \in mtd : p.id # Installed(c).id} \union {Installed(c)}}
    [] OTHER -> {mtd}

ServeAction(c) ==
  /\ c.to = "action"
  /\ mtd' \in Applied(c)
  /\ Answer(c, NoChoice)
  /\ UNCHANGED <<external, late, givenUp>>

Serve(c) == ServeContext(c) \/ Snapshot(c) \/ Decide(c) \/ ServeAction(c)

Next ==
  \/ BeginStage \/ BeginTrial
  \/ \E r \in Callers : GiveUp(r)
  \/ \E c \in calls : Serve(c)

Spec == Init /\ [][Next]_vars

-----------------------------------------------------------------------------
(* Properties.                                                                *)

\* What a stage runner has installed is what it selected in that very stage, though
\* the runtime takes it from the policy service's answer, and that decides by a
\* context anybody writes, late calls of earlier stages included.
OwnSelection ==
  \A p \in mtd : p.by # Trial => Choice(p.action, p.target) = p.selected

\* The strategies of the service's context are of one post, that of the latest stage
\* of the runner it came from, unless that runner once gave up posting.
ContextIsLatest ==
  NoContext # external =>
    LET post == external["strategy_layer"]
        posting == ~Idle(post.by) /\ Calling(post.by) = "context"
    IN /\ external["selected_defender_strategy"] = post
       /\ (\A l \in late : l.by = post.by => l.to # "context") =>
            caller[post.by].n = post.n + (IF posting THEN 1 ELSE 0)

\* A call to the controller installs once, unless it was given up and made again,
\* and a stage runner's never twice.
InstalledOnce ==
  \A p \in mtd :
    LET same == {q \in mtd : q.by = p.by /\ q.n = p.n}
    IN Cardinality(same) > 1 =>
         p.by = Trial /\ [by |-> Trial, n |-> p.n, to |-> "action"] \in late

\* A trial touches no node outside its scenario, whatever action and target the model
\* answered: a policy there comes from a stage runner and stays. Excepted are answers
\* whose parameters name an action, a target or an id of their own: the adapter puts
\* them over what the guard has checked.
GuardedTarget ==
  [][\A p \in (mtd \ mtd') \union (mtd' \ mtd) :
       p.target \notin ScenarioNodes =>
         \/ p \in mtd' /\ p.by # Trial
         \/ p.selected.named
         \/ \E c \in calls \ calls' : c.by = Trial /\ c.to = "action" /\ c.choice.named]_vars
=============================================================================
