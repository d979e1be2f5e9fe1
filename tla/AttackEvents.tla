---------------------------- MODULE AttackEvents ----------------------------
(* What becomes of the events the dispatch bridge posts (CalderaBridge): the  *)
(* cloud logger (environment/services/cloud-logger/app.py) writes them to its *)
(* log and passes them to cloud metrics (cloud-metrics/app.py), where they    *)
(* set the values the game's state is read from. Both services have a thread  *)
(* per request and hold their lock for the write only, so two events overtake *)
(* each other between them, and a call that timed out arrives all the same.   *)
(*                                                                            *)
(* Samples and per-metric values other than attack_active feed no property    *)
(* and are left out; the 500-event caps are not reached.                      *)
EXTENDS CalderaBridge, Sequences, SequencesExt

CONSTANTS
  Scenarios,    \* scenario ids
  ScenarioOf,   \* dispatch |-> scenario of its plan
  MaxTroubles   \* bound: events whose post or report fails or times out

ASSUME ScenarioAssumption == ScenarioOf \in [Dispatches -> Scenarios]
ASSUME TroubleBound == MaxTroubles \in Nat

VARIABLES
  log,              \* the logger's JSONL file
  progress,         \* how far each event has come
  answered,         \* events whose post to the logger was answered
  attack_active,    \* latest_values[(scenario, "attacker", "attack_active")]
  latest_results,   \* latest_attack_results: scenario |-> set of at most one event
  overdue,          \* history: events the bridge or the logger stopped waiting for
  overlapped        \* history: scenarios two operations of which were reported at once

eventVars == <<log, progress, answered, attack_active, latest_results, overdue, overlapped>>
campaignVars == <<bridgeVars, eventVars>>

Stages == {"unsent", "to_logger", "logged", "to_metrics", "recorded", "lost", "unreported"}

CampaignInit ==
  /\ BridgeInit
  /\ log = <<>>
  /\ progress = [e \in Events |-> "unsent"]
  /\ answered = {}
  /\ attack_active = [sc \in Scenarios |-> FALSE]
  /\ latest_results = [sc \in Scenarios |-> {}]
  /\ overdue = {}
  /\ overlapped = {}

Scenario(e) == ScenarioOf[e.op]
Reported(d) == thread[d].pc \in {"starting", "poll", "result", "resulting"}

\* Events whose post or report failed or timed out.
Troubled == overdue \union {e \in posted : progress[e] \in {"lost", "unreported"}}
MayFail == Cardinality(Troubled) < MaxTroubles

Moves(e, next, failed) ==
  \/ progress' = [progress EXCEPT ![e] = next]
  \/ MayFail /\ progress' = [progress EXCEPT ![e] = failed]

\* The bridge posts e; the logger may be out of reach.
Posted(e) ==
  /\ Moves(e, "to_logger", "lost")
  /\ UNCHANGED <<log, answered, attack_active, latest_results, overdue>>

PostsStart(d) ==
  /\ PostStart(d)
  /\ Posted(StartEvent(d))
  /\ overlapped' = overlapped \union
       {ScenarioOf[d] : other \in {x \in Dispatches \ {d} :
                                     Reported(x) /\ ScenarioOf[x] = ScenarioOf[d]}}

PostsResult(d) ==
  /\ PostResult(d)
  /\ Posted(ResultEvent(d, thread[d].last))
  /\ UNCHANGED overlapped

\* Wrong variant: fire and forget.
GoesOnAtOnce(e) == UNCHANGED eventVars

\* The bridge goes on: the post was answered, could not be made, or timed out.
GoesOn(e) ==
  /\ \/ (e \in answered \/ progress[e] = "lost") /\ UNCHANGED overdue
     \/ e \notin answered /\ MayFail /\ overdue' = overdue \union {e}
  /\ UNCHANGED <<log, progress, answered, attack_active, latest_results, overlapped>>

StartsPolling(d) == StartPolling(d) /\ GoesOn(StartEvent(d))

FinishesPolling(d) == FinishPolling(d) /\ GoesOn(ResultEvent(d, thread[d].last))

-----------------------------------------------------------------------------
(* The logger.                                                                *)

\* append_event, under state_lock.
Log(e) ==
  /\ progress[e] = "to_logger"
  /\ log' = Append(log, e)
  /\ progress' = [progress EXCEPT ![e] = "logged"]
  /\ UNCHANGED <<bridgeVars, answered, attack_active, latest_results, overdue, overlapped>>

\* report_experiment_event, after the lock was released.
Report(e) ==
  /\ progress[e] = "logged"
  /\ Moves(e, "to_metrics", "unreported")
  /\ UNCHANGED <<bridgeVars, log, answered, attack_active, latest_results, overdue, overlapped>>

\* Wrong variant: the answer is sent as soon as the event is in the log.
AnswerEarly(e) ==
  /\ e \notin answered
  /\ progress[e] \in {"logged", "to_metrics", "recorded", "unreported"}
  /\ answered' = answered \union {e}
  /\ UNCHANGED <<bridgeVars, log, progress, attack_active, latest_results, overdue, overlapped>>

\* 202, once the report was answered, failed, or timed out.
Answer(e) ==
  /\ e \notin answered
  /\ \/ progress[e] \in {"recorded", "unreported"} /\ UNCHANGED overdue
     \/ progress[e] = "to_metrics" /\ MayFail /\ overdue' = overdue \union {e}
  /\ answered' = answered \union {e}
  /\ UNCHANGED <<bridgeVars, log, progress, attack_active, latest_results, overlapped>>

-----------------------------------------------------------------------------
(* The metrics service.                                                       *)

\* Wrong variant: every event of an attack counts as one that goes on.
ActiveAfterAny(e) == TRUE

ActiveAfter(e) == e.type = "attack_start"

\* Wrong variant: earlier results are kept.
LatestOfAll(e) == latest_results[Scenario(e)] \union {e}

Latest(e) == {e}

\* record_attack_event, under state_lock.
Record(e) ==
  /\ progress[e] = "to_metrics"
  /\ progress' = [progress EXCEPT ![e] = "recorded"]
  /\ attack_active' = [attack_active EXCEPT ![Scenario(e)] = ActiveAfter(e)]
  /\ latest_results' =
       IF e.type = "attack_result" THEN [latest_results EXCEPT ![Scenario(e)] = Latest(e)]
       ELSE latest_results
  /\ UNCHANGED <<bridgeVars, log, answered, overdue, overlapped>>

Serve(e) == Log(e) \/ Report(e) \/ Answer(e) \/ Record(e)

BridgeAlone ==
  \/ \E d \in Dispatches :
       \/ Preflight(d) \/ Query(d) \/ Launch(d) \/ Poll(d) \/ OperationEnds(d)
       \/ \E a \in Agents : PatchNext(d, a) \/ Restore(d, a)
  \/ BridgeStops

CampaignNext ==
  \/ BridgeAlone /\ UNCHANGED eventVars
  \/ \E d \in Dispatches :
       PostsStart(d) \/ StartsPolling(d) \/ PostsResult(d) \/ FinishesPolling(d)
  \/ \E e \in posted : Serve(e)

CampaignSpec == CampaignInit /\ [][CampaignNext]_campaignVars
-----------------------------------------------------------------------------

\* Every variable holds what the logger and the metrics service can hold; an event
\* has left the bridge exactly when it was posted.
EventsTypeOK ==
  /\ BridgeTypeOK
  /\ Range(log) \subseteq posted
  /\ progress \in [Events -> Stages]
  /\ \A e \in Events : progress[e] # "unsent" <=> e \in posted
  /\ answered \subseteq posted
  /\ attack_active \in [Scenarios -> BOOLEAN]
  /\ \A sc \in Scenarios : /\ latest_results[sc] \subseteq Events
                           /\ Cardinality(latest_results[sc]) <= 1
  /\ overdue \subseteq posted
  /\ overlapped \subseteq Scenarios

\* No post or report of the scenario failed or timed out, its operations were
\* reported one after the other, and the bridge stopped during none of them.
Undisturbed(sc) ==
  /\ sc \notin overlapped
  /\ \A e \in Troubled : Scenario(e) # sc
  /\ \A d \in Dispatches : ScenarioOf[d] = sc /\ At(d, "dead") => StartEvent(d) \notin posted

\* The log holds each event once, and the start of an operation before its
\* result, unless the post of the start timed out and was served late.
StartsFirst ==
  \A i, j \in DOMAIN log :
    i < j => /\ log[i] # log[j]
             /\ log[i].op = log[j].op /\ log[i].type = "attack_result" =>
                  StartEvent(log[i].op) \in overdue

\* While an operation is polled its scenario is shown as under attack, and when
\* its result was posted it is not any more; the bridge waits for its posts and
\* the logger for its reports, so that two locks and four threads keep the order.
ActiveDuringAttack ==
  \A d \in Dispatches :
    LET sc == ScenarioOf[d]
    IN Undisturbed(sc) =>
         /\ thread[d].pc \in {"poll", "result"} => attack_active[sc]
         /\ StartEvent(d) \in posted /\ thread[d].pc \in {"restore", "done"}
              /\ (\A x \in Dispatches : ScenarioOf[x] = sc => ~Reported(x))
            => ~attack_active[sc]

\* The result metrics shows is the last one in the log, once nothing of the
\* scenario is under way.
LatestResultIsLogged ==
  \A sc \in Scenarios :
    LET results == {i \in DOMAIN log : Scenario(log[i]) = sc /\ log[i].type = "attack_result"}
        settled == \A e \in posted : Scenario(e) = sc => e \in answered
    IN Undisturbed(sc) /\ settled =>
         \A i \in results : (\A j \in results : j <= i) => latest_results[sc] = {log[i]}
=============================================================================
