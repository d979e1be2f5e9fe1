---------------------------- MODULE StateBuilder ----------------------------
(* The state a stage takes for the state of the system, as built by           *)
(* game/state_builder.py (build_state): read off cloud-metrics, the           *)
(* controller's status and metrics, and the MulVAL policy. Pure operators;    *)
(* GameRounds calls them with what the sources hold at the time of a call.    *)
(*                                                                            *)
(* Rows of metrics are sets of names. A counter whose only use is "> 0" is    *)
(* a Boolean; the storage counter, whose growth is compared, is a number.     *)
(* Latencies, throughput, resource use and probabilities are left out.        *)
EXTENDS Integers, Sequences, SequencesExt, FiniteSets, FiniteSetsExt

CONSTANTS
  Scenarios,      \* scenario ids of the registry
  FirstScenario,  \* the first one of it
  ScenarioPath,   \* for each scenario, its mulval_path
  PolicyScenario, \* the scenario the MulVAL policy was generated for
  PolicyPaths,    \* its attack paths
  MinDelta,       \* cloud_storage_min_delta
  MinRatio        \* cloud_storage_min_ratio, in percent

ASSUME StateBuilderAssumption ==
  /\ FirstScenario \in Scenarios
  /\ DOMAIN ScenarioPath = Scenarios
  /\ MinDelta \in Nat
  /\ MinRatio \in 0..100

-----------------------------------------------------------------------------
(* The sources.                                                               *)

\* The latest values of a scenario's attacker and defender rows. Every event
\* writes events_total, so there are rows as soon as there was one event.
NoAttack == [rows |-> FALSE, active |-> FALSE, success |-> FALSE, effect |-> FALSE, seen |-> {}]
NoDefence == [rows |-> FALSE, success |-> FALSE, flags |-> {}]

\* How far telemetry got (1 gateway, 2 worker), and what cloud-db confirmed.
NoWork == [reached |-> 0, storage |-> 0]

NoCore == [attack |-> [s \in Scenarios |-> NoAttack],
           defence |-> [s \in Scenarios |-> NoDefence],
           work |-> NoWork]

NoTotals == [flows |-> 0, meters |-> 0]

\* /core, directly or through docker: without an answer it is empty.
FetchCore(obs) == IF obs.core = "none" THEN NoCore ELSE obs.data

\* try_fetch_json, try_fetch_text: an error is noted and the value is empty. The
\* error of a direct fetch is dropped when docker answered instead.
FetchStatus(obs) == IF obs.status THEN obs.actions ELSE {}
FetchTotals(obs) == IF obs.metrics THEN obs.totals ELSE NoTotals

SourceErrors(obs) ==
  (IF obs.core = "none" THEN {"core"} ELSE {})
    \union (IF obs.status THEN {} ELSE {"status"})
    \union (IF obs.metrics THEN {} ELSE {"metrics"})

ControllerReachable(obs) == obs.status \/ obs.metrics

-----------------------------------------------------------------------------
(* Scenario and path.                                                         *)

\* choose_scenario_id: the one asked for; else the one whose rows sum to most,
\* where an attack that is active outweighs all others; else the one of the
\* policy, or the first. Which of several scores highest, and which path of the
\* policy is its first one, is left open.
ChosenScenarios(core, asked) ==
  LET attacked == {s \in Scenarios : core.attack[s].active}
      known == {s \in Scenarios : core.attack[s].rows \/ core.defence[s].rows}
      mapped == {s \in Scenarios : ScenarioPath[s] \in PolicyPaths}
  IN CASE asked \in Scenarios -> {asked}
       [] attacked # {} -> attacked
       [] known # {} -> known
       [] PolicyScenario \in Scenarios -> {PolicyScenario}
       [] mapped # {} -> mapped \union {FirstScenario}
       [] OTHER -> {FirstScenario}

\* strategy_space_candidates_from_mulval: the paths of the policy, under the
\* scenario they belong to, and the paths of the registry the policy has not.
Candidates ==
  LET owner(path) ==
        IF \E s \in Scenarios : ScenarioPath[s] = path
        THEN CHOOSE s \in Scenarios : ScenarioPath[s] = path
        ELSE PolicyScenario
  IN {[scenario |-> owner(p), path |-> p] : p \in {q \in PolicyPaths : Len(q) > 1}}
       \union {[scenario |-> s, path |-> ScenarioPath[s]] :
                 s \in {t \in Scenarios : Len(ScenarioPath[t]) > 1}}

PlausiblePaths(s) ==
  {c.path : c \in {d \in Candidates : d.scenario = s \/ d.path = ScenarioPath[s]}}

\* current_path_risk_details: the policy has exactly this path.
ExactMatch(s) == ScenarioPath[s] \in PolicyPaths

-----------------------------------------------------------------------------
(* Evidence.                                                                  *)

\* derive_cloud_seen: a confirmed exfiltration; a signal of the attack, if it ran
\* or succeeded; a changed rate of summaries, or enough growth over a baseline,
\* if abilities ran in this stage against this scenario.
CloudSeen(rows, work, c) ==
  LET delta == work.storage - c.baseline
  IN \/ "exfil" \in rows.seen
     \/ "cloud" \in rows.seen /\ (c.abilities \/ rows.effect \/ rows.success)
     \/ c.abilities /\ rows.rows /\ "summary_rate" \in rows.seen
     \/ /\ c.abilities /\ rows.rows
        /\ c.baseline > 0
        /\ delta >= MinDelta
        /\ 100 * delta >= MinRatio * c.baseline

\* Wrong variant: telemetry alone is evidence.
WorkerSeenAnyhow(rows, work) == "worker" \in rows.seen \/ work.reached >= 2

\* Once a scenario has attacker rows, telemetry that gets through is evidence, too.
GatewaySeen(rows, work) == "gateway" \in rows.seen \/ (rows.rows /\ work.reached >= 1)
WorkerSeen(rows, work) == "worker" \in rows.seen \/ (rows.rows /\ work.reached >= 2)

RawPathStage(rows, work, c) ==
  CASE CloudSeen(rows, work, c) -> 3
    [] WorkerSeen(rows, work) -> 2
    [] GatewaySeen(rows, work) -> 1
    [] OTHER -> 0

Quarantines == {"quarantine_sensor", "isolate_sensor", "clear_quarantine"}

\* The effects of the actions that the controller's status shows.
LiveFlags(actions) ==
  {f \in {"drop", "counters", "rate"} :
     \E a \in actions :
        CASE f = "drop" -> a.action \in Quarantines
          [] f = "counters" -> a.action = "isolate_sensor"
          [] f = "rate" -> a.action \in {"rate_limit", "rate_limit_sensor"}}

\* Wrong variant: what an event reported is believed whatever the controller shows.
NeverStale(actions, reported) == FALSE

\* query_ryu_defense_state: the flags an event reported are stale once the
\* controller shows no active action - any other action keeps them alive.
StaleMetrics(actions, reported) ==
  actions = {} /\ (reported.success \/ reported.flags # {})

DefenceFlags(actions, reported) ==
  LiveFlags(actions) \union (IF StaleMetrics(actions, reported) THEN {} ELSE reported.flags)

DefenceSuccess(actions, reported) == reported.success /\ ~StaleMetrics(actions, reported)

DefenceActive(actions, reported) ==
  \/ actions # {}
  \/ (reported.success \/ reported.flags # {}) /\ ~StaleMetrics(actions, reported)

\* derive_effective_path_stage: how far a defence is taken to have pushed it back.
Regression(raw, flags, success, effect) ==
  Max({IF "drop" \in flags THEN 1 ELSE 0,
       IF "counters" \in flags THEN 2 ELSE 0,
       IF success /\ ~effect /\ raw > 0 THEN 1 ELSE 0})

EffectivePathStage(raw, flags, success, effect) ==
  Max({0, raw - Regression(raw, flags, success, effect)})

-----------------------------------------------------------------------------
(* build_state for scenario s under the constraints c: baselines of the       *)
(* storage and of the controller's totals (or NoBaseline), whether abilities  *)
(* ran, strict preconditions and the budgets, which the state carries along.  *)

NoBaseline == -1

\* `strict_preconditions` raises when the policy has no exact match of the path.
Refused(s, c) == c.strict /\ ~ExactMatch(s)

Delta(total, baseline) == IF baseline = NoBaseline THEN 0 ELSE Max({0, total - baseline})

BuildState(obs, s, c) ==
  LET core == FetchCore(obs)
      rows == core.attack[s]
      reported == core.defence[s]
      actions == FetchStatus(obs)
      totals == FetchTotals(obs)
      raw == RawPathStage(rows, core.work, c)
      flags == DefenceFlags(actions, reported)
      success == DefenceSuccess(actions, reported)
  IN [scenario |-> s,
      raw |-> raw,
      path_stage |-> EffectivePathStage(raw, flags, success, rows.effect),
      attack_active |-> rows.active \/ rows.rows,
      attack_effect_success |-> rows.effect,
      gateway_seen |-> GatewaySeen(rows, core.work),
      cloud_seen |-> CloudSeen(rows, core.work, c),
      flags |-> flags,
      defense_success |-> success,
      defense_active |-> DefenceActive(actions, reported),
      stale |-> StaleMetrics(actions, reported),
      actions |-> {[action |-> a.action, target |-> a.target] : a \in actions},
      active_actions |-> IF obs.metrics THEN Cardinality(obs.actions) ELSE Cardinality(actions),
      totals |-> totals,
      flows_delta |-> Delta(totals.flows, c.flows),
      meters_delta |-> Delta(totals.meters, c.meters),
      work |-> core.work,
      metrics |-> rows.rows \/ reported.rows,
      reachable |-> ControllerReachable(obs),
      strict |-> c.strict,
      errors |-> SourceErrors(obs)]
=============================================================================
