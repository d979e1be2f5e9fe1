---------------------------- MODULE StageOutcome ----------------------------
(* What the evaluation runner concludes of a stage (eval/runners/run_stage.py,*)
(* build_stage_outcome): whether the defence was confirmed, what it did,      *)
(* whether the attack was held, and whether the stage may be learned from.    *)
(* Pure operators over two states of StateBuilder, before and after, and what *)
(* was executed between them.                                                 *)
EXTENDS StateBuilder

CONSTANTS Gateways, Workers   \* the nodes whose names are a gateway's, a worker's

Isolations == {"quarantine_sensor", "isolate_sensor"}

\* The controller's answer to a POST that got none, or an error.
NoAnswer == [ok |-> FALSE, installed |-> FALSE, active |-> 0, flows |-> 0, meters |-> 0]

\* The signals of a defense_result event that was not posted.
NoEvent == [flags |-> {}, active |-> 0, flows |-> 0, meters |-> 0]

-----------------------------------------------------------------------------
(* The state after.                                                           *)

\* A stage that sent nothing is not credited with defences of others.
OwnState(after, exec) ==
  IF exec.status \in {"dry_run", "observe_only"}
  THEN [after EXCEPT !.flags = {}, !.defense_active = FALSE, !.defense_success = FALSE,
                     !.active_actions = 0, !.totals = NoTotals]
  ELSE after

ActivePolicies(after, exec) == Max({after.active_actions, exec.event.active, exec.answer.active})
FlowRules(after, exec) == Max({after.totals.flows, exec.event.flows, exec.answer.flows})
MetersAdded(after, exec) == Max({after.totals.meters, exec.event.meters, exec.answer.meters})

\* The answer of the controller names no flag: it is told from the action.
AnswerShows(flag, after, exec) ==
  IF flag = "rate" THEN exec.action = "rate_limit" /\ MetersAdded(after, exec) > 0
  ELSE exec.action \in Isolations /\ FlowRules(after, exec) > 0

\* reconcile_defense_effects: an effect that any of the sources shows.
Reconciled(after, exec) ==
  {flag \in {"drop", "counters", "rate"} :
     flag \in after.flags \/ flag \in exec.event.flags \/ AnswerShows(flag, after, exec)}

\* merge_confirmed_defense_effects_into_state.
Merged(after, exec) == [after EXCEPT !.flags = Reconciled(after, exec)]

-----------------------------------------------------------------------------
(* _semantic_effect_observed: the effects a strategy expects, each by its     *)
(* meaning. `lower_gateway_queue` compares latencies: it is as `quiet` says.  *)

Blocking(after, exec) ==
  \/ Reconciled(after, exec) \intersect {"drop", "counters"} # {}
  \/ exec.action \in Isolations /\ FlowRules(after, exec) > 0

\* Of the places searched for the target, only the posted event names it.
ActiveOnTarget(after, exec) == ActivePolicies(after, exec) > 0 /\ exec.event # NoEvent

Reached(after, exec) ==
  exec.answer.installed \/ Blocking(after, exec) \/ ActiveOnTarget(after, exec)

Observed(effect, before, after, exec, path, quiet) ==
  CASE effect = "drop_rules_active" -> "drop" \in Reconciled(after, exec)
    [] effect = "counters_stopped" -> "counters" \in Reconciled(after, exec)
    [] effect = "gateway_blocked" -> exec.target \in Gateways /\ Reached(after, exec)
    [] effect = "worker_blocked" -> exec.target \in Workers /\ Reached(after, exec)
    [] effect = "path_broken" ->
         \/ after.path_stage < before.path_stage
         \/ ~after.attack_active
         \/ exec.target \in path \union Gateways /\ Blocking(after, exec)
    [] effect = "cloud_progression_suppressed" ->   \* its first look is at no key of a state
         \/ ~after.attack_effect_success
         \/ after.path_stage <= before.path_stage
    [] effect = "strategy_context_recorded" ->
         exec.status \in {"observe_only", "dry_run", "executed"}
    [] effect = "throttled_traffic" ->
         "rate" \in Reconciled(after, exec) \/ MetersAdded(after, exec) > 0
    [] effect = "lower_gateway_queue" -> quiet
    [] OTHER -> FALSE

\* A dry run has confirmed nothing, whatever was expected of it.
EffectsConfirmed(before, after, exec, expects, path, quiet) ==
  /\ exec.status # "dry_run"
  /\ \A effect \in expects : Observed(effect, before, after, exec, path, quiet)

DefenceConfirmed(after, exec) ==
  /\ exec.status = "executed"
  /\ exec.answer.ok
  /\ ActivePolicies(after, exec) > 0
  /\ FlowRules(after, exec) > 0 \/ MetersAdded(after, exec) > 0 \/ exec.answer.installed

-----------------------------------------------------------------------------
(* What the stage led to, and what it counts as.                              *)

\* The state the stage is judged by: what is confirmed of its own defence is merged
\* into it, and of a dry run nothing is.
StateAfter(own, exec) ==
  IF exec.status = "dry_run" THEN [own EXCEPT !.flags = {}] ELSE Merged(own, exec)

\* resolve_security_outcome, and what speaks for the success it claims.
SecurityOutcome(before, after, exec, confirmed, effects) ==
  LET reduced == \/ after.path_stage < before.path_stage
                 \/ before.attack_active /\ ~after.attack_active
      success == exec.status # "dry_run" /\ (~after.attack_effect_success \/ reduced)
      contained == reduced \/ (confirmed /\ effects /\ after.flags # {})
  IN [effect |-> after.attack_effect_success,
      success |-> success,
      contained |-> contained,
      ineffective |-> exec.status = "executed" /\ confirmed /\ ~success,
      consistent |-> ~(after.attack_effect_success /\ success /\ ~contained)]

Comparable(before, attackExec) == before.attack_active \/ attackExec.status = "dispatched"

\* stage_kind: the first of its reasons that applies.
StageKind(comparable, decision, exec, confirmed, security) ==
  CASE ~comparable -> "warmup"
    [] exec.status = "dry_run" -> "dry_run"
    [] exec.status = "observe_only" -> "observe_only"
    [] ~decision.request -> "llm_request_failed"
    [] decision.fallback -> "llm_fallback"
    [] ~confirmed -> "unconfirmed_execution"
    [] security.effect /\ security.success /\ security.contained ->
         "defense_contained_after_attack_effect"
    [] security.ineffective -> "defense_applied_but_not_effective"
    [] OTHER -> "experimental"

\* paper_valid_stage: no reason against it.
PaperValid(comparable, decision, exec, security) ==
  /\ comparable
  /\ decision.request /\ decision.parse /\ ~decision.fallback
  /\ exec.status # "dry_run"
  /\ security.consistent

Outcome(before, next, attackExec, decision, exec, expects, path, quiet) ==
  LET own == OwnState(next, exec)
      after == StateAfter(own, exec)
      confirmed == DefenceConfirmed(own, exec)
      effects == EffectsConfirmed(before, own, exec, expects, path, quiet)
      security == SecurityOutcome(before, after, exec, confirmed, effects)
      comparable == Comparable(before, attackExec)
      paper == PaperValid(comparable, decision, exec, security)
  IN [after |-> after,
      confirmed |-> confirmed,
      effects |-> effects,
      success |-> security.success,
      contained |-> security.contained,
      consistent |-> security.consistent,
      kind |-> StageKind(comparable, decision, exec, confirmed, security),
      paper_valid |-> paper,
      learning_valid |->
        paper /\ exec.status = "executed" /\ confirmed /\ security.success]
=============================================================================
