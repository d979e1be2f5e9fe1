---------------------------- MODULE CloudPolicy ----------------------------
(* The cloud's policy service (environment/services/cloud-policy/app.py): the *)
(* context its clients post, merged key by key, and the decisions it takes    *)
(* by it; and how its clients call it and the controller. Pure operators.     *)
(*                                                                            *)
(* A context is a function from the keys it has. Its values are the posts     *)
(* they come from: [by, n, choice], the n-th round of a client and what was   *)
(* selected in it. Every client's request names a strategy, so the service's  *)
(* own choice, by load and latency, is not met; the attack, the paths and the *)
(* metrics in a context decide nothing then and are left out.                 *)
EXTENDS Integers, FiniteSets

CONSTANTS
  Runtime, Eval,   \* the two stage runners
  Trial,           \* the trial runner
  Retries          \* of the trial runner's clients

Callers == {Runtime, Eval, Trial}

ASSUME CloudPolicyAssumption ==
  /\ Runtime # Eval /\ Runtime # Trial /\ Eval # Trial
  /\ Retries \in Nat

Keys == {"strategy_layer", "selected_defender_strategy"}
NoContext == [key \in {} |-> {}]
NoChoice == [action |-> "none", target |-> "none"]

-----------------------------------------------------------------------------
(* The service.                                                               *)

\* What a client posts in a round: cloud_policy_context_payload of the stage
\* runners; none of the trial runner's keys is one the service accepts.
ContextPayload(post) == IF post.by = Trial THEN NoContext ELSE [key \in Keys |-> post]

\* A dictionary with the keys of another one put over its own.
Overlaid(below, above) ==
  [key \in DOMAIN below \union DOMAIN above |->
     IF key \in DOMAIN above THEN above[key] ELSE below[key]]

\* Wrong variant: a key that is there is not replaced.
KeepsFirst(external, payload) == Overlaid(payload, external)

\* update_external_context: the accepted keys replace what was there, others stay.
UpdateContext(external, payload) == Overlaid(external, payload)

\* Wrong variant: the service's context covers the request's.
RequestBelow(external, payload) == Overlaid(payload, external)

\* /decide: the request covers the snapshot of the context.
MergedContext(external, payload) == Overlaid(external, payload)

\* selected_strategy_defender_action
StrategyAction(context) ==
  context[IF "selected_defender_strategy" \in DOMAIN context
          THEN "selected_defender_strategy" ELSE "strategy_layer"].choice

-----------------------------------------------------------------------------
(* The clients.                                                               *)

\* The calls of a round, in their order. Only the runtime asks for a decision.
CallsOf(by) ==
  IF by = Runtime THEN <<"context", "decide", "action">> ELSE <<"context", "action">>

\* Wrong variant: the controller is called through docker, too.
TriesEverywhere(by, to) == IF by = Trial THEN {Retries + 1} ELSE {2, 3}

\* How often a call may have been made when its caller gives up on an answer: stage
\* runners try the policy service again through docker, with python3 and, if that
\* does not end, with python (post_json_with_container_fallback); the trial runner's
\* clients repeat every call.
Tries(by, to) ==
  CASE by = Trial -> {Retries + 1}
    [] to = "action" -> {1}
    [] OTHER -> {2, 3}

\* ryu_intent_from_cloud_policy: the decision's intent, else the selection itself.
Intent(decided, choice) == IF decided = NoChoice THEN choice ELSE decided
=============================================================================
