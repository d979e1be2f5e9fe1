-------------------------- MODULE DefenderSelector --------------------------
(***************************************************************************)
(* How a stage comes to its defence: select_defender_strategy of           *)
(* defender/decision/defender_selector.py asks the model (LLMClient), at   *)
(* most max_retries + 1 times with the full prompt and, when the last try  *)
(* timed out, as often again with the compact one; then it reads the       *)
(* answer, maps what is not an active strategy to one that is, and falls   *)
(* back where the answer is missing, unusable or not allowed.  run_stage   *)
(* records who decided (eval/runners/run_stage.py).                        *)
(*                                                                         *)
(* A strategy is its position in strategy_space.json, which is the order   *)
(* of the ids too.  Scores, texts and prompts are left out.                *)
(***************************************************************************)
EXTENDS Integers, Sequences, FiniteSets, FiniteSetsExt

CONSTANTS
  ActionOf,    \* the strategies' actions, a sequence
  TargetOf,    \* the strategies' targets, a sequence
  CostOf,      \* the strategies' base costs, a sequence
  MaxRetries,  \* max_retries of the model's configuration
  MaxRanked    \* bound: entries of an answer's ranked_candidates

Strategies == DOMAIN ActionOf
Isolation == {"isolate_sensor", "quarantine_sensor"}
Limiting == {"rate_limit", "reroute_traffic"}
Actions == {"observe"} \union Isolation \union Limiting
Targets == {TargetOf[d] : d \in Strategies}

ASSUME ActionAssumption ==
  /\ ActionOf \in Seq(Actions) /\ \E d \in Strategies : ActionOf[d] = "observe"
  /\ DOMAIN TargetOf = Strategies /\ CostOf \in [Strategies -> Nat]
ASSUME RetriesAssumption == MaxRetries \in Nat /\ MaxRanked \in Nat

NoStrategy == 0                    \* no id in the answer
Unknown == Len(ActionOf) + 1       \* an id that is no strategy at all
Ids == NoStrategy .. Unknown

VARIABLES
  active,     \* active_defenders of the stage
  baseline,   \* baseline_top of the game
  urgent,     \* attack_active and path_stage >= 2
  step,       \* "full", "compact", "parse", "resolve", "decide", "record" or "done"
  attempt,    \* tries of the present complete_json
  reply,      \* what is known of the model's answer
  choice,     \* raw_selected_strategy_id
  decision,   \* the DefenderSelectorResult
  label       \* executed_decision_source as run_stage records it

selectorVars == <<active, baseline, urgent, step, attempt, reply, choice,
                  decision, label>>

\* An answer: whether it is a JSON object, only mentions ids, or has nothing to
\* use; the id, action and target it selects; its ranked candidates.
Replies ==
  [form : {"json", "text"}, id : Ids, action : Actions \union {""}, target : Targets,
   ranked : UNION {[1 .. n -> [id : Ids \ {NoStrategy}, action : Actions \union {""}]] :
                   n \in 0 .. MaxRanked}]
EmptyReply(form) == [form |-> form, id |-> NoStrategy, action |-> "", target |-> "",
                     ranked |-> <<>>]
NoDecision == [strategy |-> NoStrategy, source |-> "none", fallback |-> FALSE]
Sources == {"none", "llm_defender", "system_fallback", "constraint_fallback"}

\* The target is read only with an action and no id (_strategy_from_action).  From
\* text, _recover_payload collects the ids it mentions and selects one of them.
Usable(r) ==
  /\ r.id # NoStrategy \/ r.action = "" => r.target = ""
  /\ r.form = "text" =>
       /\ \E i \in DOMAIN r.ranked : r.ranked[i].id = r.id
       /\ r.action = ""
       /\ \A i \in DOMAIN r.ranked : r.ranked[i].action = ""

Answers == {r \in Replies : Usable(r)}

\* The strategies with an observe-only one, which the manager never filters
\* out, and the best of them for the game: any of them. When no attacker strategy
\* is active (a contained path, stopped counters) every utility is 0 and the
\* cheapest is best, which is to observe.
SelectorInit ==
  /\ active \in {s \in SUBSET Strategies :
                   \A d \in Strategies : ActionOf[d] = "observe" => d \in s}
  /\ baseline \in active
  /\ urgent \in BOOLEAN
  /\ step = "full" /\ attempt = 0
  /\ reply = EmptyReply("none") /\ choice = NoStrategy
  /\ decision = NoDecision /\ label = "none"

(***************************************************************************)
(* The request.                                                            *)
(***************************************************************************)

Asking == step \in {"full", "compact"}

\* The model answers.
Answered ==
  /\ Asking
  /\ \/ reply' \in Answers
     \/ reply' = EmptyReply("garbage")
  /\ step' = "parse" /\ attempt' = 0
  /\ UNCHANGED <<active, baseline, urgent, choice, decision, label>>

\* Wrong variant: the compact prompt again and again.
FailedForever ==
  /\ Asking
  /\ \E timedOut \in BOOLEAN :
       IF attempt < MaxRetries
       THEN attempt' = attempt + 1 /\ UNCHANGED step
       ELSE attempt' = 0 /\ step' = IF timedOut THEN "compact" ELSE "resolve"
  /\ UNCHANGED <<active, baseline, urgent, reply, choice, decision, label>>

\* A try fails.  The client tries again; after its last try the selector looks
\* whether that one timed out, and asks once more with the compact prompt.
Failed ==
  /\ Asking
  /\ \E timedOut \in BOOLEAN :
       IF attempt < MaxRetries
       THEN attempt' = attempt + 1 /\ UNCHANGED step
       ELSE /\ attempt' = 0
            /\ step' = IF step = "full" /\ timedOut THEN "compact" ELSE "resolve"
  /\ UNCHANGED <<active, baseline, urgent, reply, choice, decision, label>>

\* _parse_payload and, for text that mentions an id, _recover_payload: what
\* the answer selects, by its id or else by its action.
FirstOf(set) == IF set = {} THEN NoStrategy ELSE Min(set)
WithAction(actions) == {d \in active : ActionOf[d] \in actions}

StrategyFromAction(action, target) ==
  LET exact == {d \in WithAction({action}) : TargetOf[d] = target}
  IN IF exact # {} THEN Min(exact) ELSE FirstOf(WithAction({action}))

Parse ==
  /\ step = "parse"
  /\ choice' = IF reply.id # NoStrategy THEN reply.id
               ELSE StrategyFromAction(reply.action, reply.target)
  /\ step' = "resolve"
  /\ UNCHANGED <<active, baseline, urgent, attempt, reply, decision, label>>

(***************************************************************************)
(* From the answer to an active strategy.                                  *)
(***************************************************************************)

\* The first ranked candidate that is active.
RankedChoice ==
  LET hits == {i \in DOMAIN reply.ranked : reply.ranked[i].id \in active}
  IN IF hits = {} THEN NoStrategy ELSE reply.ranked[Min(hits)].id

\* The action the model wanted: its own, or the first one of the ranking.
WantedAction ==
  LET named == {i \in DOMAIN reply.ranked : reply.ranked[i].action # ""}
  IN IF reply.action # "" THEN reply.action
     ELSE IF named # {} THEN reply.ranked[Min(named)].action ELSE ""

\* The closest active strategy for an action.
Closest(action) ==
  LET quarantine == WithAction({"quarantine_sensor"})
  IN IF action \in Isolation
     THEN IF quarantine # {} THEN Min(quarantine)
          ELSE FirstOf(WithAction(Isolation \union Limiting))
     ELSE IF action \in Limiting THEN FirstOf(WithAction(Limiting)) ELSE NoStrategy

\* An id that is not active is mapped, if there is something to map it to; a
\* missing one is taken from the ranking.
Mapped(id) ==
  IF id \in active THEN id
  ELSE IF RankedChoice # NoStrategy THEN RankedChoice
  ELSE IF id # NoStrategy /\ Closest(WantedAction) # NoStrategy THEN Closest(WantedAction)
  ELSE id

Resolve ==
  /\ step = "resolve"
  /\ choice' = Mapped(choice)
  /\ step' = "decide"
  /\ UNCHANGED <<active, baseline, urgent, attempt, reply, decision, label>>

(***************************************************************************)
(* The decision.                                                           *)
(***************************************************************************)

\* The sort key of _choose_fallback_strategy.  An active strategy other than
\* observe targets a node of the current path (activation.target_in_path).
Cheaper(d, e) == CostOf[d] < CostOf[e] \/ (CostOf[d] = CostOf[e] /\ d < e)
Rank(d) == IF ActionOf[d] \in Isolation THEN 0 ELSE IF ActionOf[d] # "observe" THEN 1 ELSE 2
Before(d, e) == Rank(d) < Rank(e) \/ (Rank(d) = Rank(e) /\ Cheaper(d, e))

\* Wrong variant: the cheapest strategy.
CheapestFallback == CHOOSE d \in active : \A e \in active \ {d} : Cheaper(d, e)

FallbackStrategy == CHOOSE d \in active : \A e \in active \ {d} : Before(d, e)

Disallowed(d) == ActionOf[d] = "observe" /\ urgent

\* _selection_from_strategy and the result that carries it.
Selection(strategy, source, fallback) ==
  [strategy |-> strategy, source |-> source, fallback |-> fallback]

\* No answer, or none that names an active strategy: the game's best.
SystemFallback ==
  /\ choice \notin active
  /\ decision' = Selection(baseline, "system_fallback", TRUE)

\* Observing an attack that went on to stage 2: the containment fallback.
ConstraintFallback ==
  /\ choice \in active /\ Disallowed(choice)
  /\ decision' = Selection(FallbackStrategy, "constraint_fallback", TRUE)

\* Else the choice, which counts as a fallback if it was recovered from text.
Accepted ==
  /\ choice \in active /\ ~Disallowed(choice)
  /\ decision' = Selection(choice, "llm_defender", reply.form = "text")

\* Wrong variant: whatever was resolved is taken.
DecideBlindly ==
  /\ step = "decide" /\ step' = "record"
  /\ decision' = Selection(choice, "llm_defender", FALSE)
  /\ UNCHANGED <<active, baseline, urgent, attempt, reply, choice, label>>

Decide ==
  /\ step = "decide" /\ step' = "record"
  /\ SystemFallback \/ ConstraintFallback \/ Accepted
  /\ UNCHANGED <<active, baseline, urgent, attempt, reply, choice, label>>

\* Wrong variant: the recovery of malformed JSON counts as a fallback.
RecordRecovery ==
  /\ step = "record" /\ step' = "done"
  /\ label' = IF decision.fallback THEN "constraint_fallback" ELSE decision.source
  /\ UNCHANGED <<active, baseline, urgent, attempt, reply, choice, decision>>

\* run_stage: a fallback that came to the model's own choice counts as none.
Record ==
  /\ step = "record" /\ step' = "done"
  /\ label' = IF decision.fallback /\ decision.strategy # choice
              THEN "constraint_fallback" ELSE decision.source
  /\ UNCHANGED <<active, baseline, urgent, attempt, reply, choice, decision>>

SelectorNext == Answered \/ Failed \/ Parse \/ Resolve \/ Decide \/ Record

SelectorSpec == SelectorInit /\ [][SelectorNext]_selectorVars

\* The selector runs, and every request to the model ends by its timeout.
SelectorFairSpec == SelectorSpec /\ WF_selectorVars(SelectorNext)

(***************************************************************************)
(* Properties.                                                             *)
(***************************************************************************)

\* Whatever the model answers, and whether it answers, the defence of the stage is
\* one of its active strategies (the recovery chain of select_defender_strategy).
AlwaysAllowed == step \in {"record", "done"} => decision.strategy \in active

\* An answer that resolved to an active strategy is carried out, unless it would
\* observe an advanced attack; then something that contains it is, if there is
\* anything, an isolation before a limit (_choose_fallback_strategy).
ModelObeyed ==
  step \in {"record", "done"} /\ choice \in active =>
    IF ~Disallowed(choice) THEN decision.strategy = choice
    ELSE \A actions \in {Isolation, Isolation \union Limiting} :
           WithAction(actions) # {} => ActionOf[decision.strategy] \in actions

\* A decision is recorded as the model's exactly when the model made it: it
\* answered, its answer led to the strategy, and no constraint stood against it
\* (executed_decision_source in run_stage).
RightlyAttributed ==
  step = "done" =>
    (label = "llm_defender" <=>
       /\ reply.form \in {"json", "text"}
       /\ decision.strategy = choice /\ ~Disallowed(choice))

\* Every stage comes to a decision, even when the model never answers.
Decided == <>(step = "done")
=============================================================================
