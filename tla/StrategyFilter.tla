--------------------------- MODULE StrategyFilter ---------------------------
(* Which strategies a state activates: game/strategy_manager.py. Pure         *)
(* operators over the states StateBuilder builds.                             *)
(*                                                                            *)
(* A strategy is a record of what the filter reads, with its costs in         *)
(* percent. Of the flags an activation may name, those the strategy space     *)
(* names are kept.                                                            *)
EXTENDS StateBuilder

CONSTANTS
  Attackers,       \* [id, scenario, path, min, max, blocked, mulval, dual, cost, expects]
  Defenders,       \* [id, scenario, action, target, min, max, anyOf, cost, expects]
  AnyScenario,     \* "*", the scenario of a strategy for all of them
  NoTarget,        \* the target of observe
  MaxAttackCost, MaxDefenceCost,   \* the budgets
  AllowDisruptive  \* allow_disruptive_defense

Observers == {d \in Defenders : d.action = "observe"}

ASSUME StrategyFilterAssumption ==
  /\ IsFiniteSet(Attackers) /\ IsFiniteSet(Defenders)
  /\ \A x, y \in Attackers : x.id = y.id => x = y
  /\ \A x, y \in Defenders : x.id = y.id => x = y
  /\ MaxAttackCost \in Nat /\ MaxDefenceCost \in Nat /\ AllowDisruptive \in BOOLEAN
  /\ Observers # {}

-----------------------------------------------------------------------------
(* The conditions of _activation_failure_reason, each when it fails.          *)

\* The flags of a state that an activation may ask for or be blocked by.
Raised(state, attackers) ==
  {f \in {"attack_active", "path_progress_observed", "gateway_seen",
          "active_attacker_available", "counters_stopped"} :
     CASE f = "attack_active" -> state.attack_active
       [] f = "path_progress_observed" -> state.path_stage >= 1
       [] f = "gateway_seen" -> state.gateway_seen
       [] f = "active_attacker_available" -> attackers # {}
       [] f = "counters_stopped" -> "counters" \in state.flags}

ScenarioMatches(x, state) == x.scenario \in {AnyScenario, state.scenario}

\* _strategy_path_is_plausible: a path MulVAL or the registry has for the scenario.
PathPlausible(a, state) ==
  \/ a.path \in PlausiblePaths(state.scenario)
  \/ a.dual
  \/ a.path = ScenarioPath[state.scenario]

\* _scenario_seed_allows_attacker: a first part of the scenario's own path.
PathOfSeed(a, state) == IsPrefix(a.path, ScenarioPath[state.scenario])

\* _mulval_allows_attacker: not strict, a part of the scenario's path will do.
MulvalAllows(a, state) ==
  IF state.strict THEN ExactMatch(state.scenario) /\ PathPlausible(a, state)
  ELSE PathPlausible(a, state) \/ PathOfSeed(a, state)

\* _attack_path_contained: a success that some sign of a defence still backs
\* contains every attack but the one with another way.
Contained(a, state) ==
  /\ state.defense_success
  /\ state.defense_active \/ state.flags \intersect {"drop", "counters"} # {}
  /\ ~a.dual

InStageBounds(x, state) == state.path_stage \in x.min..x.max

AttackerActivated(a, state) ==
  /\ InStageBounds(a, state)
  /\ a.blocked \intersect Raised(state, {}) = {}
  /\ a.mulval => PathPlausible(a, state)

OnPath(d, state) ==
  d.target # NoTarget => \E i \in DOMAIN ScenarioPath[state.scenario] :
                           ScenarioPath[state.scenario][i] = d.target

DefenderActivated(d, state, attackers) ==
  /\ InStageBounds(d, state)
  /\ d.anyOf # {} => d.anyOf \intersect Raised(state, attackers) # {}
  /\ OnPath(d, state)
  /\ (state.strict /\ d.target # NoTarget) => state.reachable

AttackAffordable(a) == a.cost <= MaxAttackCost
DefenceAffordable(d) == d.cost <= MaxDefenceCost /\ (AllowDisruptive \/ d.cost < 40)

\* _defense_already_active: the action is in force, or another one on its target
\* while traffic is dropped somewhere.
AlreadyActive(d, state) ==
  /\ d.action # "observe"
  /\ \E a \in state.actions :
       a.target = d.target /\ (a.action = d.action \/ "drop" \in state.flags)

-----------------------------------------------------------------------------
(* active_lists.                                                              *)

ActiveAttackers(state) ==
  {a \in Attackers : /\ ScenarioMatches(a, state)
                     /\ MulvalAllows(a, state)
                     /\ ~Contained(a, state)
                     /\ AttackerActivated(a, state)
                     /\ AttackAffordable(a)}

\* Without any defender that may act, the observers remain.
ActiveDefenders(state) ==
  LET active == {d \in Defenders : /\ ScenarioMatches(d, state)
                                   /\ DefenderActivated(d, state, ActiveAttackers(state))
                                   /\ DefenceAffordable(d)
                                   /\ ~AlreadyActive(d, state)}
  IN IF active = {} THEN Observers ELSE active

\* apply_no_attack_fallback, only the runtime's: on a clean stage without an
\* attacker nothing but observing is left.
NoActiveAttack(state) == ActiveAttackers(state) = {}

FallbackDefenders(state) ==
  IF NoActiveAttack(state) /\ state.path_stage = 0 THEN Observers ELSE ActiveDefenders(state)
=============================================================================
