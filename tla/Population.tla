----------------------------- MODULE Population -----------------------------
(* The shares of the evolutionary game (game/game_model.py) and the choice    *)
(* made by them (game/policy_selector.py). Pure operators.                    *)
(*                                                                            *)
(* A population is a function from ids to shares. The code's shares are       *)
(* floats that sum to 1; here they are whole units that sum to Total, less    *)
(* what rounding down loses: under one unit for each strategy. Utilities are  *)
(* in percent. What a utility is made of (the proxies for loss, cost and      *)
(* reward) is left out: any utility is possible.                              *)
EXTENDS Integers, FiniteSets, FiniteSetsExt

CONSTANTS
  Total,   \* the units a population shares out
  Floor,   \* population_floor
  Eta      \* the learning rate, in percent

ASSUME PopulationAssumption ==
  /\ Total \in Nat \ {0}
  /\ Floor \in 0..Total
  /\ Eta \in 0..100

NoPopulation == [id \in {} |-> 0]

Share(population, id, otherwise) ==
  IF id \in DOMAIN population THEN population[id] ELSE otherwise

Whole(values) == MapThenSumSet(LAMBDA id : values[id], DOMAIN values)

\* The floor that leaves room for every strategy.
FloorOf(ids) ==
  LET room == Total \div Cardinality(ids) IN IF Floor <= room THEN Floor ELSE room

\* Wrong variant: the values are scaled, and what falls below the floor stays there.
ScaledOnly(values) ==
  [id \in DOMAIN values |->
     IF Whole(values) > 0 THEN (Total * values[id]) \div Whole(values)
     ELSE Total \div Cardinality(DOMAIN values)]

\* apply_population_floor: every strategy has the floor, and its part of the rest.
ApplyFloor(values) ==
  LET ids == DOMAIN values
      floor == FloorOf(ids)
      residual == Total - floor * Cardinality(ids)
      whole == Whole(values)
  IN [id \in ids |->
        floor + (IF whole > 0 THEN (residual * values[id]) \div whole
                 ELSE residual \div Cardinality(ids))]

\* normalize_population: one that had no share starts with an even one.
Normalize(ids, previous) ==
  ApplyFloor([id \in ids |-> Share(previous, id, Total \div Cardinality(ids))])

-----------------------------------------------------------------------------
(* One step of the game.                                                      *)

Average(population, utility) ==
  Whole([id \in DOMAIN population |-> population[id] * utility[id]]) \div Total

\* replicator_update: what does better than the average grows.
Replicate(population, utility) ==
  LET average == Average(population, utility)
      next(id) == population[id] + (Eta * population[id] * (utility[id] - average)) \div 10000
  IN ApplyFloor([id \in DOMAIN population |-> Max({0, next(id)})])

\* evolutionary_step, for one of the two roles: the strategies that are active now.
Evolve(ids, previous, utility) == Replicate(Normalize(ids, previous), utility)

\* attach_global_populations: all strategies of the scenario, the active ones with
\* the share they have now, the others with the one they had.
Globalize(ids, before, now) ==
  LET prior == [id \in DOMAIN before \union DOMAIN now |-> Share(now, id, before[id])]
  IN Normalize(ids, prior)

\* select_strategy, mode "dominant": the largest share, then the best utility.
Dominant(population, utility) ==
  LET largest == {id \in DOMAIN population :
                    \A other \in DOMAIN population : population[other] <= population[id]}
  IN {id \in largest : \A other \in largest : utility[other] <= utility[id]}

-----------------------------------------------------------------------------
(* Every strategy of a sound population has at least the floor, and together  *)
(* they have everything but what rounding loses.                              *)
Sound(population) ==
  population # NoPopulation =>
    /\ \A id \in DOMAIN population : population[id] >= FloorOf(DOMAIN population)
    /\ Whole(population) \in (Total - Cardinality(DOMAIN population))..Total
=============================================================================
