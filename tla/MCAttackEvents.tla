--------------------------- MODULE MCAttackEvents ---------------------------
(* Two dispatches of one scenario, at once or one after the other. Their      *)
(* plans match no agent: groups are MCCalderaBridge's subject.                *)
EXTENDS AttackEvents, TLC

CONSTANTS sc1

NoTargets == [d \in Dispatches |-> {}]
OneScenario == [d \in Dispatches |-> sc1]

Symmetry == Permutations(Dispatches)
=============================================================================
