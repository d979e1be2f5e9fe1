---------------------------- MODULE MCGameStage ----------------------------
(* Two scenarios; three stages: one is killed, or the first two run at once.  *)
EXTENDS GameStage, TLC

CONSTANTS sc1, sc2

Symmetry == Permutations(Scenarios)
=============================================================================
