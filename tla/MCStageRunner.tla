--------------------------- MODULE MCStageRunner ---------------------------
(* One switch, one isolated address, two stages: the second one resets what   *)
(* the first left behind.                                                     *)
EXTENDS StageRunner, TLC

CONSTANTS s1, ip1

NoNodes == [n \in {} |-> {}]
OwnMeters == [id \in ActionIds |-> id]
Isolate == {[kind |-> "isolation", target |-> ip1]}

Symmetry == Permutations(ActionIds) \union Permutations(Threads)
=============================================================================
