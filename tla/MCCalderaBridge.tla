-------------------------- MODULE MCCalderaBridge --------------------------
(* Two dispatches whose plans share an agent. *)
EXTENDS CalderaBridge, TLC

CONSTANTS a1, a2, d1, d2

Overlapping == (d1 :> {a1, a2}) @@ (d2 :> {a2})
=============================================================================
