-------------------------- MODULE MCMtdController --------------------------
(* Small networks for MtdController. In the dual-homed one node d has an      *)
(* interface on each of two switches, as sen6 has in NODE_INTERFACE_IPS; in   *)
(* the single-switch one both interfaces are on s1, so that a target has      *)
(* several addresses on one switch.                                           *)
EXTENDS MtdController, TLC

CONSTANTS s1, s2, d, ip1, ip2

DualHomed == [n \in {d} |-> {<<s1, ip1>>, <<s2, ip2>>}]
SingleSwitch == [n \in {d} |-> {<<s1, ip1>>, <<s1, ip2>>}]

\* Distinct actions get distinct meter ids.
OwnMeters == [id \in ActionIds |-> id]

\* A node is rerouted to s2 while its address there is isolated.
IsolateAndReroute ==
  {[kind |-> "isolation", target |-> ip2],
   [kind |-> "reroute_traffic", target |-> d, via |-> s2]}

\* A node is isolated while one of its addresses is rate-limited.
IsolateAndLimit ==
  {[kind |-> "isolation", target |-> d],
   [kind |-> "rate_limit", target |-> ip1]}

Symmetry == Permutations(ActionIds) \union Permutations(Threads)
=============================================================================
