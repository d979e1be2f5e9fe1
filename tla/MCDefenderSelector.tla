------------------------ MODULE MCDefenderSelector -------------------------
(* D0_observe, D1_quarantine_sen4, D2_rate_limit_sen4 and D4 of            *)
(* strategy_space.json, costs in hundredths.                               *)
EXTENDS DefenderSelector

SomeActions == <<"observe", "quarantine_sensor", "rate_limit", "isolate_sensor">>
SomeTargets == <<"", "sen4", "sen4", "edge2_vm_s4">>
SomeCosts == <<2, 20, 13, 32>>
=============================================================================
