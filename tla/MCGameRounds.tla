---------------------------- MODULE MCGameRounds ----------------------------
(* GameRounds with the first scenario of attack_scenarios.json and another    *)
(* one, and a part of game/strategy_space.json for them.                      *)
EXTENDS GameRounds

Scenarios2 == {"sen4", "sen6"}
Paths2 == [s \in Scenarios2 |->
             IF s = "sen4" THEN <<"sen4", "edge2_gw", "edge2_vm_s4", "cloud_db">>
             ELSE <<"sen6", "edge3_gw", "edge3_vm_s6", "cloud_db">>]
Policy2 == {Paths2["sen4"]}

AttackBy(id, s, path, min, max, cost, expects) ==
  [id |-> id, scenario |-> s, path |-> path, min |-> min, max |-> max,
   blocked |-> {"counters_stopped"}, mulval |-> min > 0, dual |-> FALSE, cost |-> cost,
   expects |-> expects]
Defence(id, s, action, target, min, anyOf, cost, expects) ==
  [id |-> id, scenario |-> s, action |-> action, target |-> target, min |-> min, max |-> 3,
   anyOf |-> anyOf, cost |-> cost, expects |-> expects]

Modes2 == {[kind |-> "runtime", execute |-> TRUE], [kind |-> "eval", execute |-> TRUE],
           [kind |-> "eval", execute |-> FALSE]}
Milestones2 == <<[reached |-> 0, storage |-> 0], [reached |-> 1, storage |-> 1],
                 [reached |-> 2, storage |-> 2]>>

Attackers2 ==
  {AttackBy("A2", "sen4", SubSeq(Paths2["sen4"], 1, 3), 0, 2, 25,
          {"gateway", "worker"}),
   AttackBy("A6", "sen4", Paths2["sen4"], 2, 3, 45, {"cloud"}),
   AttackBy("A3", "sen6", Paths2["sen6"], 0, 3, 45, {"gateway", "worker", "cloud"})}

Defenders2 ==
  {Defence("D0", "*", "observe", "none", 0, {}, 2, {"strategy_context_recorded"}),
   Defence("D1", "sen4", "quarantine_sensor", "sen4", 0,
           {"attack_active", "path_progress_observed"}, 20, {"drop_rules_active", "counters_stopped"}),
   Defence("D2", "sen4", "rate_limit", "sen4", 0,
           {"attack_active", "gateway_seen", "active_attacker_available"}, 13,
           {"throttled_traffic", "lower_gateway_queue"}),
   Defence("D5", "sen6", "quarantine_sensor", "sen6", 0, {}, 28, {"drop_rules_active", "counters_stopped"})}
=============================================================================
