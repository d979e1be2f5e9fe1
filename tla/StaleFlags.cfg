\* Stages of a run: is traffic taken for dropped only while a policy drops it?
SPECIFICATION Spec
CONSTANTS
  Scenarios <- Scenarios2
  FirstScenario = "sen4"
  ScenarioPath <- Paths2
  PolicyScenario = "sen4"
  PolicyPaths <- Policy2
  MinDelta = 1
  MinRatio = 5
  Attackers <- Attackers2
  Defenders <- Defenders2
  AnyScenario = "*"
  NoTarget = "none"
  MaxAttackCost = 100
  MaxDefenceCost = 100
  AllowDisruptive = TRUE
  Gateways = {"edge2_gw", "edge3_gw"}
  Workers = {"edge2_vm_s4", "edge3_vm_s6"}
  Total = 1000
  Floor = 150
  Eta = 100
  Asked = {"sen4"}
  Strict = FALSE
  High = 100
  Low = 0
  Modes <- Modes2
  Milestones <- Milestones2
  MaxStages = 3
  MaxFaults = 0
PROPERTY FlagsAreLive
CHECK_DEADLOCK FALSE
