\* Three stages of both kinds; one is killed, or the first two run at once.
SPECIFICATION Spec
CONSTANTS
  sc1 = sc1
  sc2 = sc2
  NoScenario = NoScenario
  Scenarios = {sc1, sc2}
  MaxStages = 3
  MaxTogether = 2
  MaxTroubles = 1
INVARIANTS
  IdsIncrease
  TracesAgree
  LossIsBounded
  WarmupsCounted
  NothingUnlearned
  PopulationReadable
  OwnDefence
SYMMETRY Symmetry
\* The last stage ends.
CHECK_DEADLOCK FALSE
