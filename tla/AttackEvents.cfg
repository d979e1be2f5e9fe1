\* One post or report gets lost or times out, and the bridge stops once.
SPECIFICATION CampaignSpec
CONSTANTS
  sc1 = sc1
  Agents = {}
  Dispatches = {d1, d2}
  TargetsOf <- NoTargets
  DefaultGroup = red
  MaxFailures = 0
  MaxStops = 1
  Scenarios = {sc1}
  ScenarioOf <- OneScenario
  MaxTroubles = 1
INVARIANTS
  EventsTypeOK
  StartsFirst
  ActiveDuringAttack
  LatestResultIsLogged
SYMMETRY Symmetry
\* Every dispatch ends.
CHECK_DEADLOCK FALSE
