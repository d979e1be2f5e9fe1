\* Two dispatches share an agent; one call fails, the bridge stops once.
SPECIFICATION BridgeFairSpec
CONSTANTS
  a1 = a1
  a2 = a2
  d1 = d1
  d2 = d2
  Agents = {a1, a2}
  Dispatches = {d1, d2}
  TargetsOf <- Overlapping
  DefaultGroup = red
  MaxFailures = 1
  MaxStops = 1
INVARIANTS
  AgentsAccounted
PROPERTIES
  AgentsReturn
  ResultReported
\* Every dispatch ends.
CHECK_DEADLOCK FALSE
