\* Overlapping requests on two switches that stay connected.
SPECIFICATION Spec
CONSTANTS
  s1 = s1
  s2 = s2
  d = d
  ip1 = ip1
  ip2 = ip2
  Switches = {s1, s2}
  Nodes = {d}
  IPs = {ip1, ip2}
  Interfaces <- DualHomed
  Gateways = {}
  ActionIds = {a1, a2}
  MeterIds = {a1, a2}
  MeterOf <- OwnMeters
  Threads = {t1, t2}
  Offered <- IsolateAndReroute
  NoAction = NoAction
  QueueSlots = 1
  MaxLosses = 0
INVARIANTS
  NoOrphanRules
  RegisteredIsEnforced
SYMMETRY Symmetry
\* Requests end when the action ids are used up.
CHECK_DEADLOCK FALSE
