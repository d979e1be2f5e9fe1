\* A switch whose control connection comes, goes and is noticed late, under fair
\* scheduling.
SPECIFICATION FairSpec
CONSTANTS
  s1 = s1
  s2 = s2
  d = d
  ip1 = ip1
  ip2 = ip2
  Switches = {s1}
  Nodes = {d}
  IPs = {ip1, ip2}
  Interfaces <- SingleSwitch
  Gateways = {}
  ActionIds = {a1, a2}
  MeterIds = {a1, a2}
  MeterOf <- OwnMeters
  Threads = {t1, t2}
  Offered <- IsolateAndLimit
  NoAction = NoAction
  QueueSlots = 1
  MaxLosses = 1
INVARIANTS
  TypeOK
  NoOrphanMeters
  RegisteredIsEnforced
PROPERTY ClearTakesEffect
\* Requests end when the action ids are used up.
CHECK_DEADLOCK FALSE
