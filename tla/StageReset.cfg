\* Two stages whose calls time out; s1 may connect in the middle of a handler.
SPECIFICATION RunnerSpec
CONSTANTS
  s1 = s1
  ip1 = ip1
  Switches = {s1}
  Nodes = {}
  IPs = {ip1}
  Interfaces <- NoNodes
  Gateways = {}
  ActionIds = {a1, a2}
  MeterIds = {a1, a2}
  MeterOf <- OwnMeters
  Threads = {t1, t2}
  Offered <- Isolate
  NoAction = NoAction
  QueueSlots = 1
  MaxLosses = 0
  MaxStages = 2
INVARIANTS
  ResetIsReal
  DefenceLasts
SYMMETRY Symmetry
\* The run of stages ends.
CHECK_DEADLOCK FALSE
