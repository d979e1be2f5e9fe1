\* One route, four payloads, a queue of two, two things that go wrong.
CONSTANTS
  edge2_gw = edge2_gw
  Gateways <- OneGateway
  Destinations <- OneDestination
  QueueSize = 2
  SummaryEvery = 2
  MaxSequence = 4
  MaxTroubles = 2
SPECIFICATION PipelineFairSpec
INVARIANTS
  DeliveredIsCounted
  SummariesAreStored
PROPERTIES
  LastSequenceGrows
  RelayImplemented
  Drained
\* The sensor stops at MaxSequence.
CHECK_DEADLOCK FALSE
