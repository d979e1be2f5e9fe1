\* Four strategies, answers that rank at most one of them, one retry.
CONSTANTS
  ActionOf <- SomeActions
  TargetOf <- SomeTargets
  CostOf <- SomeCosts
  MaxRetries = 1
  MaxRanked = 1
SPECIFICATION SelectorFairSpec
INVARIANTS
  AlwaysAllowed
  ModelObeyed
  RightlyAttributed
PROPERTIES
  Decided
\* A selection ends.
CHECK_DEADLOCK FALSE
