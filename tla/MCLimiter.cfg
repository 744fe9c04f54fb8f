SPECIFICATION FairSpec
CONSTANTS
  Hosts = {h1}
  Limit = 2
  Window = 2
  MaxTime = 4
  MaxCurrent = 3
INVARIANTS
  BurstBounded
  RefusedOnlyAfterLimit
  RetryAfterSuffices
PROPERTIES
  BlockEnds
CHECK_DEADLOCK FALSE
