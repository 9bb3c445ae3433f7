SPECIFICATION FairSpec
CONSTANTS
  MaxAttempts = 2
  MaxRetries = 3
  WordBits = 2
  RETRY_INTERVAL_SECS = 1
  INTERVAL_SECS = 3
CHECK_DEADLOCK FALSE
INVARIANTS
  TypeOK
  ForcedOnce
  LateRunsBounded
  BackoffFollowsOutcome
  SuccessMeansOpen
PROPERTIES
  BackoffNeverShrinks
  RearmEnds
  StopIsReported
