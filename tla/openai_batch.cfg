SPECIFICATION FairSpec
CONSTANTS
  None = None
  MaxRetries = 1
  MaxRuns = 3
  MaxBatches = 3
  ErrorFiles = FALSE
CHECK_DEADLOCK FALSE
INVARIANT PaidOnceIfKept
PROPERTY CallEnds
