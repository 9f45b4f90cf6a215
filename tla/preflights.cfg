SPECIFICATION FairSpec
CONSTANTS
  None = None
  N = 2
  ChunkSize = 2
  Chapters = 2
  Workers = 2
  DiskFaults = TRUE
  MaxRuns = 2
CHECK_DEADLOCK FALSE
INVARIANTS NothingSilent PauseIsNoFailure DecidedOnce
PROPERTY PreflightEnds
