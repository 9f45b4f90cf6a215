SPECIFICATION Spec
CONSTANTS
  o1 = o1
  o2 = o2
  r1 = r1
  r2 = r2
  b1 = b1
  b2 = b2
  Records = {o1, o2, r1, r2}
  Batches = {b1, b2}
  Batch <- BatchOf
  NL = NL
  Legacy <- Found
  MaxFaults = 2
  MaxCrashes = 1
  MaxFilters = 1
  PowerLosses = TRUE
INVARIANT AckedSurvive
PROPERTY ImplementsLog
CHECK_DEADLOCK FALSE
