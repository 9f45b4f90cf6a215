SPECIFICATION FairSpec
CONSTANTS
  Jobs = {j1}
  Reqs = {r1, r2}
  Ops <- ControlOps
  None = None
  Ready = j1
  Parallel = TRUE
  DiskFaults = FALSE
  MaxCrashes = 0
PROPERTIES HandlersReturn AbortedRunEnds
