SPECIFICATION ContentionSpec
CONSTANTS
  Jobs = {j1, j2}
  Reqs = {r1, r2, r3}
  Ops <- AllOps
  None = None
  Ready = j2
  Parallel = FALSE
  DiskFaults = TRUE
  MaxCrashes = 1
SYMMETRY Requests
INVARIANTS TypeOK RunIsVisible NoLockLeak RunOwnsState
PROPERTY RestAfterRecovery
