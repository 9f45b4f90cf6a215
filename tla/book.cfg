SPECIFICATION SmallSpec
CONSTANTS
  None = None
  u1 = u1
  u2 = u2
  Units = {u1, u2}
  Renderings <- SomeShapes
  HighQuality = TRUE
  PostAudit = TRUE
  MaxRuns = 2
INVARIANTS ReportAddsUp RepairsAreSafe VerdictIsTrue
PROPERTY RunEnds
CHECK_DEADLOCK FALSE
