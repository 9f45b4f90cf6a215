SPECIFICATION SmallSpec
CONSTANTS
  t1 = t1
  t2 = t2
  t3 = t3
  MaxSize = 2
  Texts = {t1, t2, t3}
  Shape <- Shapes
  Contexts = {c1, c2}
  Workers = 2
  None = None
  MaxRuns = 4
  MaxChanges = 2
SYMMETRY Names
INVARIANTS TrustedBookIsFresh PaidOnce PublishedIsJournaled
