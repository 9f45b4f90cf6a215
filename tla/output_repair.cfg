SPECIFICATION Spec
CONSTANTS
  None = None
  Callers = {c1, c2}
  MaxRuns = 1
  c1 = c1
  c2 = c2
PROPERTY RepairIsKept
CHECK_DEADLOCK FALSE
