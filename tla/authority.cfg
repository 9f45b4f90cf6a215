SPECIFICATION Spec
CONSTANTS
  Clients = {c1, c2}
  Old = old
  None = None
  Amount <- Amounts
  Limits = {0, 1}
  Callers = 1
  MaxEdits = 1
  MaxFaults = 1
SYMMETRY Symmetry
INVARIANTS WithinLimit LapseStopsCalls SettledUnpaid
CHECK_DEADLOCK FALSE
