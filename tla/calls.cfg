SPECIFICATION FairSpec
CONSTANTS
  Workers = {w1, w2}
  w1 = w1
  w2 = w2
  None = None
  Inputs <- Batches
  Modes = {"translation", "editing"}
  MaxSegments = 2
  MaxRetries = 1
  MaxFaults = 1
  MaxTime = 1
CHECK_DEADLOCK FALSE
INVARIANTS AnsweredInOrder CallsBounded AnsweredNotAskedAgain
PROPERTIES BatchesEnd
