SPECIFICATION FairSpec
CONSTANTS
  None = None
  MaxChanges = 2
  MaxFaults = 2
  Finished = {2}
INVARIANTS EventsInOrder QuietPageIsFresh
PROPERTIES NeverBackwards RestShown
