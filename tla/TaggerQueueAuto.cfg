CONSTANTS
  p1 = p1
  p2 = p2
  Paths = {p1, p2}
  BatchSize = 2
  MaxAttempts = 2
  AutoRun = TRUE
  MaxEntries = 2
  MaxCrashes = 0
  MaxFaults = 0
SPECIFICATION FairSpec
INVARIANTS
  OwedIsInHand
PROPERTIES
  OwedIsSettled
