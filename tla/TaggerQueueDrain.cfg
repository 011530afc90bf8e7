CONSTANTS
  p1 = p1
  p2 = p2
  Paths = {p1, p2}
  BatchSize = 2
  MaxAttempts = 2
  AutoRun = FALSE
  MaxEntries = 3
  MaxCrashes = 1
  MaxFaults = 1
SPECIFICATION FairSpec
INVARIANTS
  TypeOK
  OwedIsOnDisk
  RepeatsNeedFailures
PROPERTIES
  PickedAfterRecorded
  GivenUpStaysGivenUp
  ImplementsWorklist
  OwedIsSettled
