CONSTANTS
  e1 = e1
  e2 = e2
  cat = cat
  dog = dog
  Events = {e1, e2}
  ImagesIn <- TwoAndOne
  Content <- CatTwice
  Concurrent = FALSE
  RelayBatch = 1
  MaxAttempts = 0
  MaxFaults = 0
  MaxCrashes = 1
SPECIFICATION Spec
INVARIANTS
  SavedIsAccountedFor
