CONSTANTS
  e1 = e1
  e2 = e2
  cat = cat
  dog = dog
  Events = {e1, e2}
  ImagesIn <- TwoAndOne
  Content <- CatTwice
  Concurrent = TRUE
  RelayBatch = 1
  MaxAttempts = 0
  MaxFaults = 0
  MaxCrashes = 0
SPECIFICATION Spec
INVARIANTS
  SavedOncePerContent
