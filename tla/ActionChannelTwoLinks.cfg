SPECIFICATION FairSpec
CONSTANTS
  c1 = c1
  c2 = c2
  Conns = {c1, c2}
  None = None
  ChainLength = 2
  Prompt = FALSE
  MaxEvents = 2
  MaxCalls = 3
INVARIANTS
  PendingIsAwaited
  OnlyCurrentWaits
  CurrentIsNewest
  OwnSocketNeverAnswers
PROPERTIES
  EventsConclude
  ImplementsPromise
CHECK_DEADLOCK FALSE
