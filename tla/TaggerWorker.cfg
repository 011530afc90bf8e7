SPECIFICATION FairSpec
CONSTANTS
  task = task
  junk = junk
  Messages = {task, junk}
  Valid = {task}
  MaxDeliver = 2
  MaxTroubles = 3
INVARIANTS
  TypeOK
  SilentWorkerIsReported
  ZeroMeansAsked
  AckedIsTakenOver
  RepeatsNeedTroubles
PROPERTIES
  ProcessEnds
  MessagesConclude
