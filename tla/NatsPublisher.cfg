SPECIFICATION FairSpec
CONSTANTS
  relay = relay
  handler = handler
  t1 = t1
  t2 = t2
  Callers = {relay, handler}
  Relay = relay
  Tasks = {t1, t2}
  NoTask = NoTask
  MaxClients = 3
  MaxOutages = 1
INVARIANTS
  TypeOK
  EnsuredIsTrue
  OneClientPerOutage
PROPERTIES
  ImplementsTaskBus
  CallsConclude
  PublishingRecovers
CHECK_DEADLOCK FALSE
