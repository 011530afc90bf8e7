SPECIFICATION Spec
CONSTANTS
  c1 = c1
  c2 = c2
  Conns = {c1}
  None = None
  ChainLength = 2
  Prompt = TRUE
  MaxEvents = 2
  MaxCalls = 2
INVARIANTS
  PromptPeerIsHeard
CHECK_DEADLOCK FALSE
