CONSTANTS
  Conns = {"mic", "speaker", "other"}
  MaxClients = 1
  WantVad <- MCWantVad
  Batch = TRUE
SPECIFICATION FairSpec
INVARIANTS HandshakesAreSafe EndedIsReleased
PROPERTIES HandlerEnds
CHECK_DEADLOCK FALSE
