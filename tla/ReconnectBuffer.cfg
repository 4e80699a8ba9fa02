CONSTANTS
  MaxChunks = 5
  MaxGen = 2
  Duration <- MixedChunks
  BufferSeconds = 4
  Enabled = TRUE
  MaxExponent = 0
  SlowCallback = TRUE
SPECIFICATION FairSpec
INVARIANTS KeepsNewest
CHECK_DEADLOCK FALSE
PROPERTIES CallsReturn
