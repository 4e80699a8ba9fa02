CONSTANTS
  MaxChunks = 3
  MaxGen = 3
  Duration <- UnitChunks
  BufferSeconds = 2
  Enabled = TRUE
  MaxExponent = 3
  SlowCallback = FALSE
SPECIFICATION Spec
INVARIANTS FifoAcrossEpochs MapsInOwnEpoch
PROPERTIES FatalIsTerminal ImplementsDelivery
CHECK_DEADLOCK FALSE
