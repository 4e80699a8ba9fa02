CONSTANTS
  Audio = 4
  MaxChunks = 2
  MaxFrames = 3
  MaxTokens = 6
  Temperatures = 1
  Threshold = 1
  Near = 1
  Long = 1
  MaxMedian = 1
SPECIFICATION CallSpec
INVARIANTS SegmentsInOrder EveryRoundAdvances
CHECK_DEADLOCK FALSE
