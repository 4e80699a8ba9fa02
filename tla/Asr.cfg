CONSTANTS
  MaxAudio = 5
  MaxBuffer = 3
  Trim = 2
  Window = 3
  Retain = 1
  Guard = 1
  MinDuration = 2
  MinFlush = 1
  MaxTranscript = 2
  Tolerance = 0
  Texts = {"a", "b"}
  MaxWords = 2
  Overrun = 0
SPECIFICATION FairSpec
INVARIANTS SkippedWasHeard FinalisedForward SentUpToTheCap FlushSeesTheTail
PROPERTIES FlushIsAnswered
CHECK_DEADLOCK FALSE
