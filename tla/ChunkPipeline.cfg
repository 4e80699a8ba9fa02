CONSTANTS
  Sources = {"mic", "speaker"}
  MaxChunks <- MCMaxChunks
  FrameLen = 1
  ChunkLen = 2
  QueueCap = 1
  RingCap = 1
  SegmentChunks = 2
  AutoReconnect = TRUE
  SlowReader = TRUE
SPECIFICATION FairSpec
INVARIANTS SourceOrder DrainComplete LossIsCounted ArchiveIsComplete
PROPERTIES SessionEnds
CHECK_DEADLOCK FALSE
