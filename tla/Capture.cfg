CONSTANTS
  MaxTime = 12
  FrameLen = 2
  ChunkLen = 3
  QueueSize = 2
  Hangover = 1
  MaxLag = 1
SPECIFICATION Spec
INVARIANTS FrameLossIsCounted SoundKeepsItsPlace SpeechIsAdmitted
CHECK_DEADLOCK FALSE
