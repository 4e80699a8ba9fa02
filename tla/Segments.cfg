CONSTANTS
  Known <- KnownTexts
  Texts = {"clear", "weak", "thanks", "noise"}
  EmitThreshold = 2
  ReviewThreshold = 1
  RepeatWindow = 1
  PendingWindow = 12
  MaxPendingAge = 2
  PhraseDuration = 1
  MaxAudio = 5
  MaxRounds = 3
  MaxSegments = 3
  SameOutput = 1
  NoSpeech = 45
  MaxTranscript = 3
  MaxBuffer = 3
  Trim = 2
  ClipAt = 3
  ClipTail = 1
SPECIFICATION PathSpec
INVARIANTS AnchorInAudio SentOnce HeardIsSent
CHECK_DEADLOCK FALSE
