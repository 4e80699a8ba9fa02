CONSTANTS
  Clients = 2
  MaxRetries <- RetriesOfOne
  MaxSegments <- SegmentsOfOne
  Spans <- SomeSpans
  MaxPackets <- Packets
  SaveAfter = 2
  Texts = {x, y}
SPECIFICATION FairTeeSpec
INVARIANTS SubtitlesAreWhole RecordingIsWhole
PROPERTIES CallEnds
CHECK_DEADLOCK FALSE
