CONSTANTS
  Sources = {"mic", "speaker"}
  Results = {11, 12, 21, 22, 23}
  SourceOf <- MCSourceOf
  Start <- MCStart
  Tie <- MCTie
  Delay = 1
  CacheSize = 3
  MaxAdded = 4
  Texts <- MCTexts
  Similar <- MCSimilar
  Span = 0
  MaxCache = 2
  MaxTime = 1
  MaxEvents = 6
SPECIFICATION EventSpec
INVARIANTS ReleasedInOrder WrittenOnce CandidatesDiffer
CHECK_DEADLOCK FALSE
