CONSTANTS
  Sessions = {s1, s2}
  Translated = {s1}
  MaxRequests <- MCMaxRequests
  MaxBatch = 2
  Temperatures = 2
  QueueSize = 1
SPECIFICATION FairSpec
INVARIANTS OwnResult TranslatedInOrder
PROPERTIES NobodyWaitsForEver
CHECK_DEADLOCK FALSE
