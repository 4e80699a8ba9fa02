CONSTANTS
  Kinds = {"tls"}
  MaxProcesses = 2
  MaxClicks = 4
  FailureCost = 2
  MaxEntries <- Entries_MC
  Candidates <- Candidates_MC
  MaxLines <- FirstOnly
SPECIFICATION FairSpec
INVARIANTS OneSession WindowIsTrue TranscriptKept
PROPERTIES EndsAreSeen
CHECK_DEADLOCK FALSE
