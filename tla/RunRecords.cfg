CONSTANTS
  Path <- MCPaths
  Plans <- NoInstall
  MaxCrashes = 1
  MaxInterrupts = 0
  MaxFaults = 2
  Faults = {"io", "verify", "undo"}
  MaxEdits = 0
  MayAbandon = TRUE
  MaySplitCommit = FALSE
SPECIFICATION FairSpec
INVARIANTS RecordsTellTheTruth FailureRestoresRecords FailureNeedsAnError
PROPERTY ImplementsTransaction OpenRunEnds
CHECK_DEADLOCK FALSE
