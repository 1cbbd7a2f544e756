CONSTANTS
  Path <- MCPaths
  Plans <- TwoOrThree
  MaxCrashes = 2
  MaxInterrupts = 1
  MaxFaults = 1
  Faults = {"io", "verify", "undo", "journal"}
  MaxEdits = 1
  MayAbandon = TRUE
  MaySplitCommit = FALSE
SPECIFICATION Spec
INVARIANTS JournalAcceptable ConvergedIsDesired RecoverableUnlessOverlaid MutationIsJournaled FailureRestoresFiles
PROPERTY EditsAreKept
CHECK_DEADLOCK FALSE
