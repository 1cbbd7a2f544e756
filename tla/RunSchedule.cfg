SPECIFICATION FairSpec
CONSTANTS
  NoConfig = NoConfig
  x = x
  Calendar = {"morning", "noon"}
  Command = {x}
  MaxCommands = 2
  MaxEdits = 1
  MaxFaults = 1
  MaxRevisions = 1
INVARIANTS
  ApartFollowsDecision
PROPERTIES
  OffStaysOff
  DriftIsRepaired
CHECK_DEADLOCK FALSE
