SPECIFICATION Spec
CONSTANTS
  NoConfig = NoConfig
  x = x
  Calendar = {"morning"}
  Command = {x}
  MaxCommands = 1
  MaxEdits = 0
  MaxFaults = 0
  MaxRevisions = 0
INVARIANTS
  DecisionKept
CHECK_DEADLOCK FALSE
