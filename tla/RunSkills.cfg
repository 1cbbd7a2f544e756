SPECIFICATION Spec
CONSTANTS
  a = a
  b = b
  Skill = {a, b}
  MaxVersions = 2
  MaxEdits = 3
  MaxFaults = 2
  MaxCommands = 3
SYMMETRY Symmetry
INVARIANTS
  RecordedIsInstalled
  JournalRestores
  LastEditKept
CHECK_DEADLOCK FALSE
