SPECIFICATION Spec
CONSTANTS
  h = h
  k = k
  f = f
  Harness = {h, k}
  Folder = {f}
  Recent = 1
  MaxRuns = 3
  MaxEdits = 1
  MaxFaults = 1
SYMMETRY Sym
INVARIANTS
  LastVersionKept
  RowsResolve
  RowsAreApplied
CHECK_DEADLOCK FALSE
