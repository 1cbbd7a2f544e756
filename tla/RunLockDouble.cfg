SPECIFICATION Spec
CONSTANTS
  p1 = p1
  p2 = p2
  Proc = {p1, p2}
  MaxTries = 2
  MaxCrashes = 0
  MayStall = FALSE
  NoFile = NoFile
  Empty = Empty
SYMMETRY Symmetry
INVARIANT MutualExclusion
CHECK_DEADLOCK FALSE
