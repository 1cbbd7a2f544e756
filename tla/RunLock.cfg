SPECIFICATION FairSpec
CONSTANTS
  p1 = p1
  p2 = p2
  Proc = {p1, p2}
  MaxTries = 2
  MaxCrashes = 1
  MayStall = TRUE
  NoFile = NoFile
  Empty = Empty
INVARIANTS
  DoubleHolderNeedsMisdirection
  OwnerNamesPath
  StaleRecordsAreOfTheDead
PROPERTY AcquireEnds
CHECK_DEADLOCK FALSE
