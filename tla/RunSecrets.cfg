SPECIFICATION Spec
CONSTANTS
  a = a
  b = b
  Name = {a, b}
  MaxItems = 6
  MaxFaults = 2
  MayStayUnconfirmed = FALSE
  Absent = Absent
INVARIANTS
  TypeOK
  EntriesResolve
  NothingUnnamed
PROPERTY ImplementsSecretMap
CHECK_DEADLOCK FALSE
