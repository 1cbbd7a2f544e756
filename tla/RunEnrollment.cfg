SPECIFICATION Spec
CONSTANTS
  m1 = m1
  m2 = m2
  a = a
  b = b
  k1 = k1
  k2 = k2
  Machine = {m1, m2}
  Name = {a, b}
  Code = {k1, k2}
  MaxCredentials = 3
  MaxFaults = 1
  MaxCommands = 3
  None = None
SYMMETRY Symmetry
INVARIANTS
  InvitationEnrollsOne
  PendingIsExclusive
  CompleteIsEnrolled
  OneRole
PROPERTIES
  CredentialKept
CHECK_DEADLOCK FALSE
