SPECIFICATION Spec
CONSTANTS
  Resource = {1, 2, 3}
  Path = {"a", "ax", "b"}
  Above <- AboveX
  Content = {"old", "new"}
  Before = {"old", "new"}
  Desired <- DesiredNew
INVARIANT ConvergedIsDesired
PROPERTY RetiredAfterReplacement
PROPERTY EditsAreKept
CHECK_DEADLOCK FALSE
