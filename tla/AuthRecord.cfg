SPECIFICATION Spec
CONSTANTS
  Emails = {a, b}
  Bad = Bad
  None = None
  MaxSubmits = 1
  MaxStarts = 0
INVARIANTS
  HomeUserReadable
CHECK_DEADLOCK FALSE
