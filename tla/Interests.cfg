SPECIFICATION Spec
CONSTANTS
  p = p
  q = q
  Gone = Gone
  Interests = {p, q}
  AtStart <- One
  MaxEdits = 4
  MaxLoads = 2
  MaxLosses = 1
INVARIANTS
  RowsAreTheList
CHECK_DEADLOCK FALSE
