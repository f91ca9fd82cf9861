SPECIFICATION Spec
CONSTANTS
  me = me
  a = a
  b = b
  Empty = Empty
  Users <- MCUsers
  Me <- me
  AtStart <- TwoBuddies
  Unreadable = {}
  MaxSheets = 1
  MaxPresses = 0
  MaxRemovals = 1
  MaxAppears = 1
INVARIANTS
  OwnRecordParses
CHECK_DEADLOCK FALSE
