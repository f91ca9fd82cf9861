SPECIFICATION Spec
CONSTANTS
  me = me
  a = a
  b = b
  Empty = Empty
  Users <- MCUsers
  Me <- me
  AtStart <- OneBuddy
  Unreadable = {}
  MaxSheets = 2
  MaxPresses = 2
  MaxRemovals = 1
  MaxAppears = 2
INVARIANTS
  TypeOK
  NobodyTwice
  OnlyEmptyIdTraps
  ButtonTellsFollowing
  BuddiesShown
PROPERTIES
  PressFollows
CHECK_DEADLOCK FALSE
