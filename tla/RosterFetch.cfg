SPECIFICATION FairSpec
CONSTANTS
  Users = {h, u1, x}
  Host = h
  Unreadable = {x}
  MaxChanges = 3
  MaxQueue = 2
INVARIANTS
  TypeOK
  Accounted
  EveryoneShown
  CellsCatchUp
PROPERTIES
  RosterFills
CHECK_DEADLOCK FALSE
