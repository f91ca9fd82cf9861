SPECIFICATION MCSpec
CONSTANTS
  c1 = c1
  c2 = c2
  h = h
  u1 = u1
  u2 = u2
  Clients = {c1, c2}
  Users = {h, u1, u2}
  uid <- TwoUsers
  Host = h
  Guests = {}
  Values <- MCValues
  Initial <- MCInitial
  Regs <- MCRegs
  NoValue = NoValue
  MaxWrites = 2
  MaxDrops = 0
  MaxRejects = 0
  MaxKills = 0
  MaxReads = 0
  MaxOthers = 0
  MaxQueue = 1
  MaxTroubles = 0
PROPERTIES
  OnlyOwnDeviceRemoves
CHECK_DEADLOCK FALSE
