SPECIFICATION MCSpec
CONSTANTS
  c1 = c1
  c2 = c2
  h = h
  u1 = u1
  u2 = u2
  Clients = {c1, c2}
  Users = {h, u1, u2}
  uid <- HostAndOne
  Host = h
  Guests = {u1}
  Values <- MCValues
  Initial <- MCInitial
  Regs <- MCRegs
  NoValue = NoValue
  MaxWrites = 2
  MaxDrops = 1
  MaxRejects = 1
  MaxKills = 1
  MaxReads = 1
  MaxOthers = 1
  MaxQueue = 1
  MaxTroubles = 2
INVARIANTS
  TypeOK
  ListsWellFormed
  QuietScreensAgree
  ButtonTellsMembership
CHECK_DEADLOCK FALSE
