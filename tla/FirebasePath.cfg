SPECIFICATION MCSpec
CONSTANTS
  Clients = {c1, c2}
  Values = {v0, v1}
  Initial = v0
  NoValue = NoValue
  Regs <- MCRegs
  MaxWrites = 2
  MaxDrops = 1
  MaxRejects = 1
  MaxKills = 1
  MaxReads = 1
  MaxOthers = 0
  MaxQueue = 1
  MaxTroubles = 2
INVARIANTS
  PathTypeOK
  EveryPutIsAnswered
  ListenersAreTold
  HeldBackIsDue
PROPERTIES
  AnswerIsSilent
  ImplementsShared
  DevicesSettle
CHECK_DEADLOCK FALSE
