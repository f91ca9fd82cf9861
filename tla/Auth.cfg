SPECIFICATION FairSpec
CONSTANTS
  Emails = {a, b}
  Bad = Bad
  None = None
  MaxSubmits = 2
  MaxStarts = 1
INVARIANTS
  TypeOK
  HomeHasUser
  IdleIsReady
  HomeIsOwn
  MenuMeansHalfMade
  RecordsAreNamed
PROPERTIES
  FormComesBack
CHECK_DEADLOCK FALSE
