SPECIFICATION Spec
CONSTANTS
  Sports = {tennis, golf}
  None = None
  MaxOpens = 2
  MaxEvents = 2
  MaxStarts = 1
INVARIANTS
  TypeOK
  FilterIsStored
  CellsUseStored
  StoredIsComplete
  WizardNeverTraps
PROPERTIES
  OpensFresh
CHECK_DEADLOCK FALSE
