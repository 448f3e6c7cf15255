SPECIFICATION Spec
CONSTANTS
  MaxUpdates = 1
  MaxTemporary = 1
  MaxOps = 2
  MaxRaces = 1
PROPERTIES
  StateNeverBack
CHECK_DEADLOCK FALSE
