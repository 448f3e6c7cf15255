SPECIFICATION Spec
CONSTANTS
  MaxUpdates = 2
  MaxTemporary = 1
  MaxOps = 2
  MaxRaces = 0
INVARIANTS
  TypeOK
  StoredWhenIdle
  ControllerUpToDate
  ClosedIsQuiet
PROPERTIES
  ImplementsLifecycle
  Responsive
CHECK_DEADLOCK FALSE
