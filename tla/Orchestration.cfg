SPECIFICATION Spec
CONSTANTS
  Nodes = {1, 2}
  MaxSlots = 2
  MaxTasks = 8
  Scenarios <- All
INVARIANTS
  TypeOK
  OneTaskPerSlot
  RestartsBounded
  Converged
  CleanedUp
PROPERTIES
  TasksForward
  StartsHappen
CHECK_DEADLOCK FALSE
