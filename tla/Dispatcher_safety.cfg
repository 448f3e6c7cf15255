SPECIFICATION Spec
CONSTANTS
  n1 = n1
  t1 = t1
  Nodes = {n1}
  Tasks = {t1}
  Owner <- OneTask
  NoStream = NoStream
  Streams = {s1, s2}
  MaxRegs = 2
  Budgets <- SafetyBudgets
INVARIANTS
  TypeOK
  SessionsWatched
PROPERTIES
  TaskStatesForward
SYMMETRY StreamSymmetry
CHECK_DEADLOCK FALSE
