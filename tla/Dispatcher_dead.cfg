SPECIFICATION Spec
CONSTANTS
  n1 = n1
  t1 = t1
  Nodes = {n1}
  Tasks = {t1}
  Owner <- OneTask
  NoStream = NoStream
  Streams = {s1}
  MaxRegs = 2
  Budgets <- CrashBudget
PROPERTIES
  DeadNodeGoesDown
CHECK_DEADLOCK FALSE
