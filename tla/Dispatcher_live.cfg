SPECIFICATION BusySpec
CONSTANTS
  n1 = n1
  t1 = t1
  Nodes = {n1}
  Tasks = {t1}
  Owner <- OneTask
  NoStream = NoStream
  Streams = {s1}
  MaxRegs = 3
  Budgets <- LiveBudgets
PROPERTIES
  StatusReportsArrive
  StopCompletes
  SilentNodeNoticed
CHECK_DEADLOCK FALSE
