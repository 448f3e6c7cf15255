SPECIFICATION Spec
CONSTANTS
  Nodes = {n1, n2}
  NoNode = NoNode
  Objects = {o1}
  MaxTerms = 2
  MaxTx = 2
  MaxCrashes = 1
  MaxCancels = 1
INVARIANTS
  TypeOK
  StoreFollowsLog
  EventsFollowStore
  Serializable
  AckedDurable
  NoDeadlock
SYMMETRY NodeSymmetry
CHECK_DEADLOCK FALSE
