SPECIFICATION FairSpec
CONSTANTS
  Nodes = {n1, n2}
  NoNode = NoNode
  Objects = {o1}
  MaxTerms = 2
  MaxTx = 2
  MaxCrashes = 0
  MaxCancels = 0
PROPERTIES
  TxTerminates
  Converges
CHECK_DEADLOCK FALSE
