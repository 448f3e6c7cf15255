SPECIFICATION Spec
CONSTANTS
  Nodes = {n1, n2}
  NoNode = NoNode
  Objects = {o1}
  MaxTerms = 1
  MaxTx = 2
  MaxCrashes = 0
  MaxCancels = 1
INVARIANTS
  NeverDiverges
SYMMETRY NodeSymmetry
CHECK_DEADLOCK FALSE
