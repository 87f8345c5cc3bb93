CONSTANTS
  Nodes = {n1, n2}
  Keys = {k1}
  MaxKeys = 3
  MaxRestores = 1
  MaxChanges = 1
  LateNodes = {}
SPECIFICATION Spec
SYMMETRY NodeSymmetry
CHECK_DEADLOCK FALSE
INVARIANT ClusterInv
INVARIANT RestoreSeals
