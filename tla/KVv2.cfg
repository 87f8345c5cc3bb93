CONSTANTS
  Procs = {p1, p2}
  Values = {a, b}
  None = None
  DefaultMax = 1
  Limits = {0, 1}
  MaxVer = 2
  MaxDeletes = 2
SPECIFICATION Spec
SYMMETRY ProcSymmetry
CHECK_DEADLOCK FALSE
INVARIANT KVv2Inv
INVARIANT ReadsMatchMetadata
PROPERTY DestroyedForever
