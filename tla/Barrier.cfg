CONSTANTS
  Keys = {k1, k2}
  Foreign = {sm}
  Values = {v1, v2}
  RootKeys = {r1, r2}
  None = None
  MaxVersion = 3
  MaxDek = 4
SPECIFICATION Spec
INVARIANT BarrierInv
PROPERTY FormatFixed
PROPERTY RotationEnds
PROPERTY ImplementsSealedKV
