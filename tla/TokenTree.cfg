CONSTANTS
  Tokens = {root, t1, t2}
  RootToken = root
  Requests = {q1, q2}
  None = None
  Shapes <- ForeverOnly
  Ops = {"create", "revoke", "accessor", "cubby"}
  MaxTime = 0
SPECIFICATION Spec
SYMMETRY RequestSymmetry
CHECK_DEADLOCK FALSE
INVARIANT TokenInv
INVARIANT OnlyWritersRevive
