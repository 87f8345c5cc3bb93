CONSTANTS
  Tokens = {root, t1}
  RootToken = root
  Requests = {q1, q2}
  None = None
  Shapes <- ExpiringShapes
  Ops = {"api", "create", "self", "revoke"}
  MaxTime = 2
SPECIFICATION Spec
CHECK_DEADLOCK FALSE
INVARIANT TokenInv
 
PROPERTY ExpiredCollected
