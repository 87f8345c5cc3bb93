SPECIFICATION SessionSpec
CONSTANTS
  t1 = t1
  t2 = t2
  rt = rt
  bt = bt
  n = n
  c = c
  Root = Root
  None = None
  Tabs = {t1, t2}
  Tokens = {rt, bt}
  Namespaces = {n, c}
  Parent <- MCParent
  BoundTo <- MCBoundTo
  Deployments <- MCDeployments
CHECK_DEADLOCK FALSE
INVARIANT SessionPagesTrue
INVARIANT SignedOutLeavesNoToken
PROPERTY DeadSessionEnds
PROPERTY HeaderCatchesUp
PROPERTY SignInConcludes
