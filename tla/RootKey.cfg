CONSTANTS
  n1 = n1
  n2 = n2
  Nodes = {n1, n2}
  Requests = {q1, q2}
  Deployments <- AllDeployments
  MaxRoot = 4
  MaxFaults = 3
SPECIFICATION Spec
CHECK_DEADLOCK FALSE
 
PROPERTY Bootstraps
