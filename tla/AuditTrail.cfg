CONSTANTS
  MaxSize = 2
  MaxBackups = 1
  RingCap = 2
  QueueSize = 1
  Attempts = 2
  FailFast = 1
  MaxRunners = 2
  Bounds <- SplitBounds
SPECIFICATION Spec
CHECK_DEADLOCK FALSE
INVARIANT AuditInv
INVARIANT WindowVerifies
INVARIANT SinkAccounts
PROPERTY CloseEnds
