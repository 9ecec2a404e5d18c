SPECIFICATION Spec
CONSTANTS
  Engine = {e1}
  Dest = {d1}
  MaxConcurrent = 1
  MaxAttempts = 2
  BatchSize = 1
  MaxFaults = 0
  OperatorActs = FALSE
  MayTimeOut = FALSE
CHECK_DEADLOCK FALSE
INVARIANT RetryableNotFailed
