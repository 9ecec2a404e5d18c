SPECIFICATION FairSpec
CONSTANTS
  Engine = {e1}
  Dest = {d1, d2}
  MaxConcurrent = 1
  MaxAttempts = 2
  BatchSize = 1
  MaxFaults = 1
  OperatorActs = FALSE
  MayTimeOut = FALSE
CHECK_DEADLOCK FALSE
INVARIANTS ConcurrencyBound AttemptsBounded FailedForCause
PROPERTIES Finishes
