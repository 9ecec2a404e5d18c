SPECIFICATION Spec
CONSTANTS
  Engine = {e1, e2}
  Dest = {d1, d2}
  MaxConcurrent = 2
  MaxAttempts = 2
  BatchSize = 2
  MaxFaults = 0
  OperatorActs = TRUE
  MayTimeOut = TRUE
CHECK_DEADLOCK FALSE
SYMMETRY CampaignSymmetry
INVARIANTS TypeOK LiveLegOwned CompletedIsResolved
PROPERTIES AnsweredNotRedialled SettledStaysSettled
