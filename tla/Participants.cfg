CONSTANTS
  Leg = {l1, l2}
  MaxFaults = 2
SPECIFICATION Spec
INVARIANTS TypeOK AnsweredNotMissed RowsFollowCalls
PROPERTIES JoinsRecorded
CHECK_DEADLOCK FALSE
