SPECIFICATION RingFairSpec
CONSTANTS
  Caller = {c1, c2}
  NoCaller = NoCaller
  Tier = {"primary"}
  Graph = {"check"}
  OperatorActs = FALSE
  MaxFaults = 0
CHECK_DEADLOCK FALSE
PROPERTIES PromotedInOrder WaitersServed RingingEnds
