SPECIFICATION RingSpec
CONSTANTS
  Caller = {c1, c2}
  NoCaller = NoCaller
  Tier = {"primary"}
  Graph = {"primary"}
  OperatorActs = FALSE
  MaxFaults = 0
CHECK_DEADLOCK FALSE
SYMMETRY CallerSymmetry
INVARIANTS OneActivePerTier
