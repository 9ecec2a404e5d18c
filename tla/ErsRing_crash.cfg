SPECIFICATION RingFairSpec
CONSTANTS
  Caller = {c1}
  NoCaller = NoCaller
  Tier = {"primary", "secondary"}
  Graph = {"check", "primary"}
  OperatorActs = TRUE
  MaxFaults = 1
CHECK_DEADLOCK FALSE
INVARIANTS QueueMatchesIncident
PROPERTIES RowSettled IncidentsEnd
