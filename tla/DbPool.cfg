SPECIFICATION FairSpec
CONSTANTS
  Ring = {r1, r2, r3}
  Plain = {q1}
  MaxClients = 3
  MaxFaults = 2
  Nobody = Nobody
CHECK_DEADLOCK FALSE
INVARIANTS TypeOK ReleasedClean NoClientLost SuccessIsCommitted
PROPERTIES RequestsEnd
