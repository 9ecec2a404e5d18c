CONSTANTS
  Deploy = {d1, d2}
  Rollback = {b1}
  MaxFaults = 1
SPECIFICATION Spec
SYMMETRY JobSymmetry
INVARIANTS TypeOK NewestActive VersionsWereLoaded
PROPERTIES FailureRestores
CHECK_DEADLOCK FALSE
