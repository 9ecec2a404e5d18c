CONSTANTS
  Flow = {f1, f2}
  All = {a1}
  MaxRevision = 3
  MaxFaults = 1
SPECIFICATION Spec
INVARIANTS TypeOK RecordedIsOnDisk
PROPERTIES ImplementsDialplan RequestsAnswered
CHECK_DEADLOCK FALSE
