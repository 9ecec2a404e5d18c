SPECIFICATION Spec
CONSTANTS
  Manual = {1}
  Automatic = {2}
  Scanned = {2}
  MaxRooms = 1
  MaxFaults = 1
INVARIANTS TypeOK CompletedIsStopped ActiveIsConfirmed
PROPERTIES RecordingsSettle
CHECK_DEADLOCK FALSE
