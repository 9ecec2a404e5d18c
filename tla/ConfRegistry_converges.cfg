SPECIFICATION Spec
CONSTANTS
  Room = {"primary"}
  PerRoom = 2
  Seeder = {"interval"}
  MaxFaults = 2
INVARIANTS TypeOK ReconnectPending
PROPERTIES RegistryConverges EmptyRoomsSettle
CHECK_DEADLOCK FALSE
