SPECIFICATION PatientSpec
CONSTANTS
  Tabs = {t1}
  MaxCommands = 2
  Faults <- AllFaults
INVARIANTS
  TypeOK
  SettledAgreesWithServer
  SyncedCommandsAreVisible
  SyncedInQueueOrder
PROPERTIES
  NoOvertaking
  SettledStaysSettled
  QueuedCommandsSettle
