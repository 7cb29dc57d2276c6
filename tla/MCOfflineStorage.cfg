SPECIFICATION FairSpec
CONSTANTS
  MaxCommands = 2
  MaxFaults = 2
  MaxClock = 2
  MaxPages = 2
  Absent = Absent
PROPERTIES
  QueuedIsDelivered
