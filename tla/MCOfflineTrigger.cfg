SPECIFICATION FairSpec
CONSTANTS
  Tabs = {t1}
  MaxCommands = 3
  Faults = {}
PROPERTIES
  EnqueuedOnlineIsSent
CHECK_DEADLOCK FALSE
