SPECIFICATION Spec
CONSTANTS
  Tabs = {t1, t2}
  MaxCommands = 1
  Faults = {"network", "conflict", "reload"}
PROPERTIES
  SettledStaysSettled
