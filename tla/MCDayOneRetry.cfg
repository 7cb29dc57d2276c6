SPECIFICATION Spec
CONSTANTS
  Participants = {p1, p2}
  Tasks = {t1, t2}
  TasksOf <- SharedTask
  Outputs = {o1}
  TaskCommands <- FourCommands
  p1 = p1
  p2 = p2
  t1 = t1
  t2 = t2
  Bannable = {p2}
  Workers = {w1, w2}
  TeamMin = 1
  TeamMax = 2
  DayLength = 2
  BoundaryTime = 1
  MaxTime = 3
  Skew = 1
  NoView = NoView
PROPERTIES
  RetryReturnsReceipt
