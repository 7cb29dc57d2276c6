SPECIFICATION FairSpec
CONSTANTS
  Participants = {p1, p2}
  Tasks = {t1, t2}
  TasksOf <- SharedTask
  Outputs = {o1}
  TaskCommands <- FourCommands
  p1 = p1
  p2 = p2
  t1 = t1
  t2 = t2
  Bannable = {p2}
  Workers = {w1, w2}
  TeamMin = 1
  TeamMax = 2
  DayLength = 3
  BoundaryTime = 1
  MaxTime = 1
  Skew = 1
  NoView = NoView
INVARIANTS
  DayFollowsLog
  TaskCompletedOnce
  RecordedInOrder
  BlockersNameOpenTasks
PROPERTIES
  DayOpensForActiveTeam
  DayEventuallyOpens
CHECK_DEADLOCK FALSE
