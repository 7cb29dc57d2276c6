SPECIFICATION FairSpec
CONSTANTS
  Sessions = {s1, s2}
  Expeditions = {e1}
  CommandIds = {c1, c2}
  Intents = {i1}
  Users = {u1}
  ActorContexts = {a1}
  ProjectionKeys = {k1}
  MaxBatch = 1
  MaxPosition = 1
  System = System
  NoActor = NoActor
  NoReceipt = NoReceipt
  NoDocument = NoDocument
INVARIANTS
  NobodyWaitsInACircle
  ReadsStayTrue
PROPERTIES
  ImplementsLog
  CallsEnd
