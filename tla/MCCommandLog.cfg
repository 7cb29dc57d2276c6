SPECIFICATION LogSpec
CONSTANTS
  Expeditions = {e1, e2}
  CommandIds = {c1, c2, c3}
  Intents = {i1}
  Users = {u1}
  ActorContexts = {a1}
  ProjectionKeys = {k1, k2}
  MaxBatch = 2
  MaxPosition = 4
  System = System
  NoActor = NoActor
  NoReceipt = NoReceipt
  NoDocument = NoDocument
SYMMETRY Symmetry
INVARIANTS
  LogTypeOK
  StreamGapless
  ReceiptsAccountForEvents
  DocumentsNameReceipts
  PositionOrdersVersions
PROPERTIES
  HistoryImmutable
  ImplementsLedger
