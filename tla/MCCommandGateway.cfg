SPECIFICATION Spec
CONSTANTS
  Workers = {w1, w2}
  Expeditions = {e1}
  CommandIds = {c1, c2}
  Intents = {i1, i2}
  Users = {u1}
  ActorContexts = {a1, a2}
  ProjectionKeys = {k1}
  MaxBatch = 2
  MaxPosition = 3
  System = System
  NoActor = NoActor
  NoReceipt = NoReceipt
  NoDocument = NoDocument
  NoContext = NoContext
SYMMETRY Symmetry
INVARIANTS
  PositionStampsContext
  AnswersAreReceipts
PROPERTIES
  DecisionsUseCurrentState
