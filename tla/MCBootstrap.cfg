SPECIFICATION Spec
CONSTANTS
  Users = {u1, u2}
  Keys = {k1, k2}
  CommandIds = {c1, c2}
  Payloads = {"valid", "other", "invalid"}
  Acceptable = {"valid", "other"}
  Workers = {w1, w2}
  MaxDraws = 3
  NoReceipt = NoReceipt
SYMMETRY Symmetry
INVARIANTS
  ExpeditionsMatchReceipts
  AnswersBind
PROPERTIES
  CreatorWasActive
