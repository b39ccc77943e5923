SPECIFICATION Spec
CONSTANTS
  ws1 = ws1
  ws2 = ws2
  w1 = w1
  w2 = w2
  e1 = e1
  e2 = e2
  Workspaces = {ws1}
  Seeded = {}
  Events = {e1, e2}
  Writers = {w1, w2}
  Backend = "mongo"
  MaxSeq = 3
  MaxBatch = 2
  None = None
SYMMETRY Symmetry
INVARIANTS
  ChainIntact
  BatchReplyMatches
PROPERTIES
  AppendOnly
  ImplementsAuditLog
