SPECIFICATION Spec
CONSTANTS
  c1 = c1
  c2 = c2
  c3 = c3
  Callers = {c1, c2, c3}
  MAX_TURNS = 2
  BUDGET = 2
  SECTIONS = 2
  MaxCalls = 3
  MaxFailures = 1
SYMMETRY Symmetry
INVARIANTS
  ArtifactsAgree
  SpendBounded
PROPERTIES
  NothingOverwritten
  DecisionsStand
CHECK_DEADLOCK FALSE
