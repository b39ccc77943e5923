SPECIFICATION Spec
CONSTANTS
  t1 = t1
  t2 = t2
  c1 = c1
  c2 = c2
  Tables = {t1, t2}
  Callers = {c1, c2}
  MaxCalls = 4
  MaxFailures = 1
SYMMETRY Symmetry
INVARIANTS
  HistoryTrue
  DeployedAsRecorded
PROPERTIES
  NothingOverwritten
CHECK_DEADLOCK FALSE
