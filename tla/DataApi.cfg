SPECIFICATION Spec
CONSTANTS
  r1 = r1
  r2 = r2
  k1 = k1
  c1 = c1
  c2 = c2
  NoKey = NoKey
  Rows = {r1, r2}
  Keys = {k1}
  Callers = {c1, c2}
  Requests <- MCRequests
  WINDOW = 1
  MaxSteps = 3
  MaxDays = 1
SYMMETRY Symmetry
INVARIANTS
  AnswersKept
PROPERTIES
  ArchivedUntouched
CHECK_DEADLOCK FALSE
