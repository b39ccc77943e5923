SPECIFICATION FairMergeSpec
CONSTANTS
  Handles = 3
  MaxAnswers = 2
  None = None
INVARIANTS
  RaceWellFormed
  OnceInOrder
PROPERTIES
  StreamsServed
CHECK_DEADLOCK FALSE
