SPECIFICATION FairSpec
CONSTANTS
  BUFFER_SIZE = 1
  BURST = 1
  Matching = {1, 3}
  CanReplay = TRUE
  MaxPos = 3
  MaxStreams = 3
  MaxDeploys = 1
  None = None
INVARIANTS
  StreamsWellFormed
  EventsAccounted
PROPERTIES
  CancelStopsDelivery
  FeedAdvances
CHECK_DEADLOCK FALSE
