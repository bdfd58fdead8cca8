CONSTANTS
  Timeout = 2
  PollInterval = 1
  StartLimit = 1
  CallLimit = 1
  HttpLimit = 1
  Buffer = 7
  MaxLag = 1
SPECIFICATION FairSpec
INVARIANTS
  SessionsAreTracked
  RunTellsOutcome
  PostOutlivesDispatch
PROPERTIES
  DispatchEnds
CHECK_DEADLOCK FALSE
