SPECIFICATION Spec
CONSTANTS
  h1 = h1
  h2 = h2
  a1 = a1
  a2 = a2
  Sessions <- MCSessions
  Senders <- MCSenders
  Apps <- MCOneApp
  NumSlots = 3
  MaxIp = 2
  SubStates <- Whole
  ClosesListen = FALSE
  CbDestroys <- AllEvents
  CbListens <- NoEvents
INVARIANTS
  FdsAccurate
  FailedMeansAll
  EventAssertsHold
  OneOutcome
  DeinitReleases
  ClearedBeforeTold
CHECK_DEADLOCK FALSE
