SPECIFICATION Spec
CONSTANTS
  h1 = h1
  h2 = h2
  a1 = a1
  a2 = a2
  Sessions <- MCOneSession
  Senders <- MCSenders
  Apps <- MCOneApp
  NumSlots = 2
  MaxIp = 1
  SubStates <- Split
  ClosesListen = FALSE
  CbDestroys <- NoEvents
  CbListens <- NoEvents
INVARIANT
  SubStateAssertHolds
CHECK_DEADLOCK FALSE
