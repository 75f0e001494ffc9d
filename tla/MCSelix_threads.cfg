SPECIFICATION Spec
CONSTANTS
  k1 = k1
  k2 = k2
  k3 = k3
  NoSock = NoSock
  NumSlots = 2
  Socks <- MCSocks3
  OwnerCalls <- NoCalls
  AppCalls <- NoAccept
  CbCalls <- NoAccept
  CbAnySlot = TRUE
  PeerSpeaksFirst = TRUE
  MaxCbCalls = 1
SYMMETRY Symmetry
CHECK_DEADLOCK FALSE
INVARIANT IdsUnique
INVARIANT NoStaleDispatch
