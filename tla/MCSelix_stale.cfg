SPECIFICATION Spec
CONSTANTS
  k1 = k1
  k2 = k2
  k3 = k3
  NoSock = NoSock
  NumSlots = 2
  Socks <- MCSocks3
  OwnerCalls <- ServerCalls
  AppCalls <- NoCalls
  CbCalls <- CbKick
  CbAnySlot = TRUE
  PeerSpeaksFirst = FALSE
  MaxCbCalls = 2
SYMMETRY Symmetry
CHECK_DEADLOCK FALSE
INVARIANT NoStaleDispatch
