SPECIFICATION FairSpec
CONSTANTS
  k1 = k1
  k2 = k2
  k3 = k3
  NoSock = NoSock
  NumSlots = 2
  Socks <- MCSocks2
  OwnerCalls <- TcpCalls
  AppCalls <- NoCalls
  CbCalls <- CbSelf
  CbAnySlot = FALSE
  PeerSpeaksFirst = FALSE
  MaxCbCalls = 1
CHECK_DEADLOCK FALSE
PROPERTY ReadDelivered
