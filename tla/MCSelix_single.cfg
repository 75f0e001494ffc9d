SPECIFICATION Spec
CONSTANTS
  k1 = k1
  k2 = k2
  k3 = k3
  NoSock = NoSock
  NumSlots = 2
  Socks <- MCSocks3
  OwnerCalls <- TcpCalls
  AppCalls <- NoCalls
  CbCalls <- CbSelf
  CbAnySlot = FALSE
  PeerSpeaksFirst = FALSE
  MaxCbCalls = 1
SYMMETRY Symmetry
INVARIANT SocketsOwned
INVARIANT CloseMeansPeer
INVARIANT ConnectMeansEstablished
INVARIANT AssertsOnlyShutDown
INVARIANT AllReadySeen
INVARIANT StaysRegistered
CHECK_DEADLOCK FALSE
