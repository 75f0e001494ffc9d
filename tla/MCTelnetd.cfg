SPECIFICATION FairSpec
CONSTANTS
  c1 = c1
  c2 = c2
  p1 = p1
  NoClient = NoClient
  App = App
  Clients <- MCTwoClients
  NumSlots = 1
  Prints <- MCPrints
  Printers <- MCAppPrints
  MaxData = 1
  StarterWins = TRUE
INVARIANTS
  ParamsLive
  ReapedOnce
  QueuedForOne
PROPERTIES
  LeaversReaped
  StopReturns
CHECK_DEADLOCK FALSE
