SPECIFICATION FairSpec
CONSTANTS
  n1 = n1
  n2 = n2
  d1 = d1
  d2 = d2
  d3 = d3
  Normal <- TwoNormal
  Delayed <- TwoDelayed
  Delays = {0, 2}
  MaxCheck = 3
  MaxPost = 3
  TickMod = 13
  Clk = 1
  Start = 11
  MayStop = TRUE
  Horizon = 3
CHECK_DEADLOCK FALSE
INVARIANT PostedOnce
PROPERTY ImplementsMailbox
PROPERTY MessageDelivered
PROPERTY DestroyReturns
