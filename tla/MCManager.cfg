SPECIFICATION Spec
CONSTANTS
  t1 = t1
  t2 = t2
  b1 = b1
  b2 = b2
  b3 = b3
  b4 = b4
  NoBlock = NoBlock
  Threads <- TwoThreads
  Blocks <- FourBlocks
  Limits = {3}
  Requests = {0,2,5}
  MaxInits = 3
  MaxNodes = 3
  MaxSockets = 1
SYMMETRY BlockSymmetry
CHECK_DEADLOCK FALSE
INVARIANT LimitKept
INVARIANT NodesDistinct
INVARIANT NothingLeaked
PROPERTY NoOtherNodeWalked
