SPECIFICATION FairSpec
CONSTANTS
  t1 = t1
  t2 = t2
  t3 = t3
  Threads <- ThreeThreads
  InitCnt = 1
  MaxCnt = 2
  WordSize = 8
  WaitTimes = {0, 1500}
  StartNsecs = {0, 999999500}
  StepMs = 500
  MaxSec = 3
CHECK_DEADLOCK FALSE
INVARIANT CountsAgree
PROPERTY ImplementsCounting
PROPERTY WaitsWholeSeconds
PROPERTY TimedTakeReturns
