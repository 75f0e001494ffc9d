SPECIFICATION FairSpec
CONSTANTS
  Stream <- Folder6
  MaxBlock = 3
  BufSize = 2
  Cap = 4
  Faults = {"break", "timeout", "stream"}
CHECK_DEADLOCK FALSE
INVARIANT PrefixWritten
INVARIANT ProgressAgrees
PROPERTY ImplementsService
PROPERTY TransferCompletes
