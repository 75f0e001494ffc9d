SPECIFICATION Spec
CONSTANTS
  NoKey = NoKey
  Keys <- MCKeys4
  HashOf <- MCHash4
  Data <- MCData
  InitSizes <- MCSizes
  MinSize = 2
  MaxSize = 4
  MayFail = TRUE
  MaxClears = 1
INVARIANTS
  CountsTrue
  WalkComplete
PROPERTIES
  WalkOnce
  ImplementsDictionary
CHECK_DEADLOCK FALSE
