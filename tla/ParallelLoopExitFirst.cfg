\* Headers whose first branch target leaves the loop.
SPECIFICATION FairSpec
CONSTANTS
  N = 3
  Rounds = 1
  UseLock = TRUE
  MinPar = 3
  MaxWord = 7
  Bounds <- RegionBounds
  ExitFirst = {TRUE}
  ForkMayFail = FALSE
INVARIANTS
  RegionComplete
CHECK_DEADLOCK FALSE
