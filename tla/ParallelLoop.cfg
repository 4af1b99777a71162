\* Three threads, the region reached twice, short and long ranges, clone may fail.
SPECIFICATION FairSpec
CONSTANTS
  N = 3
  Rounds = 2
  UseLock = TRUE
  MinPar = 3
  MaxWord = 7
  Bounds <- MCBounds
  ExitFirst = {FALSE}
  ForkMayFail = TRUE
INVARIANTS
  TypeOK
  Inv
  LockExclusion
  OnlyEpilogueLeft
PROPERTIES
  ImplementsLoopRegion
  AllRoundsFinish
CHECK_DEADLOCK FALSE
