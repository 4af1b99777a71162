SPECIFICATION Spec
CONSTANTS
  Programs <- OwnArray
  Switches <- AllPasses
  Inputs <- MCInputs
  Rounds = 40
  Fuel = 8
  CacheSize = 4
  CachePrime = 3
  MaxUnroll = 3
  MaxUnrollInstr = 60
  UnrollN = 2
INVARIANT
  TailCallsKept
