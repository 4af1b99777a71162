SPECIFICATION Spec
CONSTANTS
  Programs <- TwoCycles
  Switches <- AllPasses
  Inputs <- MCInputs
  Rounds = 20
  Fuel = 8
INVARIANT
  PhisReplaced
