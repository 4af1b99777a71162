SPECIFICATION Spec
CONSTANTS
  Programs <- MCPrograms
  Switches <- MCSwitches
  Inputs <- MCInputs
  Rounds = 20
  Fuel = 8
INVARIANTS
  SameBehaviour
  InSSAForm
  AnalysesRight
  NoDoubleEdge
  LoopsContiguous
