\* Three machine registers; a load or store reaches one word from sp.
\* Functions that need spills, constants, calls, loops, an array and far stores.
SPECIFICATION FrameSpec
CONSTANTS
  K = 3
  MaxNode = 60
  Reach = 1
  LR = 2
  CalleeSave = {1, 2}
  Graphs <- MCNoGraphs
  Programs <- MCPrograms
INVARIANTS
  RewritePreserves
  SameBehaviour
  CalleeSavePrefix
  FrameBehaviour
  CallerUnharmed
  CallsAligned
  AllocInv
PROPERTIES
  SpilledAreGone
  Allocates
