\* Two machine registers, four pseudo registers, every graph with five interferences or more.
SPECIFICATION FairSpec
CONSTANTS
  K = 2
  MaxNode = 6
  CalleeSave = {1}
  Graphs <- MCGraphs
INVARIANTS
  NodesAccounted
  EdgesKept
  AlwaysColorable
  ValidColoring
  Inv
PROPERTIES
  SpillOnlyWhenStuck
  Terminates
