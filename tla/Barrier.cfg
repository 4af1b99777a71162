\* Three threads, three child loops: the second and third rendezvous reuse both words.
SPECIFICATION FairSpec
CONSTANTS
  N = 3
  Phases = 3
INVARIANTS
  TypeOK
  Inv
  PhaseSeparation
PROPERTIES
  NoRearmUnderSpinner
  ImplementsPhaseSync
  AllFinish
