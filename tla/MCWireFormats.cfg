SPECIFICATION Spec
CONSTANTS
  Loops <- MCLoops
  Trailer <- MCTrailer
  Inputs <- MCInputs
INVARIANTS
  AsSent
  PlainAsSent
  Walked
  StructuresAsSent
PROPERTIES
  WalkRight
CHECK_DEADLOCK FALSE
