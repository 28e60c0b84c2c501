SPECIFICATION SessionSpec
CONSTANTS
  FileLength = 2
  FileLoops <- OnceMoreOrForever
  Shapes <- ChunkShapes
  Capacity = 3
  Atomic = 2
  BadReads = TRUE
  BadPackets = TRUE
INVARIANTS
  WholeFile
  LifeCycle
PROPERTIES
  InOrder
  EndsUnlessStalled
  Exits
CHECK_DEADLOCK FALSE
