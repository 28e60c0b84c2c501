SPECIFICATION LiveSpec
CONSTANTS
  Threads = {t1, t2}
  Streams = {full, oneseg}
  MaxFd = 4
  MaxPipes = 2
  Chunks = 2
  Capacity = 1
  Unknown = 99
  None = none
INVARIANTS
  FrameRight
PROPERTY
  ReadReturns
CHECK_DEADLOCK FALSE
