\* Operations that fault on swapped user buffers.
SPECIFICATION Spec
CONSTANTS
  Proc = {p1, p2, p3}
  Block = {b1, b2}
  Data = {d0}
  d0 = d0
  MAXOPBLOCKS = 2
  LOGSIZE = 6
  OpBlocks = 2
  SwappedBuffers = TRUE
  InitialDisk <- InitialContents
PROPERTIES SleepersWake
