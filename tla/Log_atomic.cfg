\* Crash atomicity, also when operations fault on swapped user buffers.
SPECIFICATION Spec
CONSTANTS
  Proc = {p1, p2}
  Block = {b1, b2, b3}
  Data = {d0, d1}
  d0 = d0
  MAXOPBLOCKS = 2
  LOGSIZE = 4
  OpBlocks = 1
  SwappedBuffers = TRUE
  InitialDisk <- InitialContents
INVARIANTS TypeOK CommitsAlone  NoLogPanic
PROPERTIES DiskIsAtomic
