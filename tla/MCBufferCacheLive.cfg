\* Liveness, and two writes of a block, with an I/O error.
CONSTANTS
  Proc = {p1, p2}
  Buf = {b1, b2}
  Block = {k1}
  AsyncFree = 0
  MaxWrite = 2
  MaxError = 1
  FreeList = FreeList
  None = None
SPECIFICATION FairSpec
INVARIANTS
  Coherent
  NothingLost
PROPERTIES
  DiskMonotonic
  SleepEnds
