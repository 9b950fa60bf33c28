\* Safety: 2 processes and 3 buffers; breada() holds one while it waits for another.
CONSTANTS
  Proc = {p1, p2}
  Buf = {b1, b2, b3}
  Block = {k1, k2}
  AsyncFree = 1
  MaxWrite = 1
  MaxError = 0
  FreeList = FreeList
  None = None
SYMMETRY MCSymmetry
SPECIFICATION Spec
INVARIANTS
  OneBuffer
  OwnedOnce
  NoLostWakeup
  AsyncCount
