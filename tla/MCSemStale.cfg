\* A set is removed while semop() is in the page fault of copyin().
CONSTANTS
  Proc = {p1, p2}
  SEMMNI = 1
  SEMMNS = 2
  SEMVMX = 1
  SEMAEM = 1
  SEMUME = 1
  SEMMNU = 2
  SEMMSL = 2
  SEMOPM = 2
  ID_MAX = 1
  SEQ_MAX = 1
  MaxRmid = 2
  MaxFault = 1
  Keys = {k1}
  SetSizes = {2}
  OpLists <- MCOpLists
  None = None
SYMMETRY MCSymmetry
SPECIFICATION Spec
INVARIANT StaleIdDetected
