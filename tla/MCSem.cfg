\* Safety of semop, semctl and semexit: 2 processes, a slot with a set of 2
\* semaphores that is removed twice, so that its semid wraps, and a page fault.
CONSTANTS
  Proc = {p1, p2}
  SEMMNI = 1
  SEMMNS = 2
  SEMVMX = 1
  SEMAEM = 1
  SEMUME = 1
  SEMMNU = 2
  SEMMSL = 2
  SEMOPM = 2
  ID_MAX = 1
  SEQ_MAX = 1
  MaxRmid = 2
  MaxFault = 1
  Keys = {k1}
  SetSizes = {2}
  OpLists <- MCOpLists
  None = None
SYMMETRY MCSymmetry
SPECIFICATION Spec
INVARIANTS
  WaitsOnlyWhenBlocked
  BackedOutExactly
  UndoBalance
  UndoChainExact
  UndoEntriesLive
  RemovedIdInvalid
