\* Two slots, 2 semaphores, sets of one semaphore, a removal and a page fault.
\* Liveness: no symmetry.
CONSTANTS
  Proc = {p1, p2}
  SEMMNI = 2
  SEMMNS = 2
  SEMVMX = 1
  SEMAEM = 1
  SEMUME = 1
  SEMMNU = 1
  SEMMSL = 1
  SEMOPM = 1
  ID_MAX = 3
  SEQ_MAX = 1
  MaxRmid = 1
  MaxFault = 1
  Keys = {}
  SetSizes = {1}
  OpLists <- MCOpListsShort
  None = None
SPECIFICATION FairSpec
INVARIANTS
  TypeOK
  SleeperCounted
  PoolDivided
PROPERTIES
  RemovalReleases
