SPECIFICATION Spec
CONSTANTS
  p1 = p1
  p2 = p2
  p3 = p3
  None = None
  Proc = {p1, p2, p3}
  Remote = {}
  LastByte = 1
  FLCKREC = 5
  Region <- AnyRegion
  Locking = {"F_RDLCK", "F_WRLCK"}
  SetFlck = {TRUE}
SYMMETRY Symmetry
INVARIANTS
  SleeperBlocked
  NoWaitCycle
