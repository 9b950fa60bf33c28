SPECIFICATION Spec
CONSTANTS
  p1 = p1
  p2 = p2
  r1 = r1
  None = None
  Proc = {p1, p2}
  Remote = {r1}
  LastByte = 2
  FLCKREC = 6
  Region <- OneByte
  Locking = {"F_WRLCK"}
  SetFlck = {TRUE}
SYMMETRY Symmetry
INVARIANTS
  DeadflckEnds
