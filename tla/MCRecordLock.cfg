SPECIFICATION Spec
CONSTANTS
  p1 = p1
  r1 = r1
  None = None
  Proc = {p1}
  Remote = {r1}
  LastByte = 2
  FLCKREC = 3
  Region <- AnyRegion
  Locking = {"F_RDLCK", "F_WRLCK"}
  SetFlck = {TRUE, FALSE}
INVARIANTS
  ListCanonical
  AdjustExact
PROPERTIES
  LocksSpec
