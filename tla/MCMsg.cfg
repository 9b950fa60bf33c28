\* Two processes, one queue that is removed and made again and whose limit is
\* lowered, page faults, an EFAULT, signals.
\* Everyone may wait for a message that nobody sends.
CONSTANTS
  Proc = {p1, p2}
  MSGMNI = 1
  MSGTQL = 2
  MSGSEG = 2
  MSGSSZ = 2
  MSGMNB = 6
  MSGMAX = 3
  ID_MAX = 3
  MaxRmid = 1
  MaxSend = 3
  MaxFault = 1
  SndArgs <- MCSndArgs
  RcvArgs <- MCRcvArgs
  QBytes = {2}
  SigProc = {p1, p2}
  None = None
SYMMETRY MCSymmetry
SPECIFICATION Spec
INVARIANTS
  TypeOK
  LockProtects
  PoolExact
  CountsExact
  WriterBlocked
  ExactlyOnce
  InOrder
  ReaderBlocked
CHECK_DEADLOCK FALSE
