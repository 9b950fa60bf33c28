\* Liveness, so no symmetry; slots are used again.  Three signals.
\* Processes may all be stopped, or wait for one that is.
CONSTANTS
  p0 = p0
  p1 = p1
  p2 = p2
  None = None
  Proc = {p0, p1, p2}
  init = p0
  MaxKill = 3
  MaxFork = 2
  WaitArgs <- AnyOrOne
  SigCld = {"catch"}
SPECIFICATION FairSpec
PROPERTIES
  KillWorks
  InitReaps
CHECK_DEADLOCK FALSE
