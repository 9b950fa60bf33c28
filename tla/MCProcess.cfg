\* init and three more slots: a grandchild outlives its parent.  Two signals.
\* Processes may all be stopped, or wait for one that is.
CONSTANTS
  p0 = p0
  p1 = p1
  p2 = p2
  p3 = p3
  None = None
  Proc = {p0, p1, p2, p3}
  init = p0
  MaxKill = 2
  MaxFork = 3
  WaitArgs <- AnyOrOne
  SigCld = {"SIG_IGN"}
SYMMETRY Symmetry
SPECIFICATION Spec
INVARIANTS
  FamilyOK
  WaiterBlocked
  ReportTrue
CHECK_DEADLOCK FALSE
