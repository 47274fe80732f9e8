SPECIFICATION Spec
CONSTANTS
  r1 = r1
  r2 = r2
  r3 = r3
  Requests <- MCRequests
  NoInst = NoInst
SYMMETRY Symmetry
INVARIANT RollbackIsComplete
CHECK_DEADLOCK FALSE
