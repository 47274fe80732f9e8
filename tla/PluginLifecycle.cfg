SPECIFICATION Spec
CONSTANTS
  r1 = r1
  r2 = r2
  r3 = r3
  Requests <- MCRequests
  NoInst = NoInst
SYMMETRY Symmetry
INVARIANTS TypeOK WholeOrGone HandlersAreAccounted DeclaredOffStaysOff SettingsMatch
CHECK_DEADLOCK FALSE
