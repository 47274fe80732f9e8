SPECIFICATION Spec
CONSTANTS
  e1 = e1
  e2 = e2
  r1 = r1
  r2 = r2
  Executions <- MCExecutions
  Requests <- MCRequests
  Threshold = 2
  MaxCycles = 1
  MaxRuns = 2
  MaxRestarts = 1
SYMMETRY Symmetry
INVARIANTS TypeOK LastWordHolds StampHasCycle JobsMatchRows
CHECK_DEADLOCK FALSE
