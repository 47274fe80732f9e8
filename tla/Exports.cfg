CONSTANTS
    r1 = r1
    r2 = r2
    q1 = q1
    q2 = q2
    d1 = d1
    d2 = d2
    d3 = d3
    none = none
    Runners <- MCRunners
    Requests <- MCRequests
    Dicts <- MCDicts
    First = d1
    NoDict = none
    NoRunner = none
    Retries = 1
    MaxActs = 3
    MaxRestarts = 1
SPECIFICATION Spec
INVARIANTS TypeOK ExportsSettle
PROPERTIES DoneStays
\* A quiet export whose requests and restart are used up.
CHECK_DEADLOCK FALSE
