--------------------------- MODULE MCTaskHealing ---------------------------
(* Two executions, so that a person can run the task while its job does;    *)
(* two requests, so that any two can overlap.                               *)
EXTENDS TaskHealing, TLC

CONSTANTS e1, e2, r1, r2

MCExecutions == {e1, e2}
MCRequests   == {r1, r2}
Symmetry == Permutations(MCExecutions) \cup Permutations(MCRequests)
=============================================================================
