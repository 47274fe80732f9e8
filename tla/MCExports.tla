----------------------------- MODULE MCExports -----------------------------
(* An export with one automatic retry, two coroutines and two requests at a *)
(* time, and one restart.                                                   *)
EXTENDS Exports

CONSTANTS r1, r2, q1, q2, d1, d2, d3, none

MCRunners  == {r1, r2}
MCRequests == {q1, q2}
MCDicts    == {d1, d2, d3}
=============================================================================
