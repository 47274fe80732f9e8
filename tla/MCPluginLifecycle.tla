------------------------- MODULE MCPluginLifecycle -------------------------
(* One plugin and three requests: three are needed for a request to find   *)
(* what an earlier overlap or rollback of two others has left.  Requests   *)
(* are interchangeable until they begin, and no formula names one.         *)
EXTENDS PluginLifecycle, TLC

CONSTANTS r1, r2, r3

MCRequests == {r1, r2, r3}
Symmetry == Permutations(MCRequests)
=============================================================================
