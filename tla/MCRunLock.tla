------------------------------ MODULE MCRunLock ------------------------------
(* Model values for checking RunLock. *)
EXTENDS RunLock, TLC

CONSTANTS p1, p2

Symmetry == Permutations(Proc)
==============================================================================
