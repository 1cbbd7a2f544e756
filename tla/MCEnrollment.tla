---------------------------- MODULE MCEnrollment ----------------------------
(* Model values for checking Enrollment. *)
EXTENDS Enrollment, TLC

CONSTANTS m1, m2, a, b, k1, k2

Symmetry == Permutations(Machine) \cup Permutations(Name) \cup Permutations(Code)
==============================================================================
