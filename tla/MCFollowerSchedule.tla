-------------------------- MODULE MCFollowerSchedule --------------------------
(* Model values for checking FollowerSchedule. *)
EXTENDS FollowerSchedule, TLC

CONSTANT x
===============================================================================
