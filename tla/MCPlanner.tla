------------------------------ MODULE MCPlanner ------------------------------
(* Small instances of Planner. *)
EXTENDS Planner

AboveX == [p \in {"a", "ax", "b"} |-> IF p = "ax" THEN {"a"} ELSE {}]
DesiredNew == [r \in 1..3 |-> IF r = 3 THEN "old" ELSE "new"]
=============================================================================
