----------------------------- MODULE RunTransaction -----------------------------
(***************************************************************************)
(* What a synchronization run promises for files and their ownership       *)
(* records: it is one transaction.  While the run is open a resource may   *)
(* be anywhere between its state before the run and the one the plan       *)
(* intends; when the run ends, nothing is in between unless the outcome    *)
(* reports an incomplete rollback, and a failed run left nothing behind.   *)
(***************************************************************************)
VARIABLES
  phase,    \* "none", "open", or how the run ended
  view      \* of each resource: "before", "after" or "between"

View == {"before", "after", "between"}

Init ==
  /\ phase = "none"
  /\ \A r \in DOMAIN view : view[r] = "before"

Begin ==
  /\ phase = "none" /\ phase' = "open"
  /\ UNCHANGED view

Work ==
  /\ phase = "open" /\ UNCHANGED phase
  /\ view' \in [DOMAIN view -> View]

End(outcome, allowed) ==
  /\ phase = "open" /\ phase' = outcome
  /\ \A r \in DOMAIN view : view[r] \in allowed
  /\ UNCHANGED view

Next ==
  \/ Begin \/ Work
  \/ End("converged", {"after"})
  \/ End("failed", {"before"})
  \/ End("held", {"before", "after"})
  \/ End("incomplete", View)

Spec == Init /\ [][Next]_<<phase, view>>
==============================================================================
