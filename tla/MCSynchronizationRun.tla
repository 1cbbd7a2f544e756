------------------------- MODULE MCSynchronizationRun -------------------------
(* The plans SynchronizationRun is checked with.  Up to renaming of the    *)
(* paths they are all plans of their length over two paths.                *)
EXTENDS SynchronizationRun

\* Every well-formed plan of n actions whose actions are of the given kinds.
MCPaths == {"p", "q"}
Planned(n, kinds) ==
  {p \in [1..n -> [kind : kinds, path : MCPaths, owned : BOOLEAN]] :
     /\ p[1].path = "p"
     /\ WellFormed(p)}

Apart(p) == \A a, b \in DOMAIN p : a # b => p[a].path # p[b].path

TwoActions  == Planned(2, ActionKinds)
NoInstall   == {p \in Planned(2, ActionKinds \ {"install"}) : Apart(p)}
\* A path is handed over, and an owned file on the other path follows.
OneMore     == {p \in Planned(3, {"write", "remove"}) : p[1].path = p[2].path /\ p[3].owned}
TwoOrThree  == TwoActions \cup OneMore
==============================================================================
