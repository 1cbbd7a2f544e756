----------------------------- MODULE MCTakeover -----------------------------
(* Model values for checking Takeover; the surfaces of harnesses are alike. *)
EXTENDS Takeover, TLC

CONSTANTS h, k, f

Sym == Permutations(Harness)
=============================================================================
