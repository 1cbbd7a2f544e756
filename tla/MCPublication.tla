---------------------------- MODULE MCPublication ----------------------------
(* Model values for checking Publication: contents that share a blob. *)
EXTENDS Publication, TLC

CONSTANTS p, q, apply, plan, red, green, one, two

MCBlobsOf == red :> {one} @@ green :> {one, two}
MCSize == one :> 1 @@ two :> 2
==============================================================================
