---------------------------- MODULE MCSecretStore ----------------------------
(* Model values for checking SecretStore. *)
EXTENDS SecretStore, TLC

CONSTANTS a, b
==============================================================================
