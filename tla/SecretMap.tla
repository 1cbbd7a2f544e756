------------------------------ MODULE SecretMap ------------------------------
(***************************************************************************)
(* What the secret store promises: a map from names to values that one     *)
(* operation changes at once.  A secret the user stored on this machine    *)
(* is changed and removed by the user alone; the secrets that came from    *)
(* the Source are replaced together, and never take a name the user has.   *)
(***************************************************************************)
CONSTANTS Name, Value, Absent

VARIABLE secrets   \* per name its owner and value, or Absent

Secret == [origin : {"local", "source"}, value : Value]

Local(n) == secrets[n] # Absent /\ secrets[n].origin = "local"

Init == secrets = [n \in Name |-> Absent]

Put(n) ==
  /\ secrets[n] = Absent \/ Local(n)
  /\ \E v \in Value :
       secrets' = [secrets EXCEPT ![n] = [origin |-> "local", value |-> v]]

Remove(n) ==
  secrets' = [secrets EXCEPT ![n] = Absent]

\* The names in `shared` get new values, every other one of the Source's goes.
Transfer(shared) ==
  /\ \A n \in shared : ~Local(n)
  /\ \A n \in Name :
       \/ n \in shared /\ secrets'[n] \in [origin : {"source"}, value : Value]
       \/ n \notin shared /\ secrets'[n] = IF Local(n) THEN secrets[n] ELSE Absent
  /\ DOMAIN secrets' = Name

Next ==
  \/ \E n \in Name : Put(n) \/ Remove(n)
  \/ \E shared \in SUBSET Name : Transfer(shared)

Spec == Init /\ [][Next]_secrets
=============================================================================
