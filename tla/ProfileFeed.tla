----------------------------- MODULE ProfileFeed -----------------------------
(***************************************************************************)
(* What publishing and synchronizing promise: a Source appends contents to *)
(* one sequence, never twice the same in a row, and a follower only moves  *)
(* forward in it.                                                          *)
(***************************************************************************)
EXTENDS Naturals, Sequences

CONSTANT Content

VARIABLES
  log,       \* the published contents, by sequence number
  followed   \* the sequence number of the content the follower has, 0 for none

vars == <<log, followed>>

Init == log = <<>> /\ followed = 0

Publish(c) ==
  /\ log = <<>> \/ log[Len(log)] # c
  /\ log' = Append(log, c)
  /\ UNCHANGED followed

Follow(n) ==
  /\ n > followed
  /\ followed' = n
  /\ UNCHANGED log

Next == (\E c \in Content : Publish(c)) \/ (\E n \in 1..Len(log) : Follow(n))

Spec == Init /\ [][Next]_vars
=============================================================================
