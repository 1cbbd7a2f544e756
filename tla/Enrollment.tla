----------------------------- MODULE Enrollment -----------------------------
(***************************************************************************)
(* How machines become followers of one Source, rotate or replace their    *)
(* identity and leave again: the Source's request handlers and tables      *)
(* (src/src/enrollment/enrollment.layer.ts and the enrollment part of      *)
(* src/src/state/state-repository.layer.ts), the requests between the two  *)
(* (follower-client.ts, source-server.ts) and the commands `follower       *)
(* enroll`, `follower unenroll` and `source init` of a machine             *)
(* (src/src/runtime/layers.ts, src/src/state/machine-role.ts).             *)
(*                                                                         *)
(* Enrollment has two phases.  The Source prepares: it stores a new        *)
(* credential and a pending row.  The machine stores the credential and a  *)
(* configuration marked pending, and only then asks the Source to          *)
(* finalize.  Requests and answers may be lost, a request may outlive the  *)
(* command that sent it, and both programs may be killed anywhere.         *)
(*                                                                         *)
(* Abstractions: a follower id is its name (the code hashes the Source's   *)
(* fingerprint and the name); fingerprints, nonces, groups and versions    *)
(* match, since a mismatch only refuses; a database statement or           *)
(* transaction is one step, joined with the removal of a credential item   *)
(* of the Source that follows it, for nothing reads those items back; a    *)
(* machine has at most one abandoned request in flight; SQL failures are   *)
(* those of the two saves a command undoes something after.                *)
(***************************************************************************)
EXTENDS Naturals, FiniteSets

CONSTANTS
  Machine,          \* the machines that enroll
  Name,             \* the names (identities) they ask for
  Code,             \* the invitations the Source may create
  MaxCredentials,   \* bound: credentials the Source generates
  MaxFaults,        \* bound: answers not in time, programs killed, stores failing
  MaxCommands,      \* bound: commands that are started
  None              \* no configuration, no request, no credential

Credential == 1..MaxCredentials

ASSUME ConstantsAssumption ==
  /\ MaxCredentials \in Nat /\ MaxFaults \in Nat /\ MaxCommands \in Nat
  /\ None \notin Credential \cup Name \cup Code

VARIABLES
  invitation,   \* Source: what became of each invitation
  pending,      \* Source: the pending_enrollments rows
  follower,     \* Source: per name its followers and credentials row
  sourceItems,  \* Source: credentials in its native store
  session,      \* Source: is its server up?
  issued,       \* Source: how many credentials were generated
  sourceRole,   \* machines that have an enrollment_source row
  config,       \* per machine its follower_sync_configuration row
  items,        \* per machine the credentials in its native store
  command,      \* per machine the command that runs
  awaited,      \* per machine the request its command waits for
  abandoned,    \* per machine a request nobody waits for any more
  faults, commands,   \* what the bounds count
  finalized     \* history: what finalizeEnrollment activated

sourceVars  == <<invitation, pending, follower, sourceItems, session, issued, finalized>>
machineVars == <<sourceRole, config, items>>
requestVars == <<awaited, abandoned>>
boundVars   == <<faults, commands>>
vars == <<sourceVars, machineVars, command, requestVars, boundVars>>

Request(kind, name, code, cred) ==
  [kind |-> kind, step |-> "sent", name |-> name, code |-> code, cred |-> cred]

Answers == {"ok", "invalid", "refused", "failed"}

Idle == [pc |-> "idle", name |-> None, code |-> None, cred |-> None, previous |-> None]

Complete(m) == config[m] # None /\ ~config[m].pending
Pending(m)  == config[m] # None /\ config[m].pending

Active(n) == follower[n].cred # None /\ ~follower[n].revoked

Init ==
  /\ invitation = [k \in Code |-> "absent"]
  /\ pending = {}
  /\ follower = [n \in Name |-> [cred |-> None, revoked |-> FALSE]]
  /\ sourceItems = {}
  /\ session = "up"
  /\ issued = 0
  /\ sourceRole = {}
  /\ config = [m \in Machine |-> None]
  /\ items = [m \in Machine |-> {}]
  /\ command = [m \in Machine |-> Idle]
  /\ awaited = [m \in Machine |-> None]
  /\ abandoned = [m \in Machine |-> None]
  /\ faults = 0
  /\ commands = 0
  /\ finalized = {}

-----------------------------------------------------------------------------
(* The Source's own commands and its server.                               *)

CreateInvitation(k) ==
  /\ invitation[k] = "absent"
  /\ invitation' = [invitation EXCEPT ![k] = "open"]
  /\ UNCHANGED <<pending, follower, sourceItems, session, issued, finalized,
                 machineVars, command, requestVars, boundVars>>

Expire(k) ==
  /\ invitation[k] = "open"
  /\ invitation' = [invitation EXCEPT ![k] = "expired"]
  /\ UNCHANGED <<pending, follower, sourceItems, session, issued, finalized,
                 machineVars, command, requestVars, boundVars>>

\* `source revoke`: by name, in a process of its own.
RevokeFollower(n) ==
  /\ Active(n)
  /\ follower' = [follower EXCEPT ![n].revoked = TRUE]
  /\ sourceItems' = sourceItems \ {follower[n].cred}
  /\ UNCHANGED <<invitation, pending, session, issued, finalized,
                 machineVars, command, requestVars, boundVars>>

Fault == faults < MaxFaults /\ faults' = faults + 1

\* The server is gone, and with it the handlers that had not answered: the
\* connection of a command that waits is closed.
StopServer ==
  /\ session = "up"
  /\ Fault
  /\ session' = "down"
  /\ awaited' = [m \in Machine |->
       IF awaited[m] = None \/ awaited[m].step \in Answers THEN awaited[m]
       ELSE [awaited[m] EXCEPT !.step = "failed"]]
  /\ abandoned' = [m \in Machine |-> None]
  /\ UNCHANGED <<invitation, pending, follower, sourceItems, issued, finalized,
                 machineVars, command, commands>>

\* startServerSession: the only server cancels every pending enrollment; it
\* may be killed after some of them.
StartServer ==
  /\ session = "down"
  /\ \E gone \in SUBSET pending :
       /\ pending' = pending \ gone
       /\ sourceItems' = sourceItems \ {p.cred : p \in gone}
       /\ session' = IF gone = pending THEN "up" ELSE "down"
  /\ UNCHANGED <<invitation, follower, issued, finalized,
                 machineVars, command, requestVars, boundVars>>

-----------------------------------------------------------------------------
(* The request handlers.  A handler goes on when nobody waits for its      *)
(* answer any more; `late` says which of the two requests of m it serves.  *)

At(m, late) == IF late THEN abandoned[m] ELSE awaited[m]

Serving(m, late, kind, step) ==
  /\ session = "up"
  /\ At(m, late) # None
  /\ At(m, late).kind = kind
  /\ At(m, late).step = step

Advance(m, late, r) ==
  IF late
  THEN /\ abandoned' = [abandoned EXCEPT ![m] = IF r.step \in Answers THEN None ELSE r]
       /\ UNCHANGED awaited
  ELSE /\ awaited' = [awaited EXCEPT ![m] = r]
       /\ UNCHANGED abandoned

Step(m, late, step) == Advance(m, late, [At(m, late) EXCEPT !.step = step])

\* enrollFollower reads the invitation and the identity before it stores a
\* new credential.
EnrollFollower(m, late) ==
  LET r       == At(m, late)
      allowed == invitation[r.code] = "open" /\ ~Active(r.name)
  IN
  /\ Serving(m, late, "enroll", "sent")
  /\ \/ /\ allowed
        /\ issued < MaxCredentials
        /\ issued' = issued + 1
        /\ sourceItems' = sourceItems \cup {issued + 1}
        /\ Advance(m, late, [r EXCEPT !.step = "stored", !.cred = issued + 1])
        /\ UNCHANGED faults
     \/ /\ IF allowed THEN Fault ELSE UNCHANGED faults   \* the store fails
        /\ Step(m, late, "refused")
        /\ UNCHANGED <<issued, sourceItems>>
  /\ UNCHANGED <<invitation, pending, follower, session, finalized,
                 machineVars, command, commands>>

\* A pending row of the same invitation is replaced when it is the same
\* follower's; the invitation of another is a replay, and what this request
\* stored stays in the Source's store.
ReplacePending(m, late) ==
  LET r    == At(m, late)
      same == {p \in pending : p.code = r.code}
  IN
  /\ Serving(m, late, "enroll", "stored")
  /\ IF \E p \in same : p.name # r.name
     THEN /\ Step(m, late, "refused")
          /\ UNCHANGED <<pending, sourceItems>>
     ELSE /\ pending' = pending \ same
          /\ sourceItems' = sourceItems \ {p.cred : p \in same}
          /\ Step(m, late, "consume")
  /\ UNCHANGED <<invitation, follower, session, issued, finalized,
                 machineVars, command, boundVars>>

\* Mutant: only the check before the credential was stored looked for
\* other enrollments.
MutantConsumable(r) ==
  /\ invitation[r.code] = "open"
  /\ ~Active(r.name)

\* consumeEnrollmentInvitation, one transaction that checks again.
Consumable(r) ==
  /\ invitation[r.code] = "open"
  /\ ~Active(r.name)
  /\ \A p \in pending : p.name # r.name /\ p.code # r.code

ConsumeInvitation(m, late) ==
  LET r == At(m, late) IN
  /\ Serving(m, late, "enroll", "consume")
  /\ IF Consumable(r)
     THEN /\ pending' = pending \cup {[name |-> r.name, code |-> r.code, cred |-> r.cred]}
          /\ Step(m, late, "ok")
          /\ UNCHANGED sourceItems
     ELSE /\ sourceItems' = sourceItems \ {r.cred}
          /\ Step(m, late, "refused")
          /\ UNCHANGED pending
  /\ UNCHANGED <<invitation, follower, session, issued, finalized,
                 machineVars, command, boundVars>>

\* finalizeFollower, before its transaction.
FinalizeFollower(m, late) ==
  LET c == At(m, late).cred IN
  /\ Serving(m, late, "finalize", "sent")
  /\ Step(m, late,
       IF \E p \in pending : p.cred = c THEN "commit"
       ELSE IF \E n \in Name : Active(n) /\ follower[n].cred = c THEN "ok"
       ELSE "invalid")
  /\ UNCHANGED <<sourceVars, machineVars, command, boundVars>>

\* Mutant: finalizing does not use the invitation up.
MutantSpend(k) == UNCHANGED invitation

Spend(k) == invitation' = [invitation EXCEPT ![k] = "used"]

\* finalizeEnrollment, one transaction, and the retirement of the credential
\* that it replaces.
Commit(m, late) ==
  LET c    == At(m, late).cred
      mine == {p \in pending : p.cred = c}
  IN
  /\ Serving(m, late, "finalize", "commit")
  /\ \/ /\ mine = {}
        /\ Step(m, late, IF \E n \in Name : Active(n) /\ follower[n].cred = c
                         THEN "ok" ELSE "refused")
        /\ UNCHANGED <<invitation, pending, follower, sourceItems, finalized>>
     \/ \E p \in mine :
          IF Active(p.name) \/ invitation[p.code] # "open"
          THEN /\ Step(m, late, "refused")
               /\ UNCHANGED <<invitation, pending, follower, sourceItems, finalized>>
          ELSE /\ follower' = [follower EXCEPT ![p.name] = [cred |-> c, revoked |-> FALSE]]
               /\ Spend(p.code)
               /\ pending' = pending \ {p}
               /\ sourceItems' = sourceItems \ {follower[p.name].cred}
               /\ finalized' = finalized \cup {p}
               /\ Step(m, late, "ok")
  /\ UNCHANGED <<session, issued, machineVars, command, boundVars>>

CancelPendingEnrollment(m, late) ==
  LET gone == {p \in pending : p.cred = At(m, late).cred} IN
  /\ Serving(m, late, "cancel", "sent")
  /\ pending' = pending \ gone
  /\ sourceItems' = sourceItems \ {p.cred : p \in gone}
  /\ Step(m, late, "ok")
  /\ UNCHANGED <<invitation, follower, session, issued, finalized,
                 machineVars, command, boundVars>>

\* revokeAuthenticatedFollower authenticates the credential, and then
\* revokes whatever the follower's row holds by then.
Authenticate(m, late) ==
  LET r == At(m, late) IN
  /\ Serving(m, late, "revoke", "sent")
  /\ \/ /\ \A n \in Name : follower[n].cred # r.cred
        /\ Step(m, late, "invalid")
     \/ \E n \in Name :
          /\ follower[n].cred = r.cred
          /\ IF follower[n].revoked THEN Step(m, late, "refused")
             ELSE Advance(m, late, [r EXCEPT !.step = "revoke", !.name = n])
  /\ UNCHANGED <<sourceVars, machineVars, command, boundVars>>

RevokeAndRetire(m, late) ==
  LET n == At(m, late).name IN
  /\ Serving(m, late, "revoke", "revoke")
  /\ follower' = [follower EXCEPT ![n].revoked = TRUE]
  /\ sourceItems' = sourceItems \ {follower[n].cred}
  /\ Step(m, late, "ok")
  /\ UNCHANGED <<invitation, pending, session, issued, finalized,
                 machineVars, command, boundVars>>

Handle(m, late) ==
  \/ EnrollFollower(m, late) \/ ReplacePending(m, late) \/ ConsumeInvitation(m, late)
  \/ FinalizeFollower(m, late) \/ Commit(m, late)
  \/ CancelPendingEnrollment(m, late)
  \/ Authenticate(m, late) \/ RevokeAndRetire(m, late)

-----------------------------------------------------------------------------
(* What may happen to a request that is awaited.                           *)

Unanswered(m) == awaited[m] # None /\ awaited[m].step \notin Answers

Unreachable(m) ==
  /\ session = "down"
  /\ Unanswered(m)
  /\ awaited' = [awaited EXCEPT ![m].step = "failed"]
  /\ UNCHANGED <<sourceVars, machineVars, command, abandoned, boundVars>>

\* The command stops waiting: the request is lost on its way, or it goes on
\* without it, or its answer is lost.
Leave(m) ==
  abandoned' = [abandoned EXCEPT ![m] = IF Unanswered(m) THEN awaited[m] ELSE None]

Lose(m) ==
  /\ Fault
  /\ awaited[m] # None /\ awaited[m].step # "failed"
  /\ awaited' = [awaited EXCEPT ![m].step = "failed"]
  /\ abandoned[m] = None
  /\ \/ Leave(m)
     \/ awaited[m].step = "sent" /\ UNCHANGED abandoned
  /\ UNCHANGED <<sourceVars, machineVars, command, commands>>

\* A command is killed; what it asked for goes on.
Kill(m) ==
  /\ Fault
  /\ command[m].pc # "idle"
  /\ abandoned[m] = None
  /\ command' = [command EXCEPT ![m] = Idle]
  /\ awaited' = [awaited EXCEPT ![m] = None]
  /\ Leave(m)
  /\ UNCHANGED <<sourceVars, machineVars, commands>>

-----------------------------------------------------------------------------
(* The commands of a machine, one at a time; `source init` apart, which    *)
(* may run beside them.                                                    *)

Begin(m) ==
  /\ commands < MaxCommands
  /\ commands' = commands + 1
  /\ command[m].pc = "idle"

Goto(m, pc) == command' = [command EXCEPT ![m].pc = pc]
End(m)      == command' = [command EXCEPT ![m] = Idle]
Ask(m, r)   == awaited' = [awaited EXCEPT ![m] = r]
Got(m, pc, answers) ==
  /\ command[m].pc = pc
  /\ awaited[m] # None /\ awaited[m].step \in answers
Heard(m)    == awaited' = [awaited EXCEPT ![m] = None]

Forget(m, c) == items' = [items EXCEPT ![m] = @ \ {c}]

\* A removal nobody checks: the native store may refuse it, and the one around
\* a request is not reached when the Source's certificate cannot be inspected.
Discard(m, c) == Forget(m, c) \/ UNCHANGED items

Configure(m, n, c, pend) ==
  config' = [config EXCEPT ![m] = [name |-> n, cred |-> c, pending |-> pend]]

\* mutateEnrollment reads the credential on this machine before it asks.
Mutation(m, kind, c) ==
  [Request(kind, None, None, c) EXCEPT !.step = IF c \in items[m] THEN "sent" ELSE "failed"]

\* Mutant: what is to be replaced is removed before its replacement is there.
MutantBeginEnroll(m, n, k, replace) ==
  /\ Begin(m)
  /\ invitation[k] # "absent"
  /\ m \notin sourceRole
  /\ Complete(m) => config[m].name = n \/ replace
  /\ command' = [command EXCEPT ![m] =
       [pc |-> "prepare", name |-> n, code |-> k, cred |-> None,
        previous |-> IF Complete(m) THEN config[m] ELSE None]]
  /\ Ask(m, Request("enroll", n, k, None))
  /\ IF Complete(m) THEN Forget(m, config[m].cred) ELSE UNCHANGED items
  /\ UNCHANGED <<sourceVars, sourceRole, config, abandoned, faults>>

\* `follower enroll`: a Source is refused, and so is another name over a
\* complete enrollment unless --replace asks for it.  A pending enrollment is
\* resumed first.
BeginEnroll(m, n, k, replace) ==
  /\ Begin(m)
  /\ invitation[k] # "absent"
  /\ m \notin sourceRole
  /\ Complete(m) => config[m].name = n \/ replace
  /\ LET previous == IF Complete(m) THEN config[m] ELSE None IN
     command' = [command EXCEPT ![m] =
       [pc |-> IF Pending(m) THEN "resume" ELSE "prepare", name |-> n, code |-> k,
        cred |-> None, previous |-> previous]]
  /\ Ask(m, IF Pending(m) THEN Mutation(m, "finalize", config[m].cred)
            ELSE Request("enroll", n, k, None))
  /\ UNCHANGED <<sourceVars, machineVars, abandoned, faults>>

\* Only an answer that says the credential is unknown gives the pending
\* enrollment up; the configuration keeps naming its credential.
Resume(m) ==
  /\ \/ /\ Got(m, "resume", {"ok"})
        /\ command' = [command EXCEPT ![m].pc = "clear", ![m].name = config[m].name,
                                      ![m].cred = config[m].cred]
        /\ Heard(m)
        /\ UNCHANGED items
     \/ /\ Got(m, "resume", {"invalid"})
        /\ Discard(m, config[m].cred)
        /\ Goto(m, "prepare")
        /\ Ask(m, Request("enroll", command[m].name, command[m].code, None))
     \/ /\ Got(m, "resume", {"refused", "failed"})
        /\ End(m)
        /\ Heard(m)
        /\ UNCHANGED items
  /\ UNCHANGED <<sourceVars, sourceRole, config, abandoned, boundVars>>

\* The answer to the prepare request: the credential is stored under a new
\* item; a Source without the one profile to follow is left again.
Prepared(m) ==
  /\ \/ /\ Got(m, "prepare", {"ok"})
        /\ LET c == awaited[m].cred IN
           /\ items' = [items EXCEPT ![m] = @ \cup {c}]
           /\ \/ /\ command' = [command EXCEPT ![m].pc = "save", ![m].cred = c]
                 /\ Heard(m)
              \/ /\ command' = [command EXCEPT ![m].pc = "cancel", ![m].cred = c]
                 /\ Ask(m, Request("cancel", None, None, c))
        /\ UNCHANGED faults
     \/ /\ Got(m, "prepare", Answers)
        /\ IF awaited[m].step = "ok" THEN Fault ELSE UNCHANGED faults  \* the store fails
        /\ End(m)
        /\ Heard(m)
        /\ UNCHANGED items
  /\ UNCHANGED <<sourceVars, sourceRole, config, abandoned, commands>>

\* Mutant: the save does not check for the other role in its transaction.
MutantSave(m) ==
  /\ command[m].pc = "save"
  /\ Configure(m, command[m].name, command[m].cred, TRUE)
  /\ Ask(m, Mutation(m, "finalize", command[m].cred))
  /\ Goto(m, "finalize")
  /\ UNCHANGED <<sourceVars, sourceRole, items, abandoned, boundVars>>

\* The pending configuration replaces whatever the machine had.
Save(m) ==
  /\ command[m].pc = "save"
  /\ \/ /\ m \notin sourceRole
        /\ Configure(m, command[m].name, command[m].cred, TRUE)
        /\ Ask(m, Mutation(m, "finalize", command[m].cred))
        /\ Goto(m, "finalize")
        /\ UNCHANGED faults
     \/ /\ IF m \in sourceRole THEN UNCHANGED faults ELSE Fault   \* the save fails
        /\ Ask(m, Mutation(m, "cancel", command[m].cred))
        /\ Goto(m, "cancel")
        /\ UNCHANGED config
  /\ UNCHANGED <<sourceVars, sourceRole, items, abandoned, commands>>

Cancelled(m) ==
  /\ Got(m, "cancel", Answers)
  /\ Discard(m, command[m].cred)
  /\ End(m)
  /\ Heard(m)
  /\ UNCHANGED <<sourceVars, sourceRole, config, abandoned, boundVars>>

\* Mutant: any answer ends the pending enrollment.
MutantFinalized(m) ==
  /\ Got(m, "finalize", Answers)
  /\ Goto(m, "clear")
  /\ Heard(m)
  /\ UNCHANGED <<sourceVars, machineVars, abandoned, boundVars>>

Finalized(m) ==
  /\ \/ Got(m, "finalize", {"ok"}) /\ Goto(m, "clear")
     \/ Got(m, "finalize", Answers \ {"ok"}) /\ End(m)
  /\ Heard(m)
  /\ UNCHANGED <<sourceVars, machineVars, abandoned, boundVars>>

\* The configuration is complete, and what it superseded is retired: the
\* item of a rotated credential, or another identity on its Source.
Clear(m) ==
  LET previous == command[m].previous IN
  /\ command[m].pc = "clear"
  /\ \/ /\ m \notin sourceRole
        /\ Configure(m, command[m].name, command[m].cred, FALSE)
        /\ \/ previous = None /\ End(m) /\ UNCHANGED awaited
           \/ /\ previous # None /\ previous.name = command[m].name
              /\ Goto(m, "rotate")
              /\ UNCHANGED awaited
           \/ /\ previous # None /\ previous.name # command[m].name
              /\ Ask(m, Mutation(m, "revoke", previous.cred))
              /\ Goto(m, "retire")
        /\ UNCHANGED faults
     \/ /\ Fault                                            \* the save fails
        /\ End(m)
        /\ UNCHANGED <<config, awaited>>
  /\ UNCHANGED <<sourceVars, sourceRole, items, abandoned, commands>>

Retire(m) ==
  /\ command[m].pc = "rotate" \/ Got(m, "retire", Answers)
  /\ Discard(m, command[m].previous.cred)
  /\ End(m)
  /\ Heard(m)
  /\ UNCHANGED <<sourceVars, sourceRole, config, abandoned, boundVars>>

\* `follower unenroll` revokes while the credential still exists, whatever
\* the Source answers, and keeps the configuration while the item is there.
BeginUnenroll(m) ==
  /\ Begin(m)
  /\ config[m] # None
  /\ Goto(m, "leave")
  /\ Ask(m, Mutation(m, "revoke", config[m].cred))
  /\ UNCHANGED <<sourceVars, machineVars, abandoned, faults>>

Left(m) ==
  /\ Got(m, "leave", Answers)
  /\ \/ /\ Forget(m, config[m].cred)
        /\ Goto(m, "remove")
        /\ UNCHANGED faults
     \/ /\ config[m].cred \in items[m]
        /\ Fault                                            \* the store is locked
        /\ End(m)
        /\ UNCHANGED items
  /\ Heard(m)
  /\ UNCHANGED <<sourceVars, sourceRole, config, abandoned, commands>>

RemoveConfiguration(m) ==
  /\ command[m].pc = "remove"
  /\ config' = [config EXCEPT ![m] = None]
  /\ End(m)
  /\ UNCHANGED <<sourceVars, sourceRole, items, requestVars, boundVars>>

\* `source init`, from its transaction: the check before the keys are
\* generated only refuses earlier.
SaveEnrollmentSource(m) ==
  /\ m \notin sourceRole
  /\ config[m] = None
  /\ sourceRole' = sourceRole \cup {m}
  /\ UNCHANGED <<sourceVars, config, items, command, requestVars, boundVars>>

CommandStep(m) ==
  \/ Resume(m) \/ Prepared(m) \/ Save(m) \/ Cancelled(m) \/ Finalized(m)
  \/ Clear(m) \/ Retire(m) \/ Left(m) \/ RemoveConfiguration(m)

Next ==
  \/ \E k \in Code : CreateInvitation(k) \/ Expire(k)
  \/ \E n \in Name : RevokeFollower(n)
  \/ StopServer \/ StartServer
  \/ \E m \in Machine :
       \/ \E late \in BOOLEAN : Handle(m, late)
       \/ Unreachable(m) \/ Lose(m) \/ Kill(m)
       \/ \E n \in Name, k \in Code, replace \in BOOLEAN : BeginEnroll(m, n, k, replace)
       \/ BeginUnenroll(m) \/ CommandStep(m) \/ SaveEnrollmentSource(m)

Spec == Init /\ [][Next]_vars

-----------------------------------------------------------------------------
Row == [name : Name, code : Code, cred : Credential]

Requests ==
  [kind : {"enroll", "finalize", "cancel", "revoke"},
   step : {"sent", "stored", "consume", "commit", "revoke"} \cup Answers,
   name : Name \cup {None}, code : Code \cup {None}, cred : Credential \cup {None}]

Configurations == [name : Name, cred : Credential, pending : BOOLEAN]

\* Every variable keeps its type: the first part of an inductive invariant, no
\* run lists it.
TypeOK ==
  /\ invitation \in [Code -> {"absent", "open", "expired", "used"}]
  /\ pending \subseteq Row
  /\ follower \in [Name -> [cred : Credential \cup {None}, revoked : BOOLEAN]]
  /\ sourceItems \subseteq Credential
  /\ session \in {"up", "down"}
  /\ issued \in 0..MaxCredentials
  /\ sourceRole \subseteq Machine
  /\ config \in [Machine -> Configurations \cup {None}]
  /\ items \in [Machine -> SUBSET Credential]
  /\ command \in [Machine ->
       [pc : {"idle", "resume", "prepare", "save", "cancel", "finalize", "clear",
              "rotate", "retire", "leave", "remove"},
        name : Name \cup {None}, code : Code \cup {None}, cred : Credential \cup {None},
        previous : Configurations \cup {None}]]
  /\ awaited \in [Machine -> Requests \cup {None}]
  /\ abandoned \in [Machine -> Requests \cup {None}]
  /\ faults \in 0..MaxFaults
  /\ commands \in 0..MaxCommands
  /\ finalized \subseteq Row

\* An invitation enrolls one follower, once, however many machines present it
\* and however often a request is repeated.
InvitationEnrollsOne ==
  \A f, g \in finalized : f.code = g.code => f = g

\* No enrollment is pending for an identity that is enrolled, and no identity
\* is pending twice: concurrent invitations for one name exclude each other.
PendingIsExclusive ==
  /\ \A p \in pending : ~Active(p.name)
  /\ \A p, q \in pending : p.name = q.name \/ p.code = q.code => p = q

\* A machine takes itself for enrolled only when the Source has finalized the
\* very credential that it keeps.
CompleteIsEnrolled ==
  \A m \in Machine : Complete(m) =>
    \E f \in finalized : f.name = config[m].name /\ f.cred = config[m].cred

\* A machine is either a Source or a Follower, never both, although `source
\* init` and `follower enroll` may run at the same time.
OneRole ==
  \A m \in sourceRole : config[m] = None

\* Only unenroll removes the credential that a complete enrollment uses: a
\* rotation, a replacement or a failure of either never does.
CredentialKept ==
  [][\A m \in Machine :
       Complete(m) /\ config[m].cred \in items[m] \ items'[m] => command[m].pc = "leave"]_vars

\* The next two state what src/src/runtime/layers.ts says.  They do not hold,
\* and no run checks them.

\* After the local half of an enrollment was discarded, `follower enroll` can
\* be retried: a pending configuration always names a credential that exists,
\* since without it the resumption, and so every later enroll, is refused.
DiscardedIsRetryable ==
  [][\A m \in Machine :
       command[m].pc = "prepare" /\ command'[m].pc = "idle" /\ faults' = faults /\ Pending(m)'
         => config'[m].cred \in items'[m]]_vars

\* A failed replacement keeps the working identity: when the command ends,
\* the machine is completely enrolled, under the new or the previous name.
ReplacementKeepsIdentity ==
  [][\A m \in Machine :
       command[m].previous # None /\ command'[m].pc = "idle" /\ faults' = faults
         => Complete(m)']_vars
=============================================================================
