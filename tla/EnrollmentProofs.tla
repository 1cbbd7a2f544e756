-------------------------- MODULE EnrollmentProofs --------------------------
(***************************************************************************)
(* What TLAPS proves of enrollment, for any number of machines, names,     *)
(* invitations, credentials, commands and faults: an invitation enrolls    *)
(* one follower, pending enrollments exclude each other, a machine has one *)
(* role, takes itself for enrolled only when it is, and loses the          *)
(* credential it uses only by leaving.                                     *)
(*                                                                         *)
(* Requests outlive the commands that sent them, so what a machine and its *)
(* Source know of each other is only what the credentials say.  Owned, the *)
(* heart of the invariant, says that a credential is bound to one name     *)
(* wherever it is: in the tables, in a request on its way, in a command or *)
(* in a configuration.  With it, the answer to a finalize request, which   *)
(* carries no name, speaks of the identity the machine enrolls             *)
(* (Clearing).  Superseding says that a credential in the making is never  *)
(* the one in use, which is why giving it up loses nothing.                *)
(***************************************************************************)
EXTENDS Enrollment, TLAPS

\* Where a command of enrolling has the credential it enrolls with.
Having    == {"save", "cancel", "finalize", "clear", "rotate", "retire"}

\* Where a command enrolls.
Enrolling == {"resume", "prepare"} \cup Having

\* An invitation that enrolled a follower is used up.
Used == \A f \in finalized : invitation[f.code] = "used"

\* What a row of a follower holds was finalized for it.
Rows ==
  \A n \in Name : follower[n].cred # None =>
    \E f \in finalized : f.name = n /\ f.cred = follower[n].cred

\* A request to enroll names who and with what invitation, and once the Source has
\* stored a credential, that.
Asking(r) ==
  r # None /\ r.kind = "enroll" =>
    /\ r.name \in Name /\ r.code \in Code
    /\ r.step \in {"stored", "consume", "ok"} => r.cred \in Credential

\* A command has what its step needs; one that resumes has a pending configuration, and
\* nothing to supersede.
Commanded(m) ==
  /\ command[m].pc \in Enrolling => command[m].name \in Name
  /\ command[m].pc \in Having => command[m].cred \in Credential
  /\ command[m].pc = "resume" =>
       Pending(m) /\ command[m].previous = None /\ command[m].code \in Code

\* What a command waits for is the answer to what it asked.
Waiting(m) ==
  awaited[m] # None =>
    /\ command[m].pc = "prepare" =>
         awaited[m].kind = "enroll" /\ awaited[m].name = command[m].name
    /\ command[m].pc = "finalize" =>
         awaited[m].kind = "finalize" /\ awaited[m].cred = command[m].cred
    /\ command[m].pc = "resume" =>
         awaited[m].kind = "finalize" /\ awaited[m].cred = config[m].cred

\* Only a credential that was finalized is told so.
Answered(m) ==
  awaited[m] # None /\ awaited[m].kind = "finalize" /\ awaited[m].step = "ok" =>
    \E f \in finalized : f.cred = awaited[m].cred

\* A command ends a pending enrollment only when it was finalized under the name and
\* the credential it has.
Clearing(m) ==
  command[m].pc = "clear" =>
    \E f \in finalized : f.name = command[m].name /\ f.cred = command[m].cred

\* CompleteIsEnrolled, of one machine.
Enrolled(m) ==
  Complete(m) => \E f \in finalized : f.name = config[m].name /\ f.cred = config[m].cred

\* The credential a command enrolls with, is about to get or cancels is never the one
\* its machine has, or had when the command began; once it retires that one, the machine
\* has the new one.
Superseding(m) ==
  /\ command[m].pc \in {"prepare", "save"} =>
       command[m].previous \in {None, config[m]}
  /\ command[m].pc = "prepare" /\ awaited[m] # None /\ awaited[m].cred # None /\ config[m] # None =>
       awaited[m].cred # config[m].cred
  /\ command[m].pc \in {"save", "cancel"} /\ config[m] # None =>
       command[m].cred # config[m].cred
  /\ command[m].pc \in {"finalize", "clear", "rotate", "retire"} /\ command[m].previous # None =>
       command[m].cred # command[m].previous.cred
  /\ command[m].pc \in {"rotate", "retire"} =>
       command[m].previous # None /\ (config[m] # None => config[m].cred = command[m].cred)

\* The part of the invariant about one machine.
Local(m) ==
  /\ Asking(awaited[m]) /\ Asking(abandoned[m])
  /\ Commanded(m) /\ Waiting(m) /\ Answered(m) /\ Clearing(m) /\ Enrolled(m) /\ Superseding(m)

\* A machine has, or has asked for, the credential under the name.
ClaimedAt(m, n, c) ==
  \/ \E r \in {awaited[m], abandoned[m]} :
       r # None /\ r.kind = "enroll" /\ r.name = n /\ r.cred = c
  \/ command[m].name = n /\ command[m].cred = c
  \/ \E g \in {config[m], command[m].previous} : g # None /\ g.name = n /\ g.cred = c

\* The credential is on the Source or on a machine under the name.
Claimed(n, c) ==
  \/ \E p \in pending \cup finalized : p.name = n /\ p.cred = c
  \/ \E m \in Machine : ClaimedAt(m, n, c)

\* A credential belongs to one name, and was generated.
Owned ==
  \A c \in Credential, n \in Name : Claimed(n, c) =>
    c <= issued /\ \A k \in Name : Claimed(k, c) => k = n

\* The part of the invariant about the tables of the Source.
Records == Used /\ InvitationEnrollsOne /\ PendingIsExclusive /\ Rows

\* The inductive invariant.
IInv == TypeOK /\ OneRole /\ Records /\ Owned /\ \A m \in Machine : Local(m)

-----------------------------------------------------------------------------
(* The steps, by what they change.                                         *)

\* The states of a command.
Commands ==
  [pc : {"idle", "resume", "prepare", "save", "cancel", "finalize", "clear",
         "rotate", "retire", "leave", "remove"},
   name : Name \cup {None}, code : Code \cup {None}, cred : Credential \cup {None},
   previous : Configurations \cup {None}]

\* The types of what belongs to the machines.
Types ==
  /\ awaited \in [Machine -> Requests \cup {None}]
  /\ abandoned \in [Machine -> Requests \cup {None}]
  /\ command \in [Machine -> Commands]
  /\ config \in [Machine -> Configurations \cup {None}]
  /\ items \in [Machine -> SUBSET Credential]

\* The types of the rest.
SourceTypes ==
  /\ invitation \in [Code -> {"absent", "open", "expired", "used"}]
  /\ pending \subseteq Row
  /\ follower \in [Name -> [cred : Credential \cup {None}, revoked : BOOLEAN]]
  /\ sourceItems \subseteq Credential
  /\ session \in {"up", "down"}
  /\ issued \in 0..MaxCredentials
  /\ sourceRole \subseteq Machine
  /\ faults \in 0..MaxFaults
  /\ commands \in 0..MaxCommands
  /\ finalized \subseteq Row

\* Together they are all types.
LEMMA TypeParts == TypeOK <=> Types /\ SourceTypes
BY DEF TypeOK, Types, SourceTypes, Commands

\* What becomes of a request in one step of its handler: it stays what it asks for,
\* only a new credential is added, and a finalized one is told so.
Handled(q, r) ==
  /\ r.kind = q.kind
  /\ q.kind = "enroll" =>
       /\ r.name = q.name /\ r.code = q.code
       /\ \/ /\ r.cred = q.cred
             /\ r.step \in {"stored", "consume", "ok"} => q.step \in {"stored", "consume"}
          \/ r.cred = issued + 1 /\ issued' = issued + 1 /\ issued + 1 \in Credential
  /\ q.kind # "enroll" => r.cred = q.cred
  /\ q.kind = "finalize" /\ r.step = "ok" => \E f \in finalized' : f.cred = r.cred

\* A step that only moves the request on is of that kind.
LEMMA StepHandled ==
  ASSUME NEW q \in Requests, NEW s \in {"stored", "consume", "commit", "revoke"} \cup Answers,
         q.kind = "enroll" /\ s \in {"stored", "consume", "ok"} => q.step \in {"stored", "consume"},
         q.kind = "finalize" /\ s = "ok" => \E f \in finalized' : f.cred = q.cred
  PROVE  [q EXCEPT !.step = s] \in Requests /\ Handled(q, [q EXCEPT !.step = s])
BY DEF Requests, Handled, Answers

\* A request that is served goes on as another.
Succeeds(m, late) == \E r \in Requests : Advance(m, late, r) /\ Handled(At(m, late), r)

\* What serving a request does to it.
LEMMA Serves ==
  ASSUME TypeOK, Rows, NEW m \in Machine, NEW late \in BOOLEAN, Handle(m, late)
  PROVE  /\ At(m, late) \in Requests /\ At(m, late) # None
         /\ Succeeds(m, late)
         /\ UNCHANGED <<machineVars, command, session, commands>>
<1> DEFINE q == At(m, late)
<1>1. q # None /\ q \in Requests
  <2>1. q # None
    BY DEF Handle, EnrollFollower, ReplacePending, ConsumeInvitation, FinalizeFollower, Commit,
           CancelPendingEnrollment, Authenticate, RevokeAndRetire, Serving
  <2>2. awaited[m] \in Requests \cup {None} /\ abandoned[m] \in Requests \cup {None}
    BY DEF TypeOK
  <2> QED
    BY <2>1, <2>2 DEF At
<1>2. ASSUME NEW s \in {"stored", "consume", "commit", "revoke"} \cup Answers, Step(m, late, s),
             q.kind = "enroll" /\ s \in {"stored", "consume", "ok"} => q.step \in {"stored", "consume"},
             q.kind = "finalize" /\ s = "ok" => \E f \in finalized' : f.cred = q.cred
      PROVE  Succeeds(m, late)
  BY <1>1, <1>2, StepHandled DEF Step, Succeeds
<1>3. ASSUME EnrollFollower(m, late) PROVE Succeeds(m, late)
  <2>1. CASE Step(m, late, "refused")
    BY <1>2, <1>3, <2>1 DEF EnrollFollower, Serving, Answers
  <2>2. CASE issued < MaxCredentials /\ issued' = issued + 1
             /\ Advance(m, late, [q EXCEPT !.step = "stored", !.cred = issued + 1])
    <3>1. issued + 1 \in Credential
      BY <2>2, ConstantsAssumption DEF TypeOK, Credential
    <3>2. [q EXCEPT !.step = "stored", !.cred = issued + 1] \in Requests
      BY <1>1, <3>1 DEF Requests
    <3>3. Handled(q, [q EXCEPT !.step = "stored", !.cred = issued + 1])
      BY <1>1, <1>3, <2>2, <3>1 DEF Requests, Handled, EnrollFollower, Serving
    <3> QED
      BY <2>2, <3>2, <3>3 DEF Succeeds
  <2> QED
    BY <1>3, <2>1, <2>2 DEF EnrollFollower
<1>4. ASSUME ReplacePending(m, late) PROVE Succeeds(m, late)
  <2>1. q.kind = "enroll" /\ q.step = "stored"
    BY <1>4 DEF ReplacePending, Serving
  <2>2. Step(m, late, "refused") \/ Step(m, late, "consume")
    BY <1>4 DEF ReplacePending
  <2> QED
    BY <1>2, <2>1, <2>2 DEF Answers
<1>5. ASSUME ConsumeInvitation(m, late) PROVE Succeeds(m, late)
  <2>1. q.kind = "enroll" /\ q.step = "consume"
    BY <1>5 DEF ConsumeInvitation, Serving
  <2>2. Step(m, late, "refused") \/ Step(m, late, "ok")
    BY <1>5 DEF ConsumeInvitation
  <2> QED
    BY <1>2, <2>1, <2>2 DEF Answers
<1>6. ASSUME FinalizeFollower(m, late) PROVE Succeeds(m, late)
  <2>1. q.kind = "finalize" /\ finalized' = finalized
    BY <1>6 DEF FinalizeFollower, Serving, sourceVars
  <2>2. \/ Step(m, late, "commit") \/ Step(m, late, "invalid")
        \/ Step(m, late, "ok") /\ \E n \in Name : Active(n) /\ follower[n].cred = q.cred
    BY <1>6 DEF FinalizeFollower
  <2>3. ASSUME \E n \in Name : Active(n) /\ follower[n].cred = q.cred
        PROVE  \E f \in finalized' : f.cred = q.cred
    BY <2>1, <2>3 DEF Active, Rows
  <2> QED
    BY <1>2, <2>1, <2>2, <2>3 DEF Answers
<1>7. ASSUME Commit(m, late) PROVE Succeeds(m, late)
  <2>1. q.kind = "finalize"
    BY <1>7 DEF Commit, Serving
  <2>2. \/ Step(m, late, "refused")
        \/ Step(m, late, "ok") /\ finalized' = finalized
             /\ \E n \in Name : Active(n) /\ follower[n].cred = q.cred
        \/ Step(m, late, "ok") /\ \E p \in pending : p.cred = q.cred /\ finalized' = finalized \cup {p}
    BY <1>7 DEF Commit
  <2>3. ASSUME \E n \in Name : Active(n) /\ follower[n].cred = q.cred, finalized' = finalized
        PROVE  \E f \in finalized' : f.cred = q.cred
    BY <2>3 DEF Active, Rows
  <2> QED
    BY <1>2, <2>1, <2>2, <2>3 DEF Answers
<1>8. ASSUME CancelPendingEnrollment(m, late) PROVE Succeeds(m, late)
  <2>1. q.kind = "cancel" /\ Step(m, late, "ok")
    BY <1>8 DEF CancelPendingEnrollment, Serving
  <2> QED
    BY <1>2, <2>1 DEF Answers
<1>9. ASSUME Authenticate(m, late) PROVE Succeeds(m, late)
  <2>1. q.kind = "revoke"
    BY <1>9 DEF Authenticate, Serving
  <2>2. CASE Step(m, late, "invalid") \/ Step(m, late, "refused")
    BY <1>2, <2>1, <2>2 DEF Answers
  <2>3. ASSUME NEW n \in Name, Advance(m, late, [q EXCEPT !.step = "revoke", !.name = n])
        PROVE  Succeeds(m, late)
    <3>1. [q EXCEPT !.step = "revoke", !.name = n] \in Requests
      BY <1>1 DEF Requests
    <3>2. Handled(q, [q EXCEPT !.step = "revoke", !.name = n])
      BY <1>1, <2>1 DEF Requests, Handled
    <3> QED
      BY <2>3, <3>1, <3>2 DEF Succeeds
  <2> QED
    BY <1>9, <2>2, <2>3 DEF Authenticate
<1>10. ASSUME RevokeAndRetire(m, late) PROVE Succeeds(m, late)
  <2>1. q.kind = "revoke" /\ Step(m, late, "ok")
    BY <1>10 DEF RevokeAndRetire, Serving
  <2> QED
    BY <1>2, <2>1 DEF Answers
<1>11. UNCHANGED <<machineVars, command, session, commands>>
  BY DEF Handle, EnrollFollower, ReplacePending, ConsumeInvitation, FinalizeFollower, Commit,
         CancelPendingEnrollment, Authenticate, RevokeAndRetire, sourceVars, machineVars, boundVars
<1> QED
  BY <1>1, <1>3, <1>4, <1>5, <1>6, <1>7, <1>8, <1>9, <1>10, <1>11 DEF Handle

-----------------------------------------------------------------------------
(* The tables of the Source.                                               *)

\* The rows that a step adds are that of the request it serves.
Adds(q) ==
  /\ finalized \subseteq finalized'
  /\ \A p \in pending' \cup finalized' :
       p \in pending \cup finalized \/ (q.kind = "enroll" /\ p.name = q.name /\ p.cred = q.cred)

\* The tables stay right when only pending rows are removed.
LEMMA SameRecords ==
  ASSUME Records, UNCHANGED <<invitation, finalized, follower>>, pending' \subseteq pending
  PROVE  Records'
BY DEF Records, Used, InvitationEnrollsOne, PendingIsExclusive, Rows, Active

\* They stay right when a follower is revoked.
LEMMA FewerActive ==
  ASSUME TypeOK, Records, UNCHANGED <<invitation, finalized, pending>>, NEW n \in Name,
         follower' = [follower EXCEPT ![n].revoked = TRUE]
  PROVE  Records'
<1>1. \A k \in Name : follower'[k].cred = follower[k].cred /\ (Active(k)' => Active(k))
  BY DEF TypeOK, Active
<1>2. \A p \in pending : p.name \in Name
  BY DEF TypeOK, Row
<1> QED
  BY <1>1, <1>2 DEF Records, Used, InvitationEnrollsOne, PendingIsExclusive, Rows

\* The bound on faults is kept.
LEMMA FaultType == ASSUME SourceTypes, Fault \/ UNCHANGED faults PROVE faults' \in 0..MaxFaults
BY ConstantsAssumption DEF SourceTypes, Fault

\* What serving a request does to the tables.
LEMMA Settles ==
  ASSUME TypeOK, Records, NEW m \in Machine, NEW late \in BOOLEAN, Handle(m, late), Asking(At(m, late))
  PROVE  SourceTypes' /\ Records' /\ Adds(At(m, late)) /\ UNCHANGED sourceRole
<1> DEFINE q == At(m, late)
<1>1. SourceTypes
  BY TypeParts
<1>2. UNCHANGED <<machineVars, command, session, commands>>
  BY Serves DEF Records
<1>3. UNCHANGED sourceRole
  BY <1>2 DEF machineVars
<1>4. ASSUME EnrollFollower(m, late) PROVE SourceTypes' /\ Records' /\ Adds(q)
  <2>1. UNCHANGED <<invitation, pending, follower, finalized>>
    BY <1>4 DEF EnrollFollower
  <2>2. issued' \in 0..MaxCredentials /\ sourceItems' \subseteq Credential
    <3>1. \/ issued' = issued /\ sourceItems' = sourceItems
          \/ /\ issued < MaxCredentials /\ issued' = issued + 1
             /\ sourceItems' = sourceItems \cup {issued + 1}
      BY <1>4 DEF EnrollFollower
    <3>2. issued \in 0..MaxCredentials /\ sourceItems \subseteq Credential /\ MaxCredentials \in Nat
      BY <1>1, ConstantsAssumption DEF SourceTypes
    <3>3. issued < MaxCredentials => issued + 1 \in Credential /\ issued + 1 \in 0..MaxCredentials
      BY <3>2 DEF Credential
    <3> QED
      BY <3>1, <3>2, <3>3
  <2>3. faults' \in 0..MaxFaults
    <3>1. Fault \/ UNCHANGED faults
      BY <1>4 DEF EnrollFollower
    <3> QED
      BY <1>1, <3>1, FaultType
  <2> QED
    BY <1>1, <1>2, <1>3, <2>1, <2>2, <2>3, SameRecords DEF SourceTypes, Adds
<1>5. ASSUME UNCHANGED <<invitation, follower, issued, finalized, faults>>, pending' \subseteq pending,
             sourceItems' \subseteq Credential
      PROVE  SourceTypes' /\ Records' /\ Adds(q)
  BY <1>1, <1>2, <1>3, <1>5, SameRecords DEF SourceTypes, Adds
<1>6. ASSUME ReplacePending(m, late) PROVE SourceTypes' /\ Records' /\ Adds(q)
  <2>1. pending' \subseteq pending /\ sourceItems' \subseteq sourceItems
    BY <1>6 DEF ReplacePending
  <2> QED
    BY <1>1, <1>5, <1>6, <2>1 DEF ReplacePending, SourceTypes, boundVars
<1>7. ASSUME ConsumeInvitation(m, late) PROVE SourceTypes' /\ Records' /\ Adds(q)
  <2>1. q.kind = "enroll" /\ q.step = "consume" /\ q # None
    BY <1>7 DEF ConsumeInvitation, Serving
  <2>2. UNCHANGED <<invitation, follower, issued, finalized, faults>> /\ sourceItems' \subseteq Credential
    BY <1>1, <1>7 DEF ConsumeInvitation, boundVars, SourceTypes
  <2>3. CASE pending' = pending
    BY <1>5, <2>2, <2>3
  <2>4. CASE /\ Consumable(q)
             /\ pending' = pending \cup {[name |-> q.name, code |-> q.code, cred |-> q.cred]}
    <3> DEFINE row == [name |-> q.name, code |-> q.code, cred |-> q.cred]
    <3>1. row \in Row
      BY <2>1 DEF Asking, Row
    <3>2. ~Active(row.name) /\ \A p \in pending : p.name # row.name /\ p.code # row.code
      BY <2>4 DEF Consumable
    <3>3. PendingIsExclusive'
      BY <2>2, <2>4, <3>1, <3>2 DEF Records, PendingIsExclusive, Active
    <3>4. Records'
      BY <2>2, <3>3 DEF Records, Used, InvitationEnrollsOne, Rows
    <3>5. Adds(q)
      BY <2>1, <2>2, <2>4 DEF Adds
    <3> QED
      BY <1>1, <1>2, <1>3, <2>2, <2>4, <3>1, <3>4, <3>5 DEF SourceTypes
  <2> QED
    BY <1>7, <2>3, <2>4 DEF ConsumeInvitation
<1>8. ASSUME FinalizeFollower(m, late) PROVE SourceTypes' /\ Records' /\ Adds(q)
  BY <1>1, <1>5, <1>8 DEF FinalizeFollower, SourceTypes, sourceVars, boundVars
<1>9. ASSUME Commit(m, late) PROVE SourceTypes' /\ Records' /\ Adds(q)
  <2>1. UNCHANGED <<issued, faults>>
    BY <1>9 DEF Commit, boundVars
  <2>2. CASE UNCHANGED <<invitation, pending, follower, sourceItems, finalized>>
    BY <1>1, <1>5, <2>1, <2>2 DEF SourceTypes
  <2>3. ASSUME NEW p \in pending, p.cred = q.cred, ~Active(p.name), invitation[p.code] = "open",
               follower' = [follower EXCEPT ![p.name] = [cred |-> p.cred, revoked |-> FALSE]],
               invitation' = [invitation EXCEPT ![p.code] = "used"],
               pending' = pending \ {p}, sourceItems' = sourceItems \ {follower[p.name].cred},
               finalized' = finalized \cup {p}
        PROVE  SourceTypes' /\ Records' /\ Adds(q)
    <3>1. p \in Row /\ p.name \in Name /\ p.code \in Code /\ p.cred \in Credential
      BY <1>1 DEF SourceTypes, Row
    <3>2. SourceTypes'
      BY <1>1, <1>2, <1>3, <2>1, <2>3, <3>1 DEF SourceTypes
    <3>3. \A f \in finalized : f.code # p.code
      BY <2>3 DEF Records, Used
    <3>4. Used' /\ InvitationEnrollsOne'
      <4>1. \A f \in finalized' : f.code \in Code
        BY <3>2 DEF SourceTypes, Row
      <4> QED
        BY <1>1, <2>3, <3>1, <3>3, <4>1 DEF SourceTypes, Records, Used, InvitationEnrollsOne
    <3>5. \A k \in Name : k # p.name => follower'[k] = follower[k]
      BY <2>3
    <3>6. follower'[p.name].cred = p.cred
      BY <1>1, <2>3, <3>1 DEF SourceTypes
    <3>7. PendingIsExclusive'
      <4>1. \A o \in pending' : o \in pending /\ o.name # p.name /\ o.name \in Name
        BY <1>1, <2>3 DEF Records, PendingIsExclusive, SourceTypes, Row
      <4> QED
        BY <3>5, <4>1 DEF Records, PendingIsExclusive, Active
    <3>8. Rows'
      BY <2>3, <3>5, <3>6 DEF Records, Rows
    <3>9. Adds(q)
      BY <2>3 DEF Adds
    <3> QED
      BY <3>2, <3>4, <3>7, <3>8, <3>9 DEF Records
  <2>4. \/ UNCHANGED <<invitation, pending, follower, sourceItems, finalized>>
        \/ \E p \in pending : /\ p.cred = q.cred /\ ~Active(p.name) /\ invitation[p.code] = "open"
                              /\ follower' =
                                   [follower EXCEPT ![p.name] = [cred |-> p.cred, revoked |-> FALSE]]
                              /\ invitation' = [invitation EXCEPT ![p.code] = "used"]
                              /\ pending' = pending \ {p}
                              /\ sourceItems' = sourceItems \ {follower[p.name].cred}
                              /\ finalized' = finalized \cup {p}
    BY <1>9 DEF Commit, Spend
  <2> QED
    BY <2>2, <2>3, <2>4
<1>10. ASSUME CancelPendingEnrollment(m, late) PROVE SourceTypes' /\ Records' /\ Adds(q)
  BY <1>1, <1>5, <1>10 DEF CancelPendingEnrollment, SourceTypes, boundVars
<1>11. ASSUME Authenticate(m, late) PROVE SourceTypes' /\ Records' /\ Adds(q)
  BY <1>1, <1>5, <1>11 DEF Authenticate, SourceTypes, sourceVars, boundVars
<1>12. ASSUME RevokeAndRetire(m, late) PROVE SourceTypes' /\ Records' /\ Adds(q)
  <2>1. /\ UNCHANGED <<invitation, pending, finalized, issued, faults>>
        /\ follower' = [follower EXCEPT ![q.name].revoked = TRUE]
        /\ sourceItems' \subseteq sourceItems
    BY <1>12 DEF RevokeAndRetire, boundVars
  <2>2. CASE q.name \in Name
    <3>1. Records'
      BY <2>1, <2>2, FewerActive
    <3>2. follower' \in [Name -> [cred : Credential \cup {None}, revoked : BOOLEAN]]
      BY <1>1, <2>1, <2>2 DEF SourceTypes
    <3> QED
      BY <1>1, <1>2, <1>3, <2>1, <3>1, <3>2 DEF SourceTypes, Adds
  <2>3. CASE q.name \notin Name
    <3>1. follower' = follower
      BY <1>1, <2>1, <2>3 DEF SourceTypes
    <3> QED
      BY <1>1, <1>5, <2>1, <3>1 DEF SourceTypes
  <2> QED
    BY <2>2, <2>3
<1> QED
  BY <1>3, <1>4, <1>6, <1>7, <1>8, <1>9, <1>10, <1>11, <1>12 DEF Handle

-----------------------------------------------------------------------------
(* The machines.                                                           *)

\* The other machines stay as they are.
Elsewhere(m) ==
  \A k \in Machine : k # m =>
    /\ awaited'[k] = awaited[k] /\ abandoned'[k] = abandoned[k]
    /\ command'[k] = command[k] /\ config'[k] = config[k]

\* What holds of a machine that stays as it is goes on to hold.
LEMMA LocalStays ==
  ASSUME finalized \subseteq finalized', NEW k \in Machine, Local(k),
         awaited'[k] = awaited[k], abandoned'[k] = abandoned[k],
         command'[k] = command[k], config'[k] = config[k]
  PROVE  Local(k)'
BY DEF Local, Asking, Commanded, Waiting, Answered, Clearing, Enrolled, Superseding, Pending, Complete

\* Credentials stay with their names when there are no new claims.
LEMMA OwnedStays ==
  ASSUME Owned, issued' = issued,
         \A n \in Name, c \in Credential : Claimed(n, c)' => Claimed(n, c)
  PROVE  Owned'
BY DEF Owned

\* So they do when the only new claim is to a credential just generated.
LEMMA OwnedGrows ==
  ASSUME Owned, issued \in Nat, issued' \in Nat, issued' >= issued, NEW x,
         \A n \in Name, c \in Credential : Claimed(n, c)' =>
           Claimed(n, c) \/ (c = issued + 1 /\ issued' = issued + 1 /\ n = x)
  PROVE  Owned'
<1> SUFFICES ASSUME NEW c \in Credential, NEW n \in Name, Claimed(n, c)',
                    NEW k \in Name
             PROVE  c <= issued' /\ (Claimed(k, c)' => k = n)
  BY DEF Owned
<1>1. Claimed(n, c) => c <= issued /\ \A o \in Name : Claimed(o, c) => o = n
  BY DEF Owned
<1>2. Claimed(k, c) => c <= issued /\ \A o \in Name : Claimed(o, c) => o = k
  BY DEF Owned
<1>3. c \in Nat
  BY DEF Credential
<1> QED
  BY <1>1, <1>2, <1>3

\* Whatever makes a machine wait no longer, or ends its command.
LEMMA Softens ==
  ASSUME TypeOK, NEW k \in Machine, Local(k), finalized' = finalized, config'[k] = config[k],
         \/ awaited'[k] \in {awaited[k], None}
         \/ awaited[k] # None /\ awaited'[k] = [awaited[k] EXCEPT !.step = "failed"],
         abandoned'[k] \in {abandoned[k], None, awaited[k]},
         command'[k] \in {command[k], Idle}
  PROVE  /\ Local(k)'
         /\ \A n \in Name, c \in Credential : ClaimedAt(k, n, c)' => ClaimedAt(k, n, c)
<1>1. awaited[k] # None => awaited[k] \in Requests
  BY DEF TypeOK
<1>2. awaited'[k] # None =>
        /\ awaited[k] # None
        /\ awaited'[k].kind = awaited[k].kind /\ awaited'[k].name = awaited[k].name
        /\ awaited'[k].code = awaited[k].code /\ awaited'[k].cred = awaited[k].cred
        /\ awaited'[k].step \in {"stored", "consume", "ok"} => awaited'[k].step = awaited[k].step
  BY <1>1 DEF Requests
<1>3. Asking(awaited[k])' /\ Asking(abandoned[k])'
  BY <1>2 DEF Local, Asking
<1>4. Commanded(k)' /\ Clearing(k)' /\ Enrolled(k)'
  BY DEF Local, Commanded, Clearing, Enrolled, Pending, Complete, Idle, Enrolling, Having
<1>5. Waiting(k)' /\ Answered(k)'
  BY <1>2 DEF Local, Waiting, Answered, Idle
<1>6. Superseding(k)'
  BY <1>2 DEF Local, Superseding, Idle
<1>7. None \notin Credential
  BY ConstantsAssumption
<1>8. ASSUME NEW n \in Name, NEW c \in Credential, ClaimedAt(k, n, c)' PROVE ClaimedAt(k, n, c)
  <2>1. command'[k].cred = c => command'[k] = command[k]
    BY <1>7 DEF Idle
  <2>2. command'[k].previous # None => command'[k] = command[k]
    BY DEF Idle
  <2> QED
    BY <1>2, <1>8, <2>1, <2>2 DEF ClaimedAt
<1> QED
  BY <1>3, <1>4, <1>5, <1>6, <1>8 DEF Local

\* Serving a request.
LEMMA HandleKeeps ==
  ASSUME TypeOK, Records, Owned, \A k \in Machine : Local(k),
         NEW m \in Machine, NEW late \in BOOLEAN, Handle(m, late)
  PROVE  Types' /\ Owned' /\ \A k \in Machine : Local(k)'
<1> DEFINE q == At(m, late)
<1>1. /\ q \in Requests /\ q # None /\ Succeeds(m, late)
      /\ UNCHANGED <<config, items, command>>
  BY Serves DEF Records, machineVars
<1>2. Asking(q)
  BY DEF At, Local
<1>3. SourceTypes' /\ Adds(q)
  BY <1>2, Settles
<1>4. PICK r \in Requests : Advance(m, late, r) /\ Handled(q, r)
  BY <1>1 DEF Succeeds
<1>5. awaited \in [Machine -> Requests \cup {None}] /\ abandoned \in [Machine -> Requests \cup {None}]
  BY DEF TypeOK
<1>6. /\ late => awaited' = awaited /\ abandoned'[m] \in {r, None}
      /\ ~late => abandoned' = abandoned /\ awaited'[m] = r
      /\ \A k \in Machine : k # m => awaited'[k] = awaited[k] /\ abandoned'[k] = abandoned[k]
      /\ awaited' \in [Machine -> Requests \cup {None}] /\ abandoned' \in [Machine -> Requests \cup {None}]
  BY <1>4, <1>5 DEF Advance
<1>7. /\ ~late => q = awaited[m]
      /\ late => q = abandoned[m]
  BY DEF At
<1>8. Types'
  BY <1>1, <1>6, TypeParts DEF Types
<1>9. issued \in Nat /\ issued' \in Nat
  BY <1>3 DEF SourceTypes, TypeOK
<1>10. None \notin Credential /\ \A n : n \in Credential => n \in Nat
  BY ConstantsAssumption DEF Credential
<1>11. Asking(r)
  BY <1>2, <1>1, <1>4 DEF Asking, Handled
<1>12. Local(m)'
  <2>1. Asking(awaited[m])' /\ Asking(abandoned[m])'
    BY <1>6, <1>11 DEF Local, Asking
  <2>2. Commanded(m)' /\ Clearing(m)' /\ Enrolled(m)'
    BY <1>1, <1>3 DEF Local, Commanded, Clearing, Enrolled, Pending, Complete, Adds
  <2>3. Waiting(m)'
    BY <1>1, <1>4, <1>6, <1>7 DEF Local, Waiting, Handled
  <2>4. Answered(m)'
    BY <1>1, <1>3, <1>4, <1>6, <1>7 DEF Local, Answered, Handled, Adds
  <2>5. ASSUME command[m].pc = "prepare", ~late, r.cred # None, config[m] # None
        PROVE  r.cred # config[m].cred
    <3>1. q.kind = "enroll"
      BY <1>1, <1>7, <2>5 DEF Local, Waiting
    <3>2. CASE r.cred = q.cred
      BY <1>1, <1>7, <2>5, <3>2 DEF Local, Superseding
    <3>3. CASE r.cred = issued + 1 /\ issued + 1 \in Credential
      <4>1. config[m].name \in Name /\ config[m].cred \in Credential
        BY <2>5 DEF TypeOK, Configurations
      <4>2. Claimed(config[m].name, config[m].cred)
        BY <2>5 DEF Claimed, ClaimedAt
      <4>3. config[m].cred <= issued
        BY <4>1, <4>2 DEF Owned
      <4> QED
        BY <1>9, <1>10, <3>3, <4>1, <4>3
    <3> QED
      BY <1>4, <3>1, <3>2, <3>3 DEF Handled
  <2>6. Superseding(m)'
    BY <1>1, <1>6, <2>5 DEF Local, Superseding
  <2> QED
    BY <2>1, <2>2, <2>3, <2>4, <2>6 DEF Local
<1>13. \A k \in Machine : Local(k)'
  <2> SUFFICES ASSUME NEW k \in Machine, k # m PROVE Local(k)'
    BY <1>12
  <2> QED
    BY <1>1, <1>3, <1>6, LocalStays DEF Adds
<1>14. ASSUME NEW n \in Name, NEW c \in Credential, Claimed(n, c)'
       PROVE  Claimed(n, c) \/ (c = issued + 1 /\ issued' = issued + 1 /\ n = q.name)
  <2>1. q.kind = "enroll" => (q.name = n /\ q.cred = c => ClaimedAt(m, n, c))
    BY <1>1, <1>7 DEF ClaimedAt
  <2>2. CASE \E p \in pending' \cup finalized' : p.name = n /\ p.cred = c
    BY <1>3, <2>1, <2>2 DEF Adds, Claimed
  <2>3. CASE r.kind = "enroll" /\ r.name = n /\ r.cred = c
    BY <1>4, <2>1, <2>3 DEF Handled, Claimed
  <2>4. ASSUME NEW k \in Machine, ClaimedAt(k, n, c)'
        PROVE  Claimed(n, c) \/ (c = issued + 1 /\ issued' = issued + 1 /\ n = q.name)
    <3>1. ClaimedAt(k, n, c) \/ (r.kind = "enroll" /\ r.name = n /\ r.cred = c)
      BY <1>1, <1>6, <2>4 DEF ClaimedAt
    <3>2. CASE ClaimedAt(k, n, c)
      BY <3>2 DEF Claimed
    <3> QED
      BY <2>3, <3>1, <3>2
  <2>5. \/ \E p \in pending' \cup finalized' : p.name = n /\ p.cred = c
        \/ \E k \in Machine : ClaimedAt(k, n, c)'
    BY <1>14, Zenon DEF Claimed
  <2>6. CASE \E k \in Machine : ClaimedAt(k, n, c)'
    <3>1. PICK k \in Machine : ClaimedAt(k, n, c)'
      BY <2>6
    <3> QED
      BY <2>4, <3>1
  <2> QED
    BY <2>2, <2>5, <2>6
<1>15. issued' >= issued
  <2>1. CASE EnrollFollower(m, late)
    <3>1. issued' = issued \/ issued' = issued + 1
      BY <2>1 DEF EnrollFollower
    <3> QED
      BY <1>9, <3>1
  <2>2. CASE \/ ReplacePending(m, late) \/ ConsumeInvitation(m, late) \/ FinalizeFollower(m, late)
             \/ Commit(m, late) \/ CancelPendingEnrollment(m, late)
             \/ Authenticate(m, late) \/ RevokeAndRetire(m, late)
    <3>1. issued' = issued
      BY <2>2 DEF ReplacePending, ConsumeInvitation, FinalizeFollower, Commit,
                  CancelPendingEnrollment, Authenticate, RevokeAndRetire, sourceVars
    <3> QED
      BY <1>9, <3>1
  <2> QED
    BY <2>1, <2>2 DEF Handle
<1>16. Owned'
  BY <1>9, <1>14, <1>15, OwnedGrows
<1> QED
  BY <1>8, <1>13, <1>16

\* What a step of a machine's command has to keep.
Works(m) ==
  /\ Types' /\ Local(m)' /\ Elsewhere(m)
  /\ \A n \in Name, c \in Credential : ClaimedAt(m, n, c)' => ClaimedAt(m, n, c)

\* What mutateEnrollment asks.
LEMMA MutationType ==
  ASSUME NEW m, NEW kind \in {"finalize", "cancel", "revoke"}, NEW c \in Credential
  PROVE  /\ Mutation(m, kind, c) \in Requests
         /\ Mutation(m, kind, c).kind = kind /\ Mutation(m, kind, c).cred = c
         /\ Mutation(m, kind, c).step # "ok"
BY DEF Mutation, Request, Requests, Answers

\* What a request is.
LEMMA RequestType ==
  ASSUME NEW n \in Name \cup {None}, NEW k \in Code \cup {None}, NEW c \in Credential \cup {None},
         NEW kind \in {"enroll", "finalize", "cancel", "revoke"}
  PROVE  /\ Request(kind, n, k, c) \in Requests
         /\ Request(kind, n, k, c).kind = kind /\ Request(kind, n, k, c).cred = c
         /\ Request(kind, n, k, c).name = n /\ Request(kind, n, k, c).code = k
         /\ Request(kind, n, k, c).step = "sent"
BY DEF Request, Requests

\* A step of a command that leaves the configuration alone.
LEMMA OnlyCommand ==
  ASSUME TypeOK, NEW m \in Machine, NEW cmd \in Commands, NEW aw \in Requests \cup {None},
         NEW its \in SUBSET Credential,
         command' = [command EXCEPT ![m] = cmd], awaited' = [awaited EXCEPT ![m] = aw],
         config' = config, items' = [items EXCEPT ![m] = its], abandoned' = abandoned
  PROVE  /\ Types' /\ Elsewhere(m)
         /\ command'[m] = cmd /\ awaited'[m] = aw /\ config'[m] = config[m]
         /\ abandoned'[m] = abandoned[m]
<1>1. Types
  BY TypeParts
<1> QED
  BY <1>1 DEF Types, Elsewhere

\* A step puts back what it leaves alone.
LEMMA Same ==
  ASSUME TypeOK, NEW m \in Machine
  PROVE  /\ command = [command EXCEPT ![m] = command[m]] /\ command[m] \in Commands
         /\ awaited = [awaited EXCEPT ![m] = awaited[m]] /\ awaited[m] \in Requests \cup {None}
         /\ config = [config EXCEPT ![m] = config[m]] /\ config[m] \in Configurations \cup {None}
         /\ items = [items EXCEPT ![m] = items[m]] /\ items[m] \in SUBSET Credential
BY DEF TypeOK, Commands

\* No command is a state of a command.
LEMMA IdleType == Idle \in Commands
BY DEF Idle, Commands

\* A command that ends.
LEMMA EndWorks ==
  ASSUME TypeOK, NEW m \in Machine, Local(m), finalized' = finalized, NEW its \in SUBSET Credential,
         NEW cf \in Configurations \cup {None}, NEW aw \in {None, awaited[m]},
         command' = [command EXCEPT ![m] = Idle], awaited' = [awaited EXCEPT ![m] = aw],
         config' = [config EXCEPT ![m] = cf], items' = [items EXCEPT ![m] = its],
         abandoned' = abandoned,
         cf \in {config[m], None} \/
           /\ cf = [name |-> command[m].name, cred |-> command[m].cred, pending |-> FALSE]
           /\ \E f \in finalized : f.name = cf.name /\ f.cred = cf.cred
  PROVE  Works(m)
<1>1. /\ Types' /\ Elsewhere(m)
      /\ command'[m] = Idle /\ awaited'[m] = aw /\ config'[m] = cf
      /\ abandoned'[m] = abandoned[m]
  <2>1. aw \in Requests \cup {None}
    BY Same
  <2>2. Types /\ Idle \in Commands
    BY TypeParts, IdleType
  <2> QED
    BY <2>1, <2>2 DEF Types, Elsewhere
<1>2. Asking(awaited[m])' /\ Asking(abandoned[m])'
  BY <1>1 DEF Local, Asking
<1>3. Commanded(m)' /\ Clearing(m)' /\ Waiting(m)' /\ Superseding(m)'
  BY <1>1 DEF Commanded, Clearing, Waiting, Superseding, Idle, Enrolling, Having
<1>4. Enrolled(m)'
  BY <1>1 DEF Local, Enrolled, Complete
<1>5. Answered(m)'
  BY <1>1 DEF Local, Answered
<1>6. None \notin Credential
  BY ConstantsAssumption
<1>7. ASSUME NEW n \in Name, NEW c \in Credential, ClaimedAt(m, n, c)' PROVE ClaimedAt(m, n, c)
  BY <1>1, <1>6, <1>7 DEF ClaimedAt, Idle
<1> QED
  BY <1>1, <1>2, <1>3, <1>4, <1>5, <1>7 DEF Local, Works

\* `follower enroll` begins.
LEMMA BeginEnrollWorks ==
  ASSUME TypeOK, NEW m \in Machine, Local(m), NEW n \in Name, NEW k \in Code, NEW replace \in BOOLEAN,
         BeginEnroll(m, n, k, replace)
  PROVE  Works(m)
<1> DEFINE previous == IF Complete(m) THEN config[m] ELSE None
           cmd == [pc |-> IF Pending(m) THEN "resume" ELSE "prepare", name |-> n, code |-> k,
                   cred |-> None, previous |-> previous]
           aw == IF Pending(m) THEN Mutation(m, "finalize", config[m].cred)
                 ELSE Request("enroll", n, k, None)
<1>1. /\ command' = [command EXCEPT ![m] = cmd] /\ awaited' = [awaited EXCEPT ![m] = aw]
      /\ config' = config /\ items' = items /\ abandoned' = abandoned /\ finalized' = finalized
  BY DEF BeginEnroll, Ask, machineVars, sourceVars
<1>2. config[m] \in Configurations \cup {None}
  BY Same
<1>3. cmd \in Commands
  BY <1>2 DEF Commands, Complete
<1>4. Pending(m) => config[m].cred \in Credential
  BY <1>2 DEF Pending, Configurations
<1>5. aw \in Requests
  BY <1>4, MutationType, RequestType
<1> HIDE DEF cmd, aw
<1>6. /\ Types' /\ Elsewhere(m)
      /\ command'[m] = cmd /\ awaited'[m] = aw /\ config'[m] = config[m]
      /\ abandoned'[m] = abandoned[m]
  <2>1. items' = [items EXCEPT ![m] = items[m]] /\ items[m] \in SUBSET Credential
    BY <1>1, Same
  <2> QED
    BY <1>1, <1>3, <1>5, <2>1, OnlyCommand
<1>7. /\ cmd.pc = (IF Pending(m) THEN "resume" ELSE "prepare") /\ cmd.name = n /\ cmd.cred = None
      /\ cmd.code = k
      /\ cmd.previous = previous
  BY DEF cmd
<1>8. /\ Pending(m) => aw.kind = "finalize" /\ aw.cred = config[m].cred /\ aw.step # "ok"
      /\ ~Pending(m) => aw.kind = "enroll" /\ aw.name = n /\ aw.code = k /\ aw.cred = None
                         /\ aw.step = "sent"
  BY <1>4, MutationType, RequestType DEF aw
<1>9. Pending(m) => previous = None /\ Pending(m)'
  BY <1>6 DEF Pending, Complete
<1>10. Asking(awaited[m])' /\ Asking(abandoned[m])'
  BY <1>6, <1>8 DEF Local, Asking
<1>11. Commanded(m)' /\ Clearing(m)'
  BY <1>6, <1>7, <1>9 DEF Commanded, Clearing, Enrolling, Having
<1>12. Waiting(m)' /\ Answered(m)'
  BY <1>6, <1>7, <1>8 DEF Waiting, Answered
<1>13. Enrolled(m)'
  BY <1>1, <1>6 DEF Local, Enrolled, Complete
<1>14. Superseding(m)'
  BY <1>6, <1>7, <1>8, <1>9 DEF Superseding
<1>15. None \notin Credential
  BY ConstantsAssumption
<1>16. ASSUME NEW o \in Name, NEW c \in Credential, ClaimedAt(m, o, c)' PROVE ClaimedAt(m, o, c)
  BY <1>6, <1>7, <1>8, <1>15, <1>16 DEF ClaimedAt
<1> QED
  BY <1>6, <1>10, <1>11, <1>12, <1>13, <1>14, <1>16 DEF Local, Works

\* The name a credential was finalized under is the name a machine has it under.
LEMMA Owner ==
  ASSUME Owned, TypeOK, NEW m \in Machine, NEW n \in Name, NEW f \in finalized, ClaimedAt(m, n, f.cred)
  PROVE  f.name = n
<1>1. f.name \in Name /\ f.cred \in Credential
  BY DEF TypeOK, Row
<1>2. Claimed(f.name, f.cred) /\ Claimed(n, f.cred)
  BY DEF Claimed
<1> QED
  BY <1>1, <1>2 DEF Owned

\* The answer to the resumption.
LEMMA ResumeWorks ==
  ASSUME TypeOK, Owned, NEW m \in Machine, Local(m), Resume(m) PROVE Works(m)
<1>1. command[m].pc = "resume" /\ awaited[m] # None
  BY DEF Resume, Got
<1>2. /\ config[m] # None /\ config[m].pending /\ command[m].previous = None
      /\ command[m].name \in Name /\ command[m].code \in Code
      /\ awaited[m].kind = "finalize" /\ awaited[m].cred = config[m].cred
  BY <1>1 DEF Local, Commanded, Waiting, Pending, Enrolling
<1>3. config[m] \in Configurations /\ command[m] \in Commands /\ items[m] \in SUBSET Credential
  BY <1>2, Same
<1>4. config[m].name \in Name /\ config[m].cred \in Credential /\ command[m].code \in Code \cup {None}
  BY <1>3 DEF Configurations, Commands
<1>5. config' = config /\ abandoned' = abandoned /\ finalized' = finalized
  BY DEF Resume, sourceVars
<1>6. None \notin Credential
  BY ConstantsAssumption
<1>7. CASE Got(m, "resume", {"ok"}) /\ Heard(m) /\ UNCHANGED items
           /\ command' = [command EXCEPT ![m].pc = "clear", ![m].name = config[m].name,
                                         ![m].cred = config[m].cred]
  <2> DEFINE cmd == [command[m] EXCEPT !.pc = "clear", !.name = config[m].name, !.cred = config[m].cred]
  <2>1. cmd \in Commands
    BY <1>3, <1>4 DEF Commands
  <2>2. command' = [command EXCEPT ![m] = cmd] /\ awaited' = [awaited EXCEPT ![m] = None]
    BY ZenonT(40), <1>7, Same DEF Heard, Commands
  <2>3. /\ cmd.pc = "clear" /\ cmd.name = config[m].name /\ cmd.cred = config[m].cred
        /\ cmd.previous = None
    BY <1>2, <1>3 DEF Commands
  <2> HIDE DEF cmd
  <2>4. /\ Types' /\ Elsewhere(m)
        /\ command'[m] = cmd /\ awaited'[m] = None /\ config'[m] = config[m]
        /\ abandoned'[m] = abandoned[m]
    <3>1. items' = [items EXCEPT ![m] = items[m]] /\ items[m] \in SUBSET Credential
      BY <1>7, Same
    <3> QED
      BY <1>5, <2>1, <2>2, <3>1, OnlyCommand
  <2>5. PICK f \in finalized : f.cred = config[m].cred
    BY <1>1, <1>2, <1>7 DEF Local, Answered, Got
  <2>6. f.name = config[m].name
    BY <1>2, <1>4, <2>5, Owner DEF ClaimedAt
  <2>7. Asking(awaited[m])' /\ Asking(abandoned[m])'
    BY <2>4 DEF Local, Asking
  <2>8. Commanded(m)' /\ Waiting(m)' /\ Answered(m)'
    BY <1>4, <2>3, <2>4 DEF Commanded, Waiting, Answered
  <2>9. Clearing(m)' /\ Enrolled(m)'
    BY <1>5, <2>3, <2>4, <2>5, <2>6 DEF Local, Clearing, Enrolled, Complete
  <2>10. Superseding(m)'
    BY <2>3, <2>4 DEF Superseding
  <2>11. ASSUME NEW n \in Name, NEW c \in Credential, ClaimedAt(m, n, c)' PROVE ClaimedAt(m, n, c)
    BY <1>2, <2>3, <2>4, <2>11 DEF ClaimedAt
  <2> QED
    BY <2>4, <2>7, <2>8, <2>9, <2>10, <2>11 DEF Local, Works
<1>8. CASE /\ Got(m, "resume", {"invalid"}) /\ Discard(m, config[m].cred) /\ Goto(m, "prepare")
           /\ Ask(m, Request("enroll", command[m].name, command[m].code, None))
  <2> DEFINE cmd == [command[m] EXCEPT !.pc = "prepare"]
             aw  == Request("enroll", command[m].name, command[m].code, None)
  <2>1. cmd \in Commands
    BY <1>3 DEF Commands
  <2>2. aw \in Requests
    BY <1>2, <1>4, RequestType
  <2>3. /\ command' = [command EXCEPT ![m] = cmd] /\ awaited' = [awaited EXCEPT ![m] = aw]
    BY <1>8, Same DEF Goto, Ask, Commands
  <2>12. PICK its \in {items[m], items[m] \ {config[m].cred}} :
           items' = [items EXCEPT ![m] = its]
    BY <1>8, Same DEF Discard, Forget
  <2>4. cmd.pc = "prepare" /\ cmd.name = command[m].name /\ cmd.cred = command[m].cred /\ cmd.previous = None
    BY <1>2, <1>3 DEF Commands
  <2>5. /\ aw.kind = "enroll" /\ aw.name = command[m].name /\ aw.code = command[m].code
        /\ aw.cred = None /\ aw.step = "sent"
    BY <1>2, <1>4, RequestType
  <2> HIDE DEF cmd, aw
  <2>6. its \in SUBSET Credential
    BY <1>3, <2>12
  <2>7. /\ Types' /\ Elsewhere(m)
        /\ command'[m] = cmd /\ awaited'[m] = aw /\ config'[m] = config[m]
        /\ abandoned'[m] = abandoned[m]
    BY <1>5, <2>1, <2>2, <2>3, <2>6, <2>12, OnlyCommand
  <2>8. Asking(awaited[m])' /\ Asking(abandoned[m])'
    BY <1>2, <2>5, <2>7 DEF Local, Asking
  <2>9. Commanded(m)' /\ Waiting(m)' /\ Answered(m)' /\ Clearing(m)'
    BY <1>2, <2>4, <2>5, <2>7 DEF Commanded, Waiting, Answered, Clearing, Having
  <2>10. Enrolled(m)' /\ Superseding(m)'
    BY <1>5, <2>4, <2>5, <2>7 DEF Local, Enrolled, Complete, Superseding
  <2>11. ASSUME NEW n \in Name, NEW c \in Credential, ClaimedAt(m, n, c)' PROVE ClaimedAt(m, n, c)
    BY <1>6, <2>4, <2>5, <2>7, <2>11 DEF ClaimedAt
  <2> QED
    BY <2>7, <2>8, <2>9, <2>10, <2>11 DEF Local, Works
<1>9. CASE Got(m, "resume", {"refused", "failed"}) /\ End(m) /\ Heard(m) /\ UNCHANGED items
  <2>1. /\ command' = [command EXCEPT ![m] = Idle] /\ awaited' = [awaited EXCEPT ![m] = None]
        /\ config' = [config EXCEPT ![m] = config[m]] /\ items' = [items EXCEPT ![m] = items[m]]
    BY <1>5, <1>9, Same DEF End, Heard
  <2> QED
    BY <1>3, <1>5, <2>1, EndWorks
<1> QED
  BY <1>7, <1>8, <1>9 DEF Resume

\* The answer to the prepare request: the credential is another than any the machine has.
LEMMA PreparedWorks ==
  ASSUME TypeOK, NEW m \in Machine, Local(m), Prepared(m) PROVE Works(m)
<1>1. /\ command[m].pc = "prepare" /\ awaited[m] # None
      /\ config' = config /\ abandoned' = abandoned /\ finalized' = finalized
  BY DEF Prepared, Got, sourceVars
<1>2. /\ awaited[m].kind = "enroll" /\ awaited[m].name = command[m].name /\ command[m].name \in Name
      /\ awaited[m].step = "ok" => awaited[m].cred \in Credential
      /\ command[m].previous \in {None, config[m]}
  BY <1>1 DEF Local, Waiting, Asking, Commanded, Enrolling, Superseding
<1>3. command[m] \in Commands /\ items[m] \in SUBSET Credential /\ config[m] \in Configurations \cup {None}
  BY Same
<1>4. None \notin Credential
  BY ConstantsAssumption
<1>5. ASSUME NEW pc \in {"save", "cancel"}, NEW aw \in Requests \cup {None}, awaited[m].step = "ok",
             items' = [items EXCEPT ![m] = @ \cup {awaited[m].cred}],
             command' = [command EXCEPT ![m].pc = pc, ![m].cred = awaited[m].cred],
             awaited' = [awaited EXCEPT ![m] = aw],
             aw # None => aw.kind = "cancel"
      PROVE  Works(m)
  <2> DEFINE c == awaited[m].cred
             cmd == [command[m] EXCEPT !.pc = pc, !.cred = c]
  <2>1. cmd \in Commands /\ c \in Credential
    BY <1>2, <1>3, <1>5 DEF Commands
  <2>2. /\ command' = [command EXCEPT ![m] = cmd]
        /\ items' = [items EXCEPT ![m] = items[m] \cup {c}]
    BY ZenonT(40), <1>5, Same DEF Commands
  <2>3. items[m] \cup {c} \in SUBSET Credential
    BY <1>3, <2>1
  <2>4. /\ cmd.pc = pc /\ cmd.name = command[m].name /\ cmd.cred = c
        /\ cmd.previous = command[m].previous
    BY <1>3 DEF Commands
  <2> HIDE DEF cmd
  <2>5. /\ Types' /\ Elsewhere(m)
        /\ command'[m] = cmd /\ awaited'[m] = aw /\ config'[m] = config[m]
        /\ abandoned'[m] = abandoned[m]
    BY <1>1, <1>5, <2>1, <2>2, <2>3, OnlyCommand
  <2>6. Asking(awaited[m])' /\ Asking(abandoned[m])'
    BY <1>5, <2>5 DEF Local, Asking
  <2>7. Commanded(m)' /\ Waiting(m)' /\ Answered(m)' /\ Clearing(m)'
    BY <1>2, <1>5, <2>1, <2>4, <2>5 DEF Commanded, Waiting, Answered, Clearing, Having
  <2>8. Enrolled(m)'
    BY <1>1, <2>5 DEF Local, Enrolled, Complete
  <2>9. Superseding(m)'
    <3>1. config[m] # None => c # config[m].cred
      BY <1>1, <1>4, <2>1 DEF Local, Superseding
    <3> QED
      BY <1>2, <2>4, <2>5, <3>1 DEF Superseding
  <2>10. ASSUME NEW n \in Name, NEW d \in Credential, ClaimedAt(m, n, d)' PROVE ClaimedAt(m, n, d)
    BY <1>1, <1>2, <1>5, <2>4, <2>5, <2>10 DEF ClaimedAt
  <2> QED
    BY <2>5, <2>6, <2>7, <2>8, <2>9, <2>10 DEF Local, Works
<1>6. CASE End(m) /\ Heard(m) /\ UNCHANGED items
  <2>1. /\ command' = [command EXCEPT ![m] = Idle] /\ awaited' = [awaited EXCEPT ![m] = None]
        /\ config' = [config EXCEPT ![m] = config[m]] /\ items' = [items EXCEPT ![m] = items[m]]
    BY <1>1, <1>6, Same DEF End, Heard
  <2> QED
    BY <1>1, <1>3, <2>1, EndWorks
<1>7. CASE /\ Got(m, "prepare", {"ok"})
           /\ items' = [items EXCEPT ![m] = @ \cup {awaited[m].cred}]
           /\ command' = [command EXCEPT ![m].pc = "save", ![m].cred = awaited[m].cred] /\ Heard(m)
  <2>1. awaited' = [awaited EXCEPT ![m] = None] /\ awaited[m].step = "ok"
    BY <1>7 DEF Heard, Got
  <2> QED
    BY <1>5, <1>7, <2>1
<1>8. CASE /\ Got(m, "prepare", {"ok"})
           /\ items' = [items EXCEPT ![m] = @ \cup {awaited[m].cred}]
           /\ command' = [command EXCEPT ![m].pc = "cancel", ![m].cred = awaited[m].cred]
           /\ Ask(m, Request("cancel", None, None, awaited[m].cred))
  <2>1. awaited' = [awaited EXCEPT ![m] = Request("cancel", None, None, awaited[m].cred)]
        /\ awaited[m].step = "ok"
    BY <1>8 DEF Ask, Got
  <2>2. /\ Request("cancel", None, None, awaited[m].cred) \in Requests
        /\ Request("cancel", None, None, awaited[m].cred).kind = "cancel"
    BY <1>2, <2>1, RequestType
  <2> QED
    BY <1>5, <1>8, <2>1, <2>2
<1> QED
  BY <1>6, <1>7, <1>8 DEF Prepared

\* The pending configuration.
LEMMA SaveWorks ==
  ASSUME TypeOK, NEW m \in Machine, Local(m), Save(m) PROVE Works(m)
<1>1. /\ command[m].pc = "save" /\ abandoned' = abandoned /\ finalized' = finalized /\ items' = items
  BY DEF Save, sourceVars
<1>2. /\ command[m].name \in Name /\ command[m].cred \in Credential
      /\ command[m].previous \in {None, config[m]}
      /\ config[m] # None => command[m].cred # config[m].cred
  BY <1>1 DEF Local, Commanded, Enrolling, Having, Superseding
<1>3. command[m] \in Commands /\ items[m] \in SUBSET Credential /\ config[m] \in Configurations \cup {None}
  BY Same
<1>4. items' = [items EXCEPT ![m] = items[m]]
  BY <1>1, Same
<1>5. CASE /\ Configure(m, command[m].name, command[m].cred, TRUE)
           /\ Ask(m, Mutation(m, "finalize", command[m].cred)) /\ Goto(m, "finalize")
  <2> DEFINE cmd == [command[m] EXCEPT !.pc = "finalize"]
             aw == Mutation(m, "finalize", command[m].cred)
             cf == [name |-> command[m].name, cred |-> command[m].cred, pending |-> TRUE]
  <2>1. cmd \in Commands /\ cf \in Configurations
    BY <1>2, <1>3 DEF Commands, Configurations
  <2>2. aw \in Requests /\ aw.kind = "finalize" /\ aw.cred = command[m].cred /\ aw.step # "ok"
    BY <1>2, MutationType
  <2>3. /\ command' = [command EXCEPT ![m] = cmd] /\ awaited' = [awaited EXCEPT ![m] = aw]
        /\ config' = [config EXCEPT ![m] = cf]
    BY <1>5, Same DEF Configure, Ask, Goto, Commands
  <2>4. /\ cmd.pc = "finalize" /\ cmd.name = command[m].name /\ cmd.cred = command[m].cred
        /\ cmd.previous = command[m].previous
    BY <1>3 DEF Commands
  <2>5. cf.name = command[m].name /\ cf.cred = command[m].cred /\ cf.pending
    OBVIOUS
  <2> HIDE DEF cmd, aw, cf
  <2>6. /\ Types' /\ Elsewhere(m)
        /\ command'[m] = cmd /\ awaited'[m] = aw /\ config'[m] = cf
        /\ abandoned'[m] = abandoned[m]
    <3>1. Types
      BY TypeParts
    <3> QED
      BY <1>1, <2>1, <2>2, <2>3, <3>1 DEF Types, Elsewhere
  <2>7. Asking(awaited[m])' /\ Asking(abandoned[m])'
    BY <2>2, <2>6 DEF Local, Asking
  <2>8. Commanded(m)' /\ Waiting(m)' /\ Answered(m)' /\ Clearing(m)'
    BY <1>2, <2>2, <2>4, <2>6 DEF Commanded, Waiting, Answered, Clearing
  <2>9. Enrolled(m)' /\ Superseding(m)'
    BY <1>2, <2>4, <2>5, <2>6 DEF Enrolled, Complete, Superseding
  <2>10. ASSUME NEW n \in Name, NEW c \in Credential, ClaimedAt(m, n, c)' PROVE ClaimedAt(m, n, c)
    BY <2>2, <2>4, <2>5, <2>6, <2>10 DEF ClaimedAt
  <2> QED
    BY <2>6, <2>7, <2>8, <2>9, <2>10 DEF Local, Works
<1>6. CASE Ask(m, Mutation(m, "cancel", command[m].cred)) /\ Goto(m, "cancel") /\ UNCHANGED config
  <2> DEFINE cmd == [command[m] EXCEPT !.pc = "cancel"]
             aw == Mutation(m, "cancel", command[m].cred)
  <2>1. cmd \in Commands
    BY <1>3 DEF Commands
  <2>2. aw \in Requests /\ aw.kind = "cancel"
    BY <1>2, MutationType
  <2>3. /\ command' = [command EXCEPT ![m] = cmd] /\ awaited' = [awaited EXCEPT ![m] = aw]
    BY <1>6, Same DEF Ask, Goto, Commands
  <2>4. /\ cmd.pc = "cancel" /\ cmd.name = command[m].name /\ cmd.cred = command[m].cred
        /\ cmd.previous = command[m].previous
    BY <1>3 DEF Commands
  <2> HIDE DEF cmd, aw
  <2>5. /\ Types' /\ Elsewhere(m)
        /\ command'[m] = cmd /\ awaited'[m] = aw /\ config'[m] = config[m]
        /\ abandoned'[m] = abandoned[m]
    BY <1>1, <1>3, <1>4, <1>6, <2>1, <2>2, <2>3, OnlyCommand
  <2>6. Asking(awaited[m])' /\ Asking(abandoned[m])'
    BY <2>2, <2>5 DEF Local, Asking
  <2>7. Commanded(m)' /\ Waiting(m)' /\ Answered(m)' /\ Clearing(m)'
    BY <1>2, <2>2, <2>4, <2>5 DEF Commanded, Waiting, Answered, Clearing
  <2>8. Enrolled(m)' /\ Superseding(m)'
    BY <1>1, <1>2, <2>4, <2>5 DEF Local, Enrolled, Complete, Superseding
  <2>9. ASSUME NEW n \in Name, NEW c \in Credential, ClaimedAt(m, n, c)' PROVE ClaimedAt(m, n, c)
    BY <2>2, <2>4, <2>5, <2>9 DEF ClaimedAt
  <2> QED
    BY <2>5, <2>6, <2>7, <2>8, <2>9 DEF Local, Works
<1> QED
  BY <1>5, <1>6 DEF Save

\* The answer to a cancellation.
LEMMA CancelledWorks ==
  ASSUME TypeOK, NEW m \in Machine, Local(m), Cancelled(m) PROVE Works(m)
<1>1. /\ config' = config /\ abandoned' = abandoned /\ finalized' = finalized
      /\ command' = [command EXCEPT ![m] = Idle] /\ awaited' = [awaited EXCEPT ![m] = None]
  BY Same DEF Cancelled, sourceVars, End, Heard
<1>2. PICK its \in {items[m], items[m] \ {command[m].cred}} :
        items' = [items EXCEPT ![m] = its]
  BY Same DEF Cancelled, Discard, Forget
<1>3. its \in SUBSET Credential /\ config[m] \in Configurations \cup {None}
      /\ config' = [config EXCEPT ![m] = config[m]]
  BY <1>1, <1>2, Same
<1> QED
  BY <1>1, <1>2, <1>3, EndWorks

\* The answer to the finalize request.
LEMMA FinalizedWorks ==
  ASSUME TypeOK, Owned, NEW m \in Machine, Local(m), Finalized(m) PROVE Works(m)
<1>1. /\ command[m].pc = "finalize" /\ awaited[m] # None /\ awaited' = [awaited EXCEPT ![m] = None]
      /\ config' = config /\ items' = items /\ abandoned' = abandoned /\ finalized' = finalized
  BY DEF Finalized, Got, sourceVars, machineVars, Heard
<1>2. /\ awaited[m].kind = "finalize" /\ awaited[m].cred = command[m].cred
      /\ command[m].name \in Name /\ command[m].cred \in Credential
      /\ command[m].previous # None => command[m].cred # command[m].previous.cred
  BY <1>1 DEF Local, Waiting, Commanded, Enrolling, Having, Superseding
<1>3. /\ command[m] \in Commands /\ items[m] \in SUBSET Credential
      /\ config[m] \in Configurations \cup {None}
      /\ config' = [config EXCEPT ![m] = config[m]] /\ items' = [items EXCEPT ![m] = items[m]]
  BY <1>1, Same
<1>4. CASE Got(m, "finalize", {"ok"}) /\ Goto(m, "clear")
  <2> DEFINE cmd == [command[m] EXCEPT !.pc = "clear"]
  <2>1. cmd \in Commands
    BY <1>3 DEF Commands
  <2>2. command' = [command EXCEPT ![m] = cmd]
    BY <1>4, Same DEF Goto, Commands
  <2>3. /\ cmd.pc = "clear" /\ cmd.name = command[m].name /\ cmd.cred = command[m].cred
        /\ cmd.previous = command[m].previous
    BY <1>3 DEF Commands
  <2> HIDE DEF cmd
  <2>4. /\ Types' /\ Elsewhere(m)
        /\ command'[m] = cmd /\ awaited'[m] = None /\ config'[m] = config[m]
        /\ abandoned'[m] = abandoned[m]
    BY <1>1, <1>3, <2>1, <2>2, OnlyCommand
  <2>5. PICK f \in finalized : f.cred = command[m].cred
    BY <1>1, <1>2, <1>4 DEF Local, Answered, Got
  <2>6. f.name = command[m].name
    BY <1>2, <2>5, Owner DEF ClaimedAt
  <2>7. Asking(awaited[m])' /\ Asking(abandoned[m])'
    BY <2>4 DEF Local, Asking
  <2>8. Commanded(m)' /\ Waiting(m)' /\ Answered(m)' /\ Clearing(m)'
    BY <1>1, <1>2, <2>3, <2>4, <2>5, <2>6 DEF Commanded, Waiting, Answered, Clearing
  <2>9. Enrolled(m)' /\ Superseding(m)'
    BY <1>1, <1>2, <2>3, <2>4 DEF Local, Enrolled, Complete, Superseding
  <2>10. ASSUME NEW n \in Name, NEW c \in Credential, ClaimedAt(m, n, c)' PROVE ClaimedAt(m, n, c)
    BY <2>3, <2>4, <2>10 DEF ClaimedAt
  <2> QED
    BY <2>4, <2>7, <2>8, <2>9, <2>10 DEF Local, Works
<1>5. CASE End(m)
  BY <1>1, <1>3, <1>5, EndWorks DEF End
<1> QED
  BY <1>4, <1>5 DEF Finalized

\* The configuration is complete.
LEMMA ClearWorks ==
  ASSUME TypeOK, NEW m \in Machine, Local(m), Clear(m) PROVE Works(m)
<1>1. /\ command[m].pc = "clear" /\ abandoned' = abandoned /\ finalized' = finalized /\ items' = items
  BY DEF Clear, sourceVars
<1>2. /\ command[m].name \in Name /\ command[m].cred \in Credential
      /\ command[m].previous # None => command[m].cred # command[m].previous.cred
      /\ \E f \in finalized : f.name = command[m].name /\ f.cred = command[m].cred
  BY <1>1 DEF Local, Commanded, Enrolling, Having, Superseding, Clearing
<1>3. /\ command[m] \in Commands /\ items[m] \in SUBSET Credential
      /\ config[m] \in Configurations \cup {None} /\ awaited[m] \in Requests \cup {None}
      /\ items' = [items EXCEPT ![m] = items[m]] /\ awaited = [awaited EXCEPT ![m] = awaited[m]]
      /\ config = [config EXCEPT ![m] = config[m]]
  BY <1>1, Same
<1>4. CASE End(m) /\ UNCHANGED <<config, awaited>>
  BY <1>1, <1>3, <1>4, EndWorks DEF End
<1> DEFINE cf == [name |-> command[m].name, cred |-> command[m].cred, pending |-> FALSE]
<1>5. cf \in Configurations /\ cf.name = command[m].name /\ cf.cred = command[m].cred /\ ~cf.pending
  BY <1>2 DEF Configurations
<1>6. CASE Configure(m, command[m].name, command[m].cred, FALSE) /\ End(m) /\ UNCHANGED awaited
  <2>1. config' = [config EXCEPT ![m] = cf] /\ command' = [command EXCEPT ![m] = Idle]
        /\ awaited' = [awaited EXCEPT ![m] = awaited[m]]
    BY <1>3, <1>6 DEF Configure, End
  <2> QED
    BY <1>1, <1>2, <1>3, <1>5, <2>1, EndWorks
<1> HIDE DEF cf
<1>7. ASSUME NEW pc \in {"rotate", "retire"}, NEW aw \in Requests \cup {None},
             command[m].previous # None, Goto(m, pc), awaited' = [awaited EXCEPT ![m] = aw],
             config' = [config EXCEPT ![m] = cf],
             aw = awaited[m] \/ aw.kind = "revoke"
      PROVE  Works(m)
  <2> DEFINE cmd == [command[m] EXCEPT !.pc = pc]
  <2>1. cmd \in Commands
    BY <1>3 DEF Commands
  <2>2. command' = [command EXCEPT ![m] = cmd]
    BY <1>7, Same DEF Goto, Commands
  <2>3. /\ cmd.pc = pc /\ cmd.name = command[m].name /\ cmd.cred = command[m].cred
        /\ cmd.previous = command[m].previous
    BY <1>3 DEF Commands
  <2> HIDE DEF cmd
  <2>4. /\ Types' /\ Elsewhere(m)
        /\ command'[m] = cmd /\ awaited'[m] = aw /\ config'[m] = cf
        /\ abandoned'[m] = abandoned[m]
    <3>1. Types
      BY TypeParts
    <3> QED
      BY <1>1, <1>3, <1>5, <1>7, <2>1, <2>2, <3>1 DEF Types, Elsewhere
  <2>5. Asking(awaited[m])' /\ Asking(abandoned[m])'
    BY <1>7, <2>4 DEF Local, Asking
  <2>6. Commanded(m)' /\ Waiting(m)' /\ Clearing(m)'
    BY <1>2, <2>3, <2>4 DEF Commanded, Waiting, Clearing
  <2>7. Answered(m)'
    BY <1>1, <1>7, <2>4 DEF Local, Answered
  <2>8. Enrolled(m)'
    BY <1>1, <1>2, <1>5, <2>4 DEF Enrolled, Complete
  <2>9. Superseding(m)'
    BY <1>2, <1>5, <1>7, <2>3, <2>4 DEF Superseding
  <2>10. ASSUME NEW n \in Name, NEW c \in Credential, ClaimedAt(m, n, c)' PROVE ClaimedAt(m, n, c)
    BY <1>5, <1>7, <2>3, <2>4, <2>10 DEF ClaimedAt
  <2> QED
    BY <2>4, <2>5, <2>6, <2>7, <2>8, <2>9, <2>10 DEF Local, Works
<1>8. CASE /\ Configure(m, command[m].name, command[m].cred, FALSE)
           /\ command[m].previous # None /\ Goto(m, "rotate") /\ UNCHANGED awaited
  <2>1. config' = [config EXCEPT ![m] = cf] /\ awaited' = [awaited EXCEPT ![m] = awaited[m]]
    BY <1>3, <1>8 DEF Configure, cf
  <2> QED
    BY <1>3, <1>7, <1>8, <2>1
<1>9. CASE /\ Configure(m, command[m].name, command[m].cred, FALSE)
           /\ command[m].previous # None /\ Goto(m, "retire")
           /\ Ask(m, Mutation(m, "revoke", command[m].previous.cred))
  <2>1. command[m].previous.cred \in Credential
    BY <1>3, <1>9 DEF Commands, Configurations
  <2>2. Mutation(m, "revoke", command[m].previous.cred) \in Requests
        /\ Mutation(m, "revoke", command[m].previous.cred).kind = "revoke"
    BY <2>1, MutationType
  <2>3. config' = [config EXCEPT ![m] = cf]
        /\ awaited' = [awaited EXCEPT ![m] = Mutation(m, "revoke", command[m].previous.cred)]
    BY <1>9 DEF Configure, cf, Ask
  <2> QED
    BY <1>7, <1>9, <2>2, <2>3
<1> QED
  BY <1>4, <1>6, <1>8, <1>9 DEF Clear

\* What was superseded is retired.
LEMMA RetireWorks ==
  ASSUME TypeOK, NEW m \in Machine, Local(m), Retire(m) PROVE Works(m)
<1>1. /\ config' = config /\ abandoned' = abandoned /\ finalized' = finalized
      /\ command' = [command EXCEPT ![m] = Idle] /\ awaited' = [awaited EXCEPT ![m] = None]
  BY Same DEF Retire, sourceVars, End, Heard
<1>2. PICK its \in {items[m], items[m] \ {command[m].previous.cred}} :
        items' = [items EXCEPT ![m] = its]
  BY Same DEF Retire, Discard, Forget
<1>3. its \in SUBSET Credential /\ config[m] \in Configurations \cup {None}
      /\ config' = [config EXCEPT ![m] = config[m]]
  BY <1>1, <1>2, Same
<1> QED
  BY <1>1, <1>2, <1>3, EndWorks

\* A command that leaves.
LEMMA LeavingWorks ==
  ASSUME TypeOK, NEW m \in Machine, Local(m), finalized' = finalized, NEW pc \in {"leave", "remove"},
         NEW aw \in Requests \cup {None}, aw # None => aw.kind = "revoke",
         NEW its \in SUBSET Credential, Goto(m, pc),
         awaited' = [awaited EXCEPT ![m] = aw],
         config' = config, items' = [items EXCEPT ![m] = its], abandoned' = abandoned
  PROVE  Works(m)
<1> DEFINE cmd == [command[m] EXCEPT !.pc = pc]
<1>1. command[m] \in Commands
  BY Same
<1>2. cmd \in Commands
  BY <1>1 DEF Commands
<1>3. command' = [command EXCEPT ![m] = cmd]
  BY Same DEF Goto, Commands
<1>4. /\ cmd.pc = pc /\ cmd.name = command[m].name /\ cmd.cred = command[m].cred
      /\ cmd.previous = command[m].previous
  BY <1>1 DEF Commands
<1> HIDE DEF cmd
<1>5. /\ Types' /\ Elsewhere(m)
      /\ command'[m] = cmd /\ awaited'[m] = aw /\ config'[m] = config[m]
      /\ abandoned'[m] = abandoned[m]
  BY <1>2, <1>3, OnlyCommand
<1>6. Asking(awaited[m])' /\ Asking(abandoned[m])'
  BY <1>5 DEF Local, Asking
<1>7. Commanded(m)' /\ Waiting(m)' /\ Answered(m)' /\ Clearing(m)'
  BY <1>4, <1>5 DEF Commanded, Waiting, Answered, Clearing, Enrolling, Having
<1>8. Enrolled(m)' /\ Superseding(m)'
  BY <1>4, <1>5 DEF Local, Enrolled, Complete, Superseding
<1>9. ASSUME NEW n \in Name, NEW c \in Credential, ClaimedAt(m, n, c)' PROVE ClaimedAt(m, n, c)
  BY <1>4, <1>5, <1>9 DEF ClaimedAt
<1> QED
  BY <1>5, <1>6, <1>7, <1>8, <1>9 DEF Local, Works

\* The steps of `follower unenroll`.
LEMMA UnenrollWorks ==
  ASSUME TypeOK, NEW m \in Machine, Local(m), BeginUnenroll(m) \/ Left(m) \/ RemoveConfiguration(m)
  PROVE  Works(m)
<1>1. /\ abandoned' = abandoned /\ finalized' = finalized
      /\ items[m] \in SUBSET Credential /\ config[m] \in Configurations \cup {None}
      /\ items = [items EXCEPT ![m] = items[m]] /\ config = [config EXCEPT ![m] = config[m]]
      /\ awaited = [awaited EXCEPT ![m] = awaited[m]]
  BY Same DEF BeginUnenroll, Left, RemoveConfiguration, sourceVars, requestVars
<1>2. CASE BeginUnenroll(m)
  <2> DEFINE aw == Mutation(m, "revoke", config[m].cred)
  <2>1. config[m].cred \in Credential
    BY <1>1, <1>2 DEF BeginUnenroll, Configurations
  <2>2. aw \in Requests /\ aw.kind = "revoke"
    BY <2>1, MutationType
  <2>3. /\ Goto(m, "leave") /\ awaited' = [awaited EXCEPT ![m] = aw]
        /\ config' = config /\ items' = [items EXCEPT ![m] = items[m]]
    BY <1>1, <1>2 DEF BeginUnenroll, Ask, machineVars
  <2> QED
    BY <1>1, <2>2, <2>3, LeavingWorks
<1>3. CASE Left(m)
  <2>1. awaited' = [awaited EXCEPT ![m] = None] /\ config' = config
    BY <1>3 DEF Left, Heard
  <2>2. CASE Forget(m, config[m].cred) /\ Goto(m, "remove")
    <3>1. items' = [items EXCEPT ![m] = items[m] \ {config[m].cred}]
          /\ items[m] \ {config[m].cred} \in SUBSET Credential
      BY <1>1, <2>2, Same DEF Forget
    <3> QED
      BY <1>1, <2>1, <2>2, <3>1, LeavingWorks
  <2>3. CASE End(m) /\ items' = items
    BY <1>1, <2>1, <2>3, EndWorks DEF End
  <2> QED
    BY <1>3, <2>2, <2>3 DEF Left
<1>4. CASE RemoveConfiguration(m)
  <2>1. /\ config' = [config EXCEPT ![m] = None] /\ command' = [command EXCEPT ![m] = Idle]
        /\ awaited' = [awaited EXCEPT ![m] = awaited[m]] /\ items' = [items EXCEPT ![m] = items[m]]
    BY <1>1, <1>4 DEF RemoveConfiguration, End, requestVars
  <2> QED
    BY <1>1, <2>1, EndWorks
<1> QED
  BY <1>2, <1>3, <1>4

\* A step of the command of a machine.
CommandOf(m) ==
  \/ \E n \in Name, k \in Code, replace \in BOOLEAN : BeginEnroll(m, n, k, replace)
  \/ BeginUnenroll(m) \/ CommandStep(m)

\* Every step of a command keeps what it has to.
LEMMA CommandWorks ==
  ASSUME TypeOK, Owned, NEW m \in Machine, Local(m), CommandOf(m) PROVE Works(m)
BY BeginEnrollWorks, ResumeWorks, PreparedWorks, SaveWorks, CancelledWorks, FinalizedWorks, ClearWorks,
   RetireWorks, UnenrollWorks
DEF CommandOf, CommandStep

\* What it leaves alone: the Source, and a configuration of a Source.
Apart(m) ==
  /\ UNCHANGED <<sourceVars, sourceRole>>
  /\ Fault \/ faults' = faults
  /\ (commands < MaxCommands /\ commands' = commands + 1) \/ commands' = commands
  /\ config' = config \/ m \notin sourceRole \/ config' = [config EXCEPT ![m] = None]

\* Every step of a command leaves the Source alone.
LEMMA CommandApart == ASSUME NEW m \in Machine, CommandOf(m) PROVE Apart(m)
<1> USE DEF machineVars, boundVars
<1>1. ASSUME NEW n \in Name, NEW k \in Code, NEW replace \in BOOLEAN, BeginEnroll(m, n, k, replace)
      PROVE  Apart(m)
  BY <1>1 DEF BeginEnroll, Begin, Apart
<1>2. CASE BeginUnenroll(m)
  BY <1>2 DEF BeginUnenroll, Begin, Apart
<1>3. CASE Resume(m)
  BY <1>3 DEF Resume, Apart
<1>4. CASE Prepared(m)
  BY <1>4 DEF Prepared, Apart
<1>5. CASE Save(m)
  BY <1>5 DEF Save, Apart
<1>6. CASE Cancelled(m) \/ Finalized(m) \/ Retire(m)
  BY <1>6 DEF Cancelled, Finalized, Retire, Apart
<1>7. CASE Clear(m)
  BY <1>7 DEF Clear, Apart
<1>8. CASE Left(m) \/ RemoveConfiguration(m)
  BY <1>8 DEF Left, RemoveConfiguration, Apart
<1> QED
  BY <1>1, <1>2, <1>3, <1>4, <1>5, <1>6, <1>7, <1>8 DEF CommandOf, CommandStep

\* A step of a command keeps the invariant.
LEMMA CommandKeeps == ASSUME IInv, NEW m \in Machine, CommandOf(m) PROVE IInv'
<1>1. Works(m) /\ Apart(m)
  BY CommandWorks, CommandApart DEF IInv
<1>2. TypeOK'
  <2>1. SourceTypes
    BY TypeParts DEF IInv
  <2>2. faults' \in 0..MaxFaults
    BY <1>1, <2>1, FaultType DEF Apart
  <2>3. commands' \in 0..MaxCommands
    BY <1>1, <2>1, ConstantsAssumption DEF Apart, SourceTypes
  <2>4. SourceTypes'
    BY <1>1, <2>1, <2>2, <2>3 DEF Apart, sourceVars, SourceTypes
  <2>5. Types'
    BY <1>1 DEF Works
  <2> QED
    BY <2>4, <2>5, TypeParts DEF Types, SourceTypes, TypeOK, Commands
<1>3. Records'
  BY <1>1, SameRecords DEF IInv, Apart, sourceVars
<1>4. \A k \in Machine : Local(k)'
  <2> SUFFICES ASSUME NEW k \in Machine, k # m PROVE Local(k)'
    BY <1>1 DEF Works
  <2> QED
    BY <1>1, LocalStays DEF IInv, Works, Elsewhere, Apart, sourceVars
<1>5. Owned'
  <2>1. ASSUME NEW n \in Name, NEW c \in Credential, Claimed(n, c)' PROVE Claimed(n, c)
    <3>1. CASE \E p \in pending' \cup finalized' : p.name = n /\ p.cred = c
      BY <1>1, <3>1 DEF Apart, sourceVars, Claimed
    <3>2. ASSUME NEW k \in Machine, ClaimedAt(k, n, c)' PROVE Claimed(n, c)
      <4>1. CASE k = m
        BY <1>1, <3>2, <4>1 DEF Works, Claimed
      <4>2. CASE k # m
        <5>1. ClaimedAt(k, n, c)
          BY <1>1, <3>2, <4>2 DEF Works, Elsewhere, ClaimedAt
        <5> QED
          BY <5>1 DEF Claimed
      <4> QED
        BY <4>1, <4>2
    <3>3. CASE \E k \in Machine : ClaimedAt(k, n, c)'
      <4>1. PICK k \in Machine : ClaimedAt(k, n, c)'
        BY <3>3
      <4> QED
        BY <3>2, <4>1
    <3> QED
      BY <2>1, <3>1, <3>3 DEF Claimed
  <2> QED
    BY <1>1, <2>1, OwnedStays DEF IInv, Apart, sourceVars
<1>6. OneRole'
  <2>1. sourceRole' = sourceRole /\ \A k \in sourceRole : config'[k] = None
    <3>1. sourceRole \subseteq Machine /\ config \in [Machine -> Configurations \cup {None}]
      BY DEF IInv, TypeOK
    <3>2. \A k \in Machine : k # m => config'[k] = config[k]
      BY <1>1 DEF Works, Elsewhere
    <3> QED
      BY <1>1, <3>1, <3>2 DEF Apart, IInv, OneRole
  <2> QED
    BY <2>1 DEF OneRole
<1> QED
  BY <1>2, <1>3, <1>4, <1>5, <1>6 DEF IInv

\* The steps that only make machines wait no longer.
LEMMA SoftKeeps ==
  ASSUME IInv, UNCHANGED <<sourceVars, machineVars>> \/ StopServer, UNCHANGED commands,
         \A k \in Machine :
           /\ \/ awaited'[k] \in {awaited[k], None}
              \/ awaited[k] # None /\ awaited'[k] = [awaited[k] EXCEPT !.step = "failed"]
           /\ abandoned'[k] \in {abandoned[k], None, awaited[k]}
           /\ command'[k] \in {command[k], Idle},
         awaited' \in [Machine -> Requests \cup {None}], abandoned' \in [Machine -> Requests \cup {None}],
         command' \in [Machine -> Commands],
         Fault \/ faults' = faults
  PROVE  IInv'
<1>1. /\ UNCHANGED <<invitation, pending, follower, sourceItems, issued, finalized>>
      /\ UNCHANGED <<sourceRole, config, items>> /\ session' \in {"up", "down"}
  BY DEF sourceVars, machineVars, StopServer, IInv, TypeOK
<1>2. TypeOK'
  <2>1. SourceTypes /\ Types
    BY TypeParts DEF IInv
  <2>2. faults' \in 0..MaxFaults
    BY <2>1, FaultType
  <2>3. SourceTypes' /\ Types'
    BY <1>1, <2>1, <2>2 DEF SourceTypes, Types
  <2> QED
    BY <2>3 DEF Types, SourceTypes, TypeOK, Commands
<1>3. Records'
  BY <1>1, SameRecords DEF IInv
<1>4. \A k \in Machine :
        /\ Local(k)'
        /\ \A n \in Name, c \in Credential : ClaimedAt(k, n, c)' => ClaimedAt(k, n, c)
  <2> SUFFICES ASSUME NEW k \in Machine
               PROVE  /\ Local(k)'
                      /\ \A n \in Name, c \in Credential : ClaimedAt(k, n, c)' => ClaimedAt(k, n, c)
    OBVIOUS
  <2> QED
    BY <1>1, Softens DEF IInv
<1>5. Owned'
  <2>1. ASSUME NEW n \in Name, NEW c \in Credential, Claimed(n, c)' PROVE Claimed(n, c)
    <3>1. CASE \E p \in pending' \cup finalized' : p.name = n /\ p.cred = c
      BY <1>1, <3>1 DEF Claimed
    <3>2. CASE \E k \in Machine : ClaimedAt(k, n, c)'
      <4>1. PICK k \in Machine : ClaimedAt(k, n, c)'
        BY <3>2
      <4>2. ClaimedAt(k, n, c)
        BY <1>4, <4>1
      <4> QED
        BY <4>2 DEF Claimed
    <3> QED
      BY <2>1, <3>1, <3>2 DEF Claimed
  <2> QED
    BY <1>1, <2>1, OwnedStays DEF IInv
<1>6. OneRole'
  BY <1>1 DEF IInv, OneRole
<1> QED
  BY <1>2, <1>3, <1>4, <1>5, <1>6 DEF IInv

\* The steps of the tables alone.
LEMMA TableKeeps ==
  ASSUME IInv, UNCHANGED <<awaited, abandoned, command, config, items, finalized, issued>>,
         SourceTypes', Records', pending' \subseteq pending, \A m \in sourceRole' : config[m] = None
  PROVE  IInv'
<1>1. TypeOK'
  <2>1. Types'
    BY TypeParts DEF IInv, Types
  <2> QED
    BY <2>1 DEF Types, SourceTypes, TypeOK, Commands
<1>2. \A k \in Machine : Local(k)'
  <2> SUFFICES ASSUME NEW k \in Machine PROVE Local(k)'
    OBVIOUS
  <2> QED
    BY LocalStays DEF IInv
<1>3. Owned'
  <2>1. ASSUME NEW n \in Name, NEW c \in Credential, Claimed(n, c)' PROVE Claimed(n, c)
    BY <2>1 DEF Claimed, ClaimedAt
  <2> QED
    BY <2>1, OwnedStays DEF IInv
<1>4. OneRole'
  BY DEF OneRole
<1> QED
  BY <1>1, <1>2, <1>3, <1>4 DEF IInv

\* So do the Source's own commands, the start of its server and `source init`.
LEMMA SourceKeeps ==
  ASSUME IInv,
         \/ \E k \in Code : CreateInvitation(k) \/ Expire(k)
         \/ \E n \in Name : RevokeFollower(n)
         \/ StartServer
         \/ \E m \in Machine : SaveEnrollmentSource(m)
  PROVE  IInv'
<1> USE DEF machineVars, requestVars, boundVars
<1>1. SourceTypes /\ \A m \in sourceRole : config[m] = None
  BY TypeParts DEF IInv, OneRole
<1>2. ASSUME NEW k \in Code, CreateInvitation(k) \/ Expire(k) PROVE IInv'
  <2>1. /\ UNCHANGED <<pending, follower, sourceItems, session, issued, finalized, sourceRole, config, items,
                        command, awaited, abandoned, faults, commands>>
        /\ invitation[k] # "used"
        /\ \E s \in {"open", "expired"} : invitation' = [invitation EXCEPT ![k] = s]
    BY <1>2 DEF CreateInvitation, Expire
  <2>2. SourceTypes'
    BY <1>1, <2>1 DEF SourceTypes
  <2>3. \A f \in finalized : f.code # k /\ f.code \in Code
    BY <1>1, <2>1 DEF IInv, Records, Used, SourceTypes, Row
  <2>4. Used'
    BY <1>1, <2>1, <2>3 DEF IInv, Records, Used, SourceTypes
  <2>5. Records'
    BY <2>1, <2>4 DEF IInv, Records, InvitationEnrollsOne, PendingIsExclusive, Rows, Active
  <2> QED
    BY <1>1, <2>1, <2>2, <2>5, TableKeeps
<1>3. ASSUME NEW n \in Name, RevokeFollower(n) PROVE IInv'
  <2>1. /\ UNCHANGED <<invitation, pending, session, issued, finalized, sourceRole, config, items,
                        command, awaited, abandoned, faults, commands>>
        /\ follower' = [follower EXCEPT ![n].revoked = TRUE]
        /\ sourceItems' \subseteq sourceItems
    BY <1>3 DEF RevokeFollower
  <2>2. SourceTypes'
    BY <1>1, <2>1 DEF SourceTypes
  <2>3. Records'
    BY <2>1, FewerActive DEF IInv
  <2> QED
    BY <1>1, <2>1, <2>2, <2>3, TableKeeps
<1>4. CASE StartServer
  <2>1. /\ UNCHANGED <<invitation, follower, issued, finalized, sourceRole, config, items,
                        command, awaited, abandoned, faults, commands>>
        /\ pending' \subseteq pending /\ sourceItems' \subseteq sourceItems /\ session' \in {"up", "down"}
    BY <1>4 DEF StartServer
  <2>2. SourceTypes'
    BY <1>1, <2>1 DEF SourceTypes
  <2>3. Records'
    BY <2>1, SameRecords DEF IInv
  <2> QED
    BY <1>1, <2>1, <2>2, <2>3, TableKeeps
<1>5. ASSUME NEW m \in Machine, SaveEnrollmentSource(m) PROVE IInv'
  <2>1. /\ UNCHANGED <<sourceVars, config, items, command, awaited, abandoned, faults, commands>>
        /\ sourceRole' = sourceRole \cup {m} /\ config[m] = None
    BY <1>5 DEF SaveEnrollmentSource
  <2>2. SourceTypes'
    BY <1>1, <2>1 DEF SourceTypes, sourceVars
  <2>3. Records'
    BY <2>1, SameRecords DEF IInv, sourceVars
  <2> QED
    BY <1>1, <2>1, <2>2, <2>3, TableKeeps DEF sourceVars
<1> QED
  BY <1>2, <1>3, <1>4, <1>5

\* So do a server that stops, a lost request and a killed command.
LEMMA WaitingKeeps ==
  ASSUME IInv, StopServer \/ \E m \in Machine : Unreachable(m) \/ Lose(m) \/ Kill(m)
  PROVE  IInv'
<1>1. /\ awaited \in [Machine -> Requests \cup {None}] /\ abandoned \in [Machine -> Requests \cup {None}]
      /\ command \in [Machine -> Commands]
  BY DEF IInv, TypeOK, Commands
<1>2. \A k \in Machine : awaited[k] # None => [awaited[k] EXCEPT !.step = "failed"] \in Requests
  BY <1>1 DEF Requests, Answers
<1>3. CASE StopServer
  <2>1. /\ \A k \in Machine : awaited'[k] = awaited[k] \/
             (awaited[k] # None /\ awaited'[k] = [awaited[k] EXCEPT !.step = "failed"])
        /\ abandoned' = [k \in Machine |-> None] /\ command' = command /\ UNCHANGED commands /\ Fault
    BY <1>3 DEF StopServer
  <2>2. awaited' \in [Machine -> Requests \cup {None}]
    BY <1>1, <1>2, <1>3 DEF StopServer
  <2> QED
    BY <1>1, <1>3, <2>1, <2>2, SoftKeeps
<1>4. ASSUME NEW m \in Machine, Unreachable(m) \/ Lose(m) \/ Kill(m) PROVE IInv'
  <2>1. /\ UNCHANGED <<sourceVars, machineVars, commands>>
        /\ Fault \/ faults' = faults
        /\ command' \in {command, [command EXCEPT ![m] = Idle]}
    BY <1>4 DEF Unreachable, Lose, Kill, boundVars
  <2>2. \/ awaited' = [awaited EXCEPT ![m] = None]
        \/ awaited[m] # None /\ awaited' = [awaited EXCEPT ![m] = [awaited[m] EXCEPT !.step = "failed"]]
    <3>1. awaited' = [awaited EXCEPT ![m] = None] \/
          (awaited[m] # None /\ awaited' = [awaited EXCEPT ![m].step = "failed"])
      BY <1>4 DEF Unreachable, Unanswered, Lose, Kill
    <3> QED
      BY <1>1, <3>1
  <2>3. \/ abandoned' = abandoned
        \/ \E r \in {None, awaited[m]} : abandoned' = [abandoned EXCEPT ![m] = r]
    BY <1>4 DEF Unreachable, Lose, Kill, Leave
  <2>4. /\ awaited' \in [Machine -> Requests \cup {None}] /\ abandoned' \in [Machine -> Requests \cup {None}]
        /\ command' \in [Machine -> Commands]
    BY <1>1, <1>2, <2>1, <2>2, <2>3, IdleType
  <2>5. ASSUME NEW k \in Machine
        PROVE  /\ \/ awaited'[k] \in {awaited[k], None}
                  \/ awaited[k] # None /\ awaited'[k] = [awaited[k] EXCEPT !.step = "failed"]
               /\ abandoned'[k] \in {abandoned[k], None, awaited[k]}
               /\ command'[k] \in {command[k], Idle}
    BY <1>1, <2>1, <2>2, <2>3
  <2> QED
    BY <2>1, <2>4, <2>5, SoftKeeps
<1> QED
  BY <1>3, <1>4

\* The initial state satisfies the invariant.
LEMMA Initially == ASSUME Init PROVE IInv
<1>1. None \notin Credential /\ 0 \in 0..MaxCredentials /\ 0 \in 0..MaxFaults /\ 0 \in 0..MaxCommands
  BY ConstantsAssumption
<1>2. TypeOK
  <2>1. command \in [Machine -> Commands]
    BY IdleType DEF Init
  <2> QED
    BY <1>1, <2>1 DEF Init, TypeOK, Commands
<1>3. OneRole /\ Records
  BY DEF Init, OneRole, Records, Used, InvitationEnrollsOne, PendingIsExclusive, Rows
<1>4. ASSUME NEW m \in Machine PROVE Local(m)
  BY <1>4 DEF Init, Local, Asking, Commanded, Waiting, Answered, Clearing, Enrolled, Superseding,
              Pending, Complete, Idle, Enrolling, Having
<1>5. Owned
  <2> SUFFICES ASSUME NEW c \in Credential, NEW n \in Name PROVE ~Claimed(n, c)
    BY DEF Owned
  <2> QED
    BY <1>1 DEF Init, Claimed, ClaimedAt, Idle
<1> QED
  BY <1>2, <1>3, <1>4, <1>5 DEF IInv

\* Every step keeps it.
LEMMA NextKeeps == ASSUME IInv, [Next]_vars PROVE IInv'
<1>1. ASSUME NEW m \in Machine, NEW late \in BOOLEAN, Handle(m, late) PROVE IInv'
  <2>1. Asking(At(m, late))
    BY DEF IInv, At, Local
  <2>2. SourceTypes' /\ Records' /\ UNCHANGED sourceRole
    BY <1>1, <2>1, Settles DEF IInv
  <2>3. Types' /\ Owned' /\ \A k \in Machine : Local(k)'
    BY <1>1, HandleKeeps DEF IInv
  <2>4. OneRole'
    BY <1>1, <2>2, Serves DEF IInv, Records, OneRole, machineVars
  <2>5. TypeOK'
    BY <2>2, <2>3 DEF Types, SourceTypes, TypeOK, Commands
  <2> QED
    BY <2>2, <2>3, <2>4, <2>5 DEF IInv
<1>2. CASE UNCHANGED vars
  <2>1. SourceTypes' /\ Records' /\ \A m \in sourceRole' : config[m] = None
    BY <1>2, TypeParts, SameRecords DEF IInv, OneRole, SourceTypes, vars, sourceVars, machineVars, boundVars
  <2> QED
    BY <1>2, <2>1, TableKeeps DEF vars, sourceVars, machineVars, requestVars
<1>3. CASE \E m \in Machine : CommandOf(m)
  BY <1>3, CommandKeeps
<1>4. CASE StopServer \/ \E m \in Machine : Unreachable(m) \/ Lose(m) \/ Kill(m)
  BY <1>4, WaitingKeeps
<1>5. CASE \/ \E k \in Code : CreateInvitation(k) \/ Expire(k)
           \/ \E n \in Name : RevokeFollower(n)
           \/ StartServer
           \/ \E m \in Machine : SaveEnrollmentSource(m)
  BY <1>5, SourceKeeps
<1> QED
  BY <1>1, <1>2, <1>3, <1>4, <1>5 DEF Next, CommandOf

\* Whatever requests are lost, repeated or late, and whatever is killed, the
\* invariant holds.
LEMMA Always == Spec => []IInv
<1>1. Init => IInv
  BY Initially
<1>2. IInv /\ [Next]_vars => IInv'
  BY NextKeeps
<1> QED
  BY <1>1, <1>2, PTL DEF Spec

\* Every variable keeps its type.
THEOREM TypeCorrect == Spec => []TypeOK
BY Always, PTL DEF IInv

\* An invitation enrolls one follower, however many machines present it.
THEOREM InvitationsEnrollOne == Spec => []InvitationEnrollsOne
BY Always, PTL DEF IInv, Records

\* No identity is pending twice, or while it is enrolled.
THEOREM PendingEnrollmentsAreExclusive == Spec => []PendingIsExclusive
BY Always, PTL DEF IInv, Records

\* A machine is never both a Source and a Follower.
THEOREM MachinesHaveOneRole == Spec => []OneRole
BY Always, PTL DEF IInv

\* What a machine takes for a complete enrollment the Source has finalized.
THEOREM CompleteEnrollmentsAreFinalized == Spec => []CompleteIsEnrolled
<1>1. IInv => CompleteIsEnrolled
  BY DEF IInv, Local, Enrolled, CompleteIsEnrolled
<1> QED
  BY <1>1, Always, PTL

\* What the step of a command may remove.
Forgets(k) ==
  \/ Forget(k, config[k].cred) /\ command[k].pc \in {"resume", "leave"}
  \/ Forget(k, command[k].cred) /\ command[k].pc = "cancel"
  \/ Forget(k, command[k].previous.cred) /\ command[k].pc \in {"rotate", "retire"}

\* No step of a command removes another credential.
LEMMA CommandForgets ==
  ASSUME TypeOK, NEW k \in Machine, CommandOf(k)
  PROVE  Forgets(k) \/ \A m \in Machine : items[m] \subseteq items'[m]
<1> USE DEF machineVars
<1>1. items \in [Machine -> SUBSET Credential]
  BY DEF TypeOK
<1>2. CASE items' = items
  BY <1>2
<1>3. CASE Resume(k)
  BY <1>2, <1>3 DEF Resume, Got, Discard, Forgets
<1>4. CASE Prepared(k)
  BY <1>1, <1>2, <1>4 DEF Prepared
<1>5. CASE Cancelled(k)
  BY <1>2, <1>5 DEF Cancelled, Got, Discard, Forgets
<1>6. CASE Retire(k)
  BY <1>2, <1>6 DEF Retire, Got, Discard, Forgets
<1>7. CASE Left(k)
  BY <1>2, <1>7 DEF Left, Got, Forgets
<1>8. CASE Save(k) \/ Finalized(k) \/ Clear(k) \/ RemoveConfiguration(k) \/ BeginUnenroll(k)
           \/ \E n \in Name, c \in Code, replace \in BOOLEAN : BeginEnroll(k, n, c, replace)
  BY <1>2, <1>8 DEF Save, Finalized, Clear, RemoveConfiguration, BeginUnenroll, BeginEnroll
<1> QED
  BY <1>3, <1>4, <1>5, <1>6, <1>7, <1>8 DEF CommandOf, CommandStep

\* Only `follower unenroll` removes the credential of a complete enrollment.
THEOREM CredentialsAreKept == Spec => CredentialKept
<1>1. ASSUME IInv, [Next]_vars, NEW m \in Machine, Complete(m), config[m].cred \in items[m] \ items'[m]
      PROVE  command[m].pc = "leave"
  <2>1. config[m] # None /\ ~config[m].pending /\ items \in [Machine -> SUBSET Credential]
    BY <1>1 DEF Complete, IInv, TypeOK
  <2>2. PICK k \in Machine : CommandOf(k)
    <3>1. ASSUME NEW k \in Machine, NEW late \in BOOLEAN, Handle(k, late) PROVE items' = items
      BY <1>1, <3>1, Serves DEF IInv, Records, machineVars
    <3> QED
      BY <1>1, <3>1 DEF Next, CommandOf, CreateInvitation, Expire, RevokeFollower, StopServer, StartServer,
         Unreachable, Lose, Kill, SaveEnrollmentSource, vars, machineVars
  <2>3. Forgets(k)
    BY <1>1, <2>2, CommandForgets DEF IInv
  <2>4. k = m
    BY <1>1, <2>1, <2>3 DEF Forgets, Forget
  <2>5. command[m].pc # "resume"
    BY <1>1, <2>1 DEF IInv, Local, Commanded, Pending
  <2>6. command[m].pc = "cancel" => command[m].cred # config[m].cred
    BY <1>1, <2>1 DEF IInv, Local, Superseding
  <2>7. command[m].pc \in {"rotate", "retire"} => command[m].previous.cred # config[m].cred
    BY <1>1, <2>1 DEF IInv, Local, Superseding
  <2>8. ASSUME NEW c, Forget(m, c) PROVE config[m].cred = c
    BY <1>1, <2>1, <2>8 DEF Forget
  <2> QED
    BY <2>3, <2>4, <2>5, <2>6, <2>7, <2>8 DEF Forgets
<1>2. IInv /\ [Next]_vars => [\A m \in Machine :
         Complete(m) /\ config[m].cred \in items[m] \ items'[m] => command[m].pc = "leave"]_vars
  BY <1>1
<1> QED
  BY <1>2, Always, PTL DEF Spec, CredentialKept
=============================================================================
