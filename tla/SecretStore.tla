----------------------------- MODULE SecretStore -----------------------------
(***************************************************************************)
(* The secrets of a machine (src/src/secrets/secret-store.ts): a manifest  *)
(* file that gives every name an owner and a reference, and the native     *)
(* credential store that holds the values.  The two are changed one after  *)
(* the other, and a value the manifest no longer names is first queued in  *)
(* the manifest and then removed.                                          *)
(*                                                                         *)
(* Every operation that changes something runs under withRunLock on the    *)
(* manifest and refuses when the lock is held, so one operation is in      *)
(* progress at a time (RunLock.tla is about that lock); a killed           *)
(* operation leaves a stale lock, which the next one takes over.           *)
(*                                                                         *)
(* Abstractions: a stored value is its reference, which is never used      *)
(* twice; size and name limits only refuse; what a failed operation        *)
(* created is removed in one step with the failure, all of it or, where a  *)
(* removal fails too or the process is killed meanwhile, some of it.       *)
(***************************************************************************)
EXTENDS Naturals, FiniteSets

CONSTANTS
  Name,           \* the names of secrets
  MaxItems,       \* bound: values stored in the native store
  MaxFaults,      \* bound: failures and kills
  MayStayUnconfirmed, \* may atomicWrite fail after it replaced the file?
  Absent          \* no secret

Item == 1..MaxItems

ASSUME ConstantsAssumption ==
  /\ MaxItems \in Nat /\ MaxFaults \in Nat
  /\ MayStayUnconfirmed \in BOOLEAN
  /\ Absent \notin [origin : {"local", "source"}, value : Item]

VARIABLES
  secrets,   \* manifest: the entries
  queue,     \* manifest: retiredReferences
  items,     \* what the native store holds
  used,      \* how many references were given out
  op,        \* the operation in progress
  faults,
  leaked,    \* history: items that failed or killed operations left behind
  named      \* history: items that the manifest ever named

vars == <<secrets, queue, items, used, op, faults, leaked, named>>

Entry == [name : Name, item : Item, origin : {"local", "source"}]

\* An operation: where it is, what it still stores, what it created, what
\* the manifest becomes, what it still removes and what it could not remove.
At(pc, kind, names, next, retired) ==
  [pc |-> pc, kind |-> kind, names |-> names, created |-> {}, next |-> next,
   retired |-> retired, failed |-> {}]
None == At("idle", "none", {}, {}, {})

Items(es) == {e.item : e \in es}
Names(es) == {e.name : e \in es}

Fault == faults < MaxFaults /\ faults' = faults + 1

Init ==
  /\ secrets = {}
  /\ queue = {}
  /\ items = {}
  /\ used = 0
  /\ op = None
  /\ faults = 0
  /\ leaked = {}
  /\ named = {}

Mine == {e \in secrets : e.origin = "local"}
Theirs == {e \in secrets : e.origin = "source"}

-----------------------------------------------------------------------------
(* How each operation begins, with the manifest it reads.                  *)

Begin(o) ==
  /\ op.pc = "idle"
  /\ op' = o
  /\ UNCHANGED <<secrets, queue, items, used, faults, leaked, named>>

\* Mutant: the user replaces a secret of the Source's.
MutantStoreSecret(n) ==
  LET previous == {e \in secrets : e.name = n} IN
  Begin(At("create", "store", {n}, secrets \ previous, queue \cup Items(previous)))

\* storeSecret: a name of the Source's is refused, and the values of the
\* other local secrets are read to measure what would be shared.
StoreSecret(n) ==
  /\ n \notin Names(Theirs)
  /\ Items({e \in Mine : e.name # n}) \subseteq items
  /\ LET previous == {e \in secrets : e.name = n} IN
     Begin(At("create", "store", {n}, secrets \ previous, queue \cup Items(previous)))

RemoveSecret(n) ==
  /\ n \in Names(secrets)
  /\ LET existing == {e \in secrets : e.name = n} IN
     Begin(At("write", "remove", {}, secrets \ existing, queue \cup Items(existing)))

ClearTransferredSecrets ==
  /\ Theirs # {} \/ queue # {}
  /\ Begin(At("write", "clear", {}, Mine, queue \cup Items(Theirs)))

\* loadSharedSecrets and applyTransferredSecrets first remove what is queued.
LoadSharedSecrets ==
  /\ queue # {}
  /\ Begin(At("remove", "load", {}, secrets, queue))

ApplyTransferredSecrets(incoming) ==
  Begin(At(IF queue = {} THEN "merge" ELSE "remove", "clean", incoming, secrets, queue))

-----------------------------------------------------------------------------
(* The steps of an operation.                                              *)

End == op' = None

\* Mutant: a transfer does not look for local secrets of the same name.
MutantMerge ==
  /\ op.pc = "merge"
  /\ op' = [op EXCEPT !.pc = "create", !.kind = "apply", !.next = Mine,
                      !.retired = Items(Theirs), !.failed = {}]
  /\ UNCHANGED <<secrets, queue, items, used, faults, leaked, named>>

\* A local secret of an incoming name refuses the whole transfer.
Merge ==
  /\ op.pc = "merge"
  /\ IF op.names \cap Names(Mine) # {} THEN End
     ELSE op' = [op EXCEPT !.pc = "create", !.kind = "apply", !.next = Mine,
                           !.retired = Items(Theirs), !.failed = {}]
  /\ UNCHANGED <<secrets, queue, items, used, faults, leaked, named>>

\* Mutant: a failed operation also removes what it was about to retire.
MutantCleaned(stay) == items \ ((Items(op.created) \cup op.retired) \ stay)

\* cleanupReferences of what a failed operation created: the failure of a
\* removal is ignored, and its value stays.
Cleaned(stay) == items \ (Items(op.created) \ stay)

\* A storeCredential that fails or is killed may have made its item before.
HalfStored(made) ==
  \/ made = {} /\ used' = used
  \/ /\ op.pc = "create" /\ op.names # {} /\ used < MaxItems
     /\ made = {used + 1} /\ used' = used + 1

Origin == IF op.kind = "store" THEN "local" ELSE "source"

\* storeValue for one name after the other.
Create ==
  /\ op.pc = "create"
  /\ op.names # {}
  /\ \/ /\ used < MaxItems
        /\ used' = used + 1
        /\ items' = items \cup {used + 1}
        /\ \E n \in op.names :
             op' = [op EXCEPT !.names = @ \ {n},
                              !.created = @ \cup {[name |-> n, item |-> used + 1,
                                                   origin |-> Origin]}]
        /\ UNCHANGED <<faults, leaked>>
     \/ /\ Fault                         \* the native store fails
        /\ \E stay \in SUBSET Items(op.created), made \in {{}, {used + 1}} :
             /\ HalfStored(made)
             /\ items' = Cleaned(stay) \cup made
             /\ leaked' = leaked \cup stay \cup made
        /\ End
  /\ UNCHANGED <<secrets, queue, named>>

Created ==
  /\ op.pc = "create"
  /\ op.names = {}
  /\ op' = [op EXCEPT !.pc = "write", !.next = @ \cup op.created]
  /\ UNCHANGED <<secrets, queue, items, used, faults, leaked, named>>

\* What writeManifest leaves in the queue: no reference that is in use.
Queued == op.retired \ Items(op.next)

\* writeManifest with the new entries and, queued, what they supersede.  A
\* write that fails is taken for one that wrote nothing: what the operation
\* created is removed again.
WriteManifest ==
  /\ op.pc = "write"
  /\ \/ /\ secrets' = op.next
        /\ queue' = Queued
        /\ IF op.retired = {} THEN End ELSE op' = [op EXCEPT !.pc = "remove"]
        /\ UNCHANGED <<items, faults, leaked>>
     \/ /\ Fault
        /\ \/ UNCHANGED <<secrets, queue>>
           \/ MayStayUnconfirmed /\ secrets' = op.next /\ queue' = Queued
        /\ \E stay \in SUBSET Items(op.created) :
             /\ items' = Cleaned(stay)
             /\ leaked' = leaked \cup (stay \ Items(secrets'))
        /\ End
  /\ named' = named \cup Items(secrets')
  /\ UNCHANGED used

\* removeRetiredReferences: one removal after the other, and then the
\* manifest with those that failed, their value removed or not.
RemoveItem ==
  /\ op.pc = "remove"
  /\ \E i \in op.retired :
       \/ /\ items' = items \ {i}
          /\ op' = [op EXCEPT !.retired = @ \ {i}]
          /\ UNCHANGED faults
       \/ /\ Fault
          /\ op' = [op EXCEPT !.retired = @ \ {i}, !.failed = @ \cup {i}]
          /\ items' = items \/ items' = items \ {i}
  /\ UNCHANGED <<secrets, queue, used, leaked, named>>

\* Mutant: what could not be removed is forgotten.
MutantStillQueued == {}

StillQueued == op.failed

Removed ==
  /\ op.pc = "remove"
  /\ op.retired = {}
  /\ \/ /\ secrets' = op.next
        /\ queue' = StillQueued
        /\ IF op.kind = "clean" /\ op.failed = {}
           THEN op' = [op EXCEPT !.pc = "merge"]
           ELSE End
        /\ UNCHANGED faults
     \/ /\ Fault
        /\ End
        /\ \/ UNCHANGED <<secrets, queue>>
           \/ MayStayUnconfirmed /\ secrets' = op.next /\ queue' = StillQueued
  /\ UNCHANGED <<items, used, leaked, named>>

\* The process is killed: what it created and did not name stays behind.
Kill ==
  /\ op.pc # "idle"
  /\ Fault
  /\ \E made \in {{}, {used + 1}} :
       /\ HalfStored(made)
       /\ items' = items \cup made
       /\ leaked' = leaked \cup made \cup (Items(op.created) \ Items(secrets))
  /\ End
  /\ UNCHANGED <<secrets, queue, named>>

Next ==
  \/ \E n \in Name : StoreSecret(n) \/ RemoveSecret(n)
  \/ ClearTransferredSecrets \/ LoadSharedSecrets
  \/ \E incoming \in SUBSET Name : ApplyTransferredSecrets(incoming)
  \/ Merge \/ Create \/ Created \/ WriteManifest \/ RemoveItem \/ Removed
  \/ Kill

Spec == Init /\ [][Next]_vars

-----------------------------------------------------------------------------
Operation ==
  [pc : {"idle", "merge", "create", "write", "remove"},
   kind : {"none", "store", "remove", "clear", "load", "clean", "apply"},
   names : SUBSET Name, created : SUBSET Entry, next : SUBSET Entry,
   retired : SUBSET Item, failed : SUBSET Item]

\* Every variable keeps its type, and the manifest gives a name one entry.
TypeOK ==
  /\ secrets \subseteq Entry
  /\ \A d, e \in secrets : d.name = e.name => d = e
  /\ queue \subseteq Item
  /\ items \subseteq Item
  /\ used \in 0..MaxItems
  /\ op \in Operation
  /\ faults \in 0..MaxFaults
  /\ leaked \subseteq Item
  /\ named \subseteq Item

\* Every name in the manifest has its value in the native store: a launcher
\* that binds a secret by name finds it.
EntriesResolve == Items(secrets) \subseteq items

\* A stored value is in use, queued for removal, in the hands of the operation
\* in progress, or left behind by one that failed or was killed; and one that
\* the manifest ever named is in use or queued until it is removed, whatever
\* fails or is killed, removals and cleanups included.
NothingUnnamed ==
  /\ items \subseteq Items(secrets) \cup queue \cup Items(op.created) \cup leaked
  /\ items \cap named \subseteq Items(secrets) \cup queue

\* The map the users see: the manifest's names with the values they refer to.
Seen ==
  [n \in Name |->
    IF n \notin Names(secrets) THEN Absent
    ELSE LET e == CHOOSE e \in secrets : e.name = n IN
         [origin |-> e.origin, value |-> IF e.item \in items THEN e.item ELSE 0]]

Map == INSTANCE SecretMap WITH Value <- Item, secrets <- Seen

\* Operations that fail or are killed anywhere change the map at once or not
\* at all, and no transfer touches a secret of the user's.
ImplementsSecretMap == Map!Spec
=============================================================================
