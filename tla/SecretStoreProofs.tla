-------------------------- MODULE SecretStoreProofs --------------------------
(***************************************************************************)
(* What TLAPS proves of the secret store for every set of names and any    *)
(* number of values, failures and kills: its types, and that the manifest  *)
(* and the native store stay together, provided that a failed write of the *)
(* manifest has written nothing (`Confirmed`), which the code assumes.     *)
(*                                                                         *)
(* The inductive invariant Together says per phase of the operation in     *)
(* progress what the two halves owe each other: while values are created,  *)
(* they are apart from all the manifest names; the manifest an operation   *)
(* is about to write names only stored values, and queues each old one it  *)
(* does not name; what is removed is not named.                            *)
(*                                                                         *)
(* From the same invariant the store implements the map of SecretMap: an   *)
(* operation that fails or is killed anywhere changes all that the users   *)
(* see at once, when it writes the manifest, or nothing.  Beside Together  *)
(* that needs to know, when the manifest is written, which change of the   *)
(* map the operation is about (Intended).                                  *)
(***************************************************************************)
EXTENDS SecretStore, TLAPS

\* A manifest with one entry per name and one per value.
OneToOne(es) == \A d, e \in es : d.name = e.name \/ d.item = e.item => d = e

\* References are given out in order, and nothing has one still to come.
Given ==
  items \cup queue \cup Items(secrets) \cup Items(op.created) \cup Items(op.next)
    \cup op.retired \cup op.failed \cup named \subseteq 1..used

\* Leftovers are gone and nothing is created yet.
InMerge == op.pc = "merge" =>
  /\ op.kind = "clean" /\ op.created = {} /\ op.failed = {}
  /\ queue = {}

\* The values created so far are apart from all that the manifest names.
InCreate == op.pc = "create" =>
  /\ op.kind \in {"store", "apply"}
  /\ op.next \subseteq secrets
  /\ op.names \cap (Names(op.next) \cup Names(op.created)) = {}
  /\ OneToOne(op.created) /\ Names(op.created) \cap Names(op.next) = {}
  /\ Items(op.created) \subseteq items
  /\ Items(op.created) \cap (Items(secrets) \cup queue \cup op.retired) = {}
  /\ op.retired \cap Items(op.next) = {}
  /\ Items(secrets) \cup queue \subseteq Items(op.next) \cup op.retired
  /\ op.failed = {}

\* The manifest to write names stored values and queues those it drops.
InWrite == op.pc = "write" =>
  /\ op.kind \notin {"clean", "load"}
  /\ OneToOne(op.next)
  /\ op.created \subseteq op.next
  /\ Items(op.next) \subseteq items
  /\ Items(op.created) \cap (Items(secrets) \cup queue) = {}
  /\ op.retired \cap Items(op.next) = {}
  /\ Items(secrets) \cup queue \subseteq Items(op.next) \cup op.retired
  /\ op.failed = {}

\* What is removed is not named.
InRemove == op.pc = "remove" =>
  /\ op.next = secrets
  /\ op.created \subseteq secrets
  /\ op.kind = "clean" => op.created = {}
  /\ (op.retired \cup op.failed) \cap Items(secrets) = {}
  /\ queue \cap items \subseteq op.retired \cup op.failed

\* The manifest has one entry per name and value, and none of those is queued
\* or was never named.
Manifest ==
  /\ op.pc = "idle" => op = None
  /\ OneToOne(secrets)
  /\ Items(secrets) \cap queue = {}
  /\ Items(secrets) \subseteq named

\* The inductive invariant.
Together ==
  /\ TypeOK /\ Given /\ Manifest
  /\ EntriesResolve /\ NothingUnnamed
  /\ InMerge /\ InCreate /\ InWrite /\ InRemove

\* At first the store is empty.
LEMMA Initially == Init => Together
<1> SUFFICES ASSUME Init PROVE Together
  OBVIOUS
<1> USE ConstantsAssumption DEF Init, None, At, Items, Names
<1>1. TypeOK
  BY DEF TypeOK, Operation, Entry, Item
<1>2. Given
  BY DEF Given
<1>3. Manifest /\ EntriesResolve /\ NothingUnnamed
  BY DEF Manifest, OneToOne, EntriesResolve, NothingUnnamed
<1>4. InMerge /\ InCreate /\ InWrite /\ InRemove
  BY DEF InMerge, InCreate, InWrite, InRemove
<1> QED
  BY <1>1, <1>2, <1>3, <1>4 DEF Together

\* Where nothing changes, nothing is lost.
LEMMA Stuttering == Together /\ UNCHANGED vars => Together'
<1> SUFFICES ASSUME Together, UNCHANGED vars PROVE Together'
  OBVIOUS
<1> USE DEF vars
<1>1. TypeOK' /\ Given'
  BY DEF Together, TypeOK, Given
<1>2. Manifest' /\ EntriesResolve' /\ NothingUnnamed'
  BY DEF Together, Manifest, EntriesResolve, NothingUnnamed
<1>3. InMerge' /\ InCreate' /\ InWrite' /\ InRemove'
  BY DEF Together, InMerge, InCreate, InWrite, InRemove
<1> QED
  BY <1>1, <1>2, <1>3 DEF Together

\* An operation begins with the manifest it read: what it will write or
\* remove comes from there, and it has created nothing.
Proper(o) ==
  /\ o \in Operation /\ o.pc # "idle"
  /\ o.created = {} /\ o.failed = {}
  /\ o.next \subseteq secrets /\ o.retired \subseteq queue \cup Items(secrets)
  /\ o.pc = "merge" => o.kind = "clean" /\ queue = {}
  /\ o.pc = "create" => o.kind = "store" /\ o.names \cap Names(o.next) = {}
  /\ o.pc \in {"create", "write"} =>
       /\ o.kind \notin {"clean", "load"}
       /\ o.retired \cap Items(o.next) = {}
       /\ Items(secrets) \cup queue \subseteq Items(o.next) \cup o.retired
  /\ o.pc = "remove" => o.next = secrets /\ o.retired = queue

\* An operation begins with what the manifest says.
LEMMA BeginKeeps == ASSUME Together, NEW o, Proper(o), Begin(o) PROVE Together'
<1> USE DEF Together, Begin, Proper, Items, Names
<1>1. TypeOK'
  BY DEF TypeOK
<1>2. Given'
  BY DEF Given
<1>3. Manifest' /\ EntriesResolve'
  BY DEF Manifest, EntriesResolve
<1>4. NothingUnnamed'
  BY DEF NothingUnnamed, Manifest, None, At
<1>5. InMerge' /\ InRemove'
  BY DEF InMerge, InRemove, Manifest
<1>6. InCreate' /\ InWrite'
  BY DEF InCreate, InWrite, Manifest, OneToOne, EntriesResolve
<1> QED
  BY <1>1, <1>2, <1>3, <1>4, <1>5, <1>6

\* What leaves the manifest shares no value with what stays in it.
LEMMA Split ==
  ASSUME Together, NEW gone \in SUBSET secrets
  PROVE  /\ Items(secrets) = Items(gone) \cup Items(secrets \ gone)
         /\ Items(gone) \cap Items(secrets \ gone) = {}
         /\ queue \cap Items(secrets \ gone) = {}
BY DEF Together, Manifest, OneToOne, Items

\* Storing begins by creating one value.
LEMMA StoreSecretKeeps ==
  ASSUME Together, NEW n \in Name, StoreSecret(n) PROVE Together'
<1> DEFINE previous == {e \in secrets : e.name = n}
           o == At("create", "store", {n}, secrets \ previous, queue \cup Items(previous))
<1>1. previous \in SUBSET secrets /\ n \notin Names(secrets \ previous)
  BY DEF Names
<1> HIDE DEF previous
<1>2. /\ Items(secrets) = Items(previous) \cup Items(secrets \ previous)
      /\ Items(previous) \cap Items(secrets \ previous) = {}
      /\ queue \cap Items(secrets \ previous) = {}
  BY <1>1, Split
<1>3. Items(secrets) \subseteq Item /\ queue \subseteq Item /\ secrets \subseteq Entry
  BY DEF Items, Together, TypeOK, Entry
<1>4. o \in Operation
  BY <1>1, <1>2, <1>3 DEF Operation, At
<1>5. Proper(o)
  BY <1>1, <1>2, <1>4 DEF Proper, At
<1> QED
  BY <1>5, BeginKeeps DEF StoreSecret, previous

\* Removing begins by writing the manifest.
LEMMA RemoveSecretKeeps ==
  ASSUME Together, NEW n \in Name, RemoveSecret(n) PROVE Together'
<1> DEFINE existing == {e \in secrets : e.name = n}
           o == At("write", "remove", {}, secrets \ existing, queue \cup Items(existing))
<1>1. existing \in SUBSET secrets
  BY DEF Names
<1> HIDE DEF existing
<1>2. /\ Items(secrets) = Items(existing) \cup Items(secrets \ existing)
      /\ Items(existing) \cap Items(secrets \ existing) = {}
      /\ queue \cap Items(secrets \ existing) = {}
  BY <1>1, Split
<1>3. Items(secrets) \subseteq Item /\ queue \subseteq Item /\ secrets \subseteq Entry
  BY DEF Items, Together, TypeOK, Entry
<1>4. o \in Operation
  BY <1>1, <1>2, <1>3 DEF Operation, At
<1>5. Proper(o)
  BY <1>1, <1>2, <1>4 DEF Proper, At
<1> QED
  BY <1>5, BeginKeeps DEF RemoveSecret, existing

\* Clearing begins by writing the manifest.
LEMMA ClearKeeps == ASSUME Together, ClearTransferredSecrets PROVE Together'
<1> DEFINE o == At("write", "clear", {}, Mine, queue \cup Items(Theirs))
<1>1. Theirs \in SUBSET secrets /\ Mine = secrets \ Theirs
  BY DEF Together, TypeOK, Entry, Mine, Theirs
<1>2. /\ Items(secrets) = Items(Theirs) \cup Items(Mine)
      /\ Items(Theirs) \cap Items(Mine) = {}
      /\ queue \cap Items(Mine) = {}
  BY <1>1, Split
<1>3. Items(secrets) \subseteq Item /\ queue \subseteq Item /\ secrets \subseteq Entry
  BY DEF Items, Together, TypeOK, Entry
<1>4. o \in Operation
  BY <1>1, <1>2, <1>3 DEF Operation, At
<1>5. Proper(o)
  BY <1>1, <1>2, <1>4 DEF Proper, At
<1> QED
  BY <1>5, BeginKeeps DEF ClearTransferredSecrets

\* Loading begins by removing what is queued.
LEMMA LoadKeeps == ASSUME Together, LoadSharedSecrets PROVE Together'
<1>1. Proper(At("remove", "load", {}, secrets, queue))
  BY DEF Together, TypeOK, Operation, At, Proper
<1> QED
  BY <1>1, BeginKeeps DEF LoadSharedSecrets

\* A transfer begins by removing what is queued.
LEMMA ApplyKeeps ==
  ASSUME Together, NEW incoming \in SUBSET Name, ApplyTransferredSecrets(incoming)
  PROVE  Together'
<1>1. CASE queue = {}
  <2>1. Proper(At("merge", "clean", incoming, secrets, queue))
    BY <1>1 DEF Together, TypeOK, Operation, At, Proper
  <2> QED
    BY <1>1, <2>1, BeginKeeps DEF ApplyTransferredSecrets
<1>2. CASE queue # {}
  <2>1. Proper(At("remove", "clean", incoming, secrets, queue))
    BY <1>2 DEF Together, TypeOK, Operation, At, Proper
  <2> QED
    BY <1>2, <2>1, BeginKeeps DEF ApplyTransferredSecrets
<1> QED
  BY <1>1, <1>2
\* An operation ends: nothing is owed any more but that the manifest and the
\* native store fit.
LEMMA EndKeeps ==
  ASSUME Together, End, secrets' = secrets, named' = named,
         used' \in used..MaxItems, faults' \in 0..MaxFaults, leaked' \subseteq Item,
         queue' \subseteq queue \cup op.failed, Items(secrets) \cap queue' = {},
         items' \subseteq 1..used', Items(secrets) \subseteq items',
         items' \subseteq Items(secrets) \cup queue' \cup leaked',
         items' \cap named \subseteq Items(secrets) \cup queue'
  PROVE  Together'
<1>1. used \in 0..MaxItems /\ MaxItems \in Nat
  BY ConstantsAssumption DEF Together, TypeOK
<1>2. used' \in 0..MaxItems /\ 1..used' \subseteq Item /\ 1..used \subseteq 1..used'
  BY <1>1 DEF Item
<1>3. op' = None /\ None.pc = "idle" /\ None.created = {} /\ None.next = {}
      /\ None.retired = {} /\ None.failed = {} /\ None \in Operation
  BY DEF End, None, At, Operation
<1>4. queue' \subseteq 1..used /\ Items(secrets) \subseteq 1..used /\ named \subseteq 1..used
  BY DEF Together, Given
<1>5. TypeOK'
  BY <1>2, <1>3, <1>4 DEF Together, TypeOK
<1>6. Given'
  BY <1>2, <1>3, <1>4 DEF Given, Items
<1>7. Manifest'
  BY <1>3 DEF Together, Manifest, OneToOne, Items
<1>8. EntriesResolve' /\ NothingUnnamed'
  BY <1>3 DEF EntriesResolve, NothingUnnamed, Items
<1>9. InMerge' /\ InCreate' /\ InWrite' /\ InRemove'
  BY <1>3 DEF InMerge, InCreate, InWrite, InRemove
<1> QED
  BY <1>5, <1>6, <1>7, <1>8, <1>9 DEF Together

\* What a store that did not finish may have made is new.
LEMMA HalfStoredIsNew ==
  ASSUME Together, NEW made, HalfStored(made)
  PROVE  /\ used' \in used..MaxItems
         /\ made \subseteq 1..used' /\ made \subseteq Item
         /\ items \subseteq 1..used' /\ made \cap named = {}
<1>1. used \in 0..MaxItems /\ MaxItems \in Nat
  BY ConstantsAssumption DEF Together, TypeOK
<1>2. items \subseteq 1..used /\ named \subseteq 1..used
  BY DEF Together, Given
<1>3. CASE made = {} /\ used' = used
  BY <1>1, <1>2, <1>3
<1>4. CASE used < MaxItems /\ made = {used + 1} /\ used' = used + 1
  BY <1>1, <1>2, <1>4 DEF Item
<1> QED
  BY <1>3, <1>4 DEF HalfStored

\* A killed operation leaves the manifest and the native store as they are,
\* but for a value that was just being stored.
LEMMA KillKeeps == ASSUME Together, Kill PROVE Together'
<1>1. faults' \in 0..MaxFaults
  BY ConstantsAssumption DEF Together, TypeOK, Kill, Fault
<1>2. Items(op.created) \subseteq Item /\ leaked \subseteq Item
  BY DEF Together, TypeOK, Operation, Entry, Items
<1>3. PICK made :
        /\ HalfStored(made)
        /\ items' = items \cup made
        /\ leaked' = leaked \cup made \cup (Items(op.created) \ Items(secrets))
  BY DEF Kill
<1>4. /\ used' \in used..MaxItems /\ made \subseteq 1..used' /\ made \subseteq Item
      /\ items \subseteq 1..used' /\ made \cap named = {}
  BY <1>3, HalfStoredIsNew
<1>5. leaked' \subseteq Item
  BY <1>2, <1>3, <1>4
<1>6. /\ items' \subseteq Items(secrets) \cup queue \cup leaked'
      /\ items' \cap named \subseteq Items(secrets) \cup queue
  BY <1>3, <1>4 DEF Together, NothingUnnamed
<1>7. Items(secrets) \subseteq items' /\ items' \subseteq 1..used'
  BY <1>3, <1>4 DEF Together, EntriesResolve
<1> QED
  BY <1>1, <1>4, <1>5, <1>6, <1>7, EndKeeps DEF Together, Manifest, Kill

\* A failed operation that has created values apart from the manifest, some
\* of which its cleanup may leave.
LEMMA FailureKeeps ==
  ASSUME Together, Fault, End,
         UNCHANGED <<secrets, queue, named>>,
         Items(op.created) \cap Items(secrets) = {},
         NEW stay \in SUBSET Items(op.created), NEW made, HalfStored(made),
         items' = Cleaned(stay) \cup made,
         leaked' = leaked \cup stay \cup made
  PROVE  Together'
<1>1. faults' \in 0..MaxFaults
  BY ConstantsAssumption DEF Together, TypeOK, Fault
<1>2. Items(op.created) \subseteq Item /\ leaked \subseteq Item
  BY DEF Together, TypeOK, Operation, Entry, Items
<1>3. /\ used' \in used..MaxItems /\ made \subseteq 1..used' /\ made \subseteq Item
      /\ items \subseteq 1..used' /\ made \cap named = {}
  BY HalfStoredIsNew
<1>4. leaked' \subseteq Item
  BY <1>2, <1>3
<1>5. Items(secrets) \subseteq items' /\ items' \subseteq 1..used'
  BY <1>3 DEF Together, EntriesResolve, Cleaned
<1>6. /\ items' \subseteq Items(secrets) \cup queue \cup leaked'
      /\ items' \cap named \subseteq Items(secrets) \cup queue
  BY <1>3 DEF Together, NothingUnnamed, Cleaned
<1> QED
  BY <1>1, <1>3, <1>4, <1>5, <1>6, EndKeeps DEF Together, Manifest

\* An operation that ends and leaves the native store as it is.
LEMMA StopKeeps ==
  ASSUME Together, End, faults' \in 0..MaxFaults,
         UNCHANGED <<secrets, items, used, leaked, named>>,
         queue' \subseteq queue \cup op.failed, Items(secrets) \cap queue' = {},
         items \subseteq Items(secrets) \cup queue' \cup leaked,
         items \cap named \subseteq Items(secrets) \cup queue'
  PROVE  Together'
<1>1. used' \in used..MaxItems /\ leaked' \subseteq Item
  BY ConstantsAssumption DEF Together, TypeOK
<1>2. items' \subseteq 1..used' /\ Items(secrets) \subseteq items'
  BY DEF Together, Given, EntriesResolve
<1> QED
  BY <1>1, <1>2, EndKeeps

\* A transfer keeps the entries of the user and begins to create.
LEMMA MergeKeeps == ASSUME Together, Merge PROVE Together'
<1>1. CASE op.names \cap Names(Mine) # {}
  <2>1. items \subseteq Items(secrets) \cup queue \cup leaked
    BY DEF Together, NothingUnnamed, InMerge, Merge, Items
  <2> QED
    BY <1>1, <2>1, StopKeeps DEF Together, Manifest, TypeOK, NothingUnnamed, Merge
<1>2. CASE op.names \cap Names(Mine) = {}
  <2>1. op \in Operation /\ secrets \subseteq Entry
    BY DEF Together, TypeOK
  <2>2. /\ Theirs \in SUBSET secrets /\ Mine = secrets \ Theirs
        /\ Items(Theirs) \subseteq Item
    BY <2>1 DEF Entry, Mine, Theirs, Items
  <2>3. op.created = {} /\ op.failed = {} /\ queue = {} /\ op.pc = "merge"
    BY DEF Together, InMerge, Merge
  <2>4. /\ op' = [op EXCEPT !.pc = "create", !.kind = "apply", !.next = Mine,
                            !.retired = Items(Theirs), !.failed = {}]
        /\ UNCHANGED <<secrets, queue, items, used, faults, leaked, named>>
    BY <1>2 DEF Merge
  <2>5. Mine \in SUBSET Entry
    BY <2>1, <2>2
  <2>6. op' \in Operation
    BY <2>1, <2>2, <2>4, <2>5 DEF Operation
  <2>7. /\ op' \in Operation
        /\ op'.pc = "create" /\ op'.kind = "apply" /\ op'.names = op.names
        /\ op'.created = {} /\ op'.next = Mine /\ op'.retired = Items(Theirs)
        /\ op'.failed = {} /\ queue = {}
        /\ UNCHANGED <<secrets, queue, items, used, faults, leaked, named>>
    BY <2>1, <2>3, <2>4, <2>6 DEF Operation
  <2>8. /\ Items(secrets) = Items(Theirs) \cup Items(Mine)
        /\ Items(Theirs) \cap Items(Mine) = {}
    BY <2>2, Split
  <2>9. TypeOK'
    BY <2>7 DEF Together, TypeOK
  <2>10. Given'
    BY <2>7, <2>8, <2>3 DEF Together, Given, Items
  <2>11. Manifest' /\ EntriesResolve' /\ NothingUnnamed'
    BY <2>7, <2>3 DEF Together, Manifest, EntriesResolve, NothingUnnamed
  <2>12. InCreate'
    BY <1>2, <2>2, <2>7, <2>8 DEF InCreate, OneToOne, Items, Names
  <2> QED
    BY <2>7, <2>9, <2>10, <2>11, <2>12 DEF Together, InMerge, InWrite, InRemove
<1> QED
  BY <1>1, <1>2

\* A value that is created is new.
LEMMA CreateKeeps == ASSUME Together, Create PROVE Together'
<1>1. /\ op \in Operation /\ items \subseteq Item /\ used \in 0..MaxItems
      /\ op.pc = "create"
  BY DEF Together, TypeOK, Create
<1>2. /\ op.kind \in {"store", "apply"} /\ op.next \subseteq secrets
      /\ op.names \cap (Names(op.next) \cup Names(op.created)) = {}
      /\ OneToOne(op.created) /\ Names(op.created) \cap Names(op.next) = {}
      /\ Items(op.created) \subseteq items
      /\ Items(op.created) \cap (Items(secrets) \cup queue \cup op.retired) = {}
      /\ op.retired \cap Items(op.next) = {}
      /\ Items(secrets) \cup queue \subseteq Items(op.next) \cup op.retired
      /\ op.failed = {}
  BY <1>1 DEF Together, InCreate
<1>3. ASSUME Fault, End, NEW stay \in SUBSET Items(op.created), NEW made,
             HalfStored(made), items' = Cleaned(stay) \cup made,
             leaked' = leaked \cup stay \cup made
      PROVE  Together'
  BY <1>2, <1>3, FailureKeeps DEF Create
<1>4. ASSUME used < MaxItems, used' = used + 1, items' = items \cup {used + 1},
             UNCHANGED <<faults, leaked>>, NEW n \in op.names,
             op' = [op EXCEPT !.names = @ \ {n},
                              !.created = @ \cup {[name |-> n, item |-> used + 1,
                                                   origin |-> Origin]}]
      PROVE  Together'
  <2> DEFINE e == [name |-> n, item |-> used + 1, origin |-> Origin]
  <2>1. used + 1 \in Item
    BY <1>1, <1>4, ConstantsAssumption DEF Item
  <2>2. e \in Entry /\ e.name = n /\ e.item = used + 1
    BY <1>1, <1>4, <2>1 DEF Entry, Origin, Operation
  <2>3. op' = [op EXCEPT !.names = @ \ {n}, !.created = @ \cup {e}]
    BY <1>4
  <2> HIDE DEF e
  <2>4. /\ op' \in Operation
        /\ op'.pc = "create" /\ op'.kind = op.kind /\ op'.next = op.next
        /\ op'.names = op.names \ {n} /\ op'.created = op.created \cup {e}
        /\ op'.retired = op.retired /\ op'.failed = op.failed
    BY <1>1, <2>2, <2>3 DEF Operation
  <2>5. UNCHANGED <<secrets, queue, leaked, named, faults>>
    BY <1>4 DEF Create
  <2>6. /\ Items(op'.created) = Items(op.created) \cup {used + 1}
        /\ Names(op'.created) = Names(op.created) \cup {n}
    BY <2>2, <2>4 DEF Items, Names
  <2>7. used + 1 \notin items \cup queue \cup Items(secrets) \cup Items(op.created)
                         \cup Items(op.next) \cup op.retired \cup named
    BY <1>1 DEF Together, Given
  <2>8. OneToOne(op'.created)
    BY <1>2, <1>4, <2>2, <2>4, <2>7 DEF OneToOne, Items, Names
  <2>9. TypeOK'
    BY <1>1, <1>4, <2>1, <2>4, <2>5, ConstantsAssumption DEF Together, TypeOK
  <2>10. Given'
    BY <1>1, <1>4, <2>4, <2>5, <2>6 DEF Together, Given, Items
  <2>11. Manifest' /\ EntriesResolve' /\ NothingUnnamed'
    BY <1>4, <2>4, <2>5, <2>6, <2>7
       DEF Together, Manifest, OneToOne, EntriesResolve, NothingUnnamed, Items
  <2>12. InCreate'
    <3>1. op'.names \cap (Names(op'.next) \cup Names(op'.created)) = {}
      BY <1>2, <1>4, <2>4, <2>6
    <3>2. Names(op'.created) \cap Names(op'.next) = {}
      BY <1>2, <1>4, <2>4, <2>6
    <3>3. Items(op'.created) \cap (Items(secrets') \cup queue' \cup op'.retired) = {}
      <4>1. UNCHANGED <<secrets, queue>> /\ op'.retired = op.retired
        BY <2>4, <2>5
      <4>2. Items(op'.created) = Items(op.created) \cup {used + 1}
        BY <2>6
      <4>3. used + 1 \notin Items(secrets) \cup queue \cup op.retired
        BY <2>7
      <4>4. Items(op.created) \cap (Items(secrets) \cup queue \cup op.retired) = {}
        BY <1>2
      <4> QED
        BY <4>1, <4>2, <4>3, <4>4
    <3>4. Items(op'.created) \subseteq items'
      BY <1>2, <1>4, <2>6
    <3>5. Items(secrets') \cup queue' \subseteq Items(op'.next) \cup op'.retired
      BY <1>2, <2>4, <2>5
    <3> QED
      BY <1>2, <2>4, <2>5, <2>8, <3>1, <3>2, <3>3, <3>4, <3>5 DEF InCreate
  <2> QED
    BY <2>4, <2>9, <2>10, <2>11, <2>12 DEF Together, InMerge, InWrite, InRemove
<1> QED
  BY <1>3, <1>4 DEF Create

\* The manifest to write names all that was created.
LEMMA CreatedKeeps == ASSUME Together, Created PROVE Together'
<1>1. /\ op \in Operation /\ op.pc = "create"
      /\ secrets \subseteq Entry /\ OneToOne(secrets)
  BY DEF Together, TypeOK, Created, Manifest
<1>2. /\ op.kind \in {"store", "apply"} /\ op.next \subseteq secrets
      /\ OneToOne(op.created) /\ Names(op.created) \cap Names(op.next) = {}
      /\ Items(op.created) \subseteq items
      /\ Items(op.created) \cap (Items(secrets) \cup queue \cup op.retired) = {}
      /\ op.retired \cap Items(op.next) = {}
      /\ Items(secrets) \cup queue \subseteq Items(op.next) \cup op.retired
      /\ op.failed = {}
  BY <1>1 DEF Together, InCreate
<1>3. /\ op' = [op EXCEPT !.pc = "write", !.next = @ \cup op.created]
      /\ UNCHANGED <<secrets, queue, items, used, faults, leaked, named>>
  BY DEF Created
<1>4. /\ op' \in Operation
      /\ op'.pc = "write" /\ op'.kind = op.kind
      /\ op'.next = op.next \cup op.created /\ op'.created = op.created
      /\ op'.retired = op.retired /\ op'.failed = op.failed
  BY <1>1, <1>3 DEF Operation
<1>5. Items(op'.next) = Items(op.next) \cup Items(op.created)
  BY <1>4 DEF Items
<1>6. Items(op.next) \subseteq Items(secrets) /\ OneToOne(op.next)
  BY <1>1, <1>2 DEF Items, OneToOne
<1>7. OneToOne(op'.next)
  BY <1>2, <1>4, <1>6 DEF OneToOne, Items, Names
<1>8. TypeOK' /\ Given'
  BY <1>3, <1>4, <1>5 DEF Together, TypeOK, Given, Items
<1>9. Manifest' /\ EntriesResolve' /\ NothingUnnamed'
  BY <1>3, <1>4 DEF Together, Manifest, OneToOne, EntriesResolve, NothingUnnamed, Items
<1>10. InWrite'
  BY <1>2, <1>3, <1>4, <1>5, <1>6, <1>7 DEF Together, EntriesResolve, InWrite, Items
<1> QED
  BY <1>4, <1>8, <1>9, <1>10 DEF Together, InMerge, InCreate, InRemove

\* Under the assumption of the code: a failed write of the manifest has
\* written nothing.
Confirmed == MayStayUnconfirmed = FALSE

\* Once the manifest is written the values it dropped are queued.
LEMMA WriteManifestKeeps ==
  ASSUME Confirmed, Together, WriteManifest PROVE Together'
<1>1. /\ op \in Operation /\ op.pc = "write" /\ OneToOne(op.next)
      /\ op.kind \notin {"clean", "load"} /\ op.created \subseteq op.next
      /\ Items(op.next) \subseteq items
      /\ Items(op.created) \cap (Items(secrets) \cup queue) = {}
      /\ op.retired \cap Items(op.next) = {}
      /\ Items(secrets) \cup queue \subseteq Items(op.next) \cup op.retired
      /\ op.failed = {}
  BY DEF Together, TypeOK, InWrite, WriteManifest
<1>2. ASSUME Fault, End, UNCHANGED <<secrets, queue>>,
             NEW stay \in SUBSET Items(op.created), items' = Cleaned(stay),
             leaked' = leaked \cup (stay \ Items(secrets'))
      PROVE  Together'
  <2>1. Items(secrets') = Items(secrets)
    BY <1>2
  <2>2. HalfStored({})
    BY DEF HalfStored, WriteManifest
  <2>3. named' = named \cup Items(secrets)
    BY <2>1 DEF WriteManifest
  <2>4. items' = Cleaned(stay) \cup {} /\ leaked' = leaked \cup stay \cup {}
    BY <1>1, <1>2, <2>1
  <2> QED
    BY <1>1, <1>2, <2>2, <2>3, <2>4, FailureKeeps DEF Together, Manifest
<1>3. ASSUME secrets' = op.next, queue' = Queued, UNCHANGED <<items, faults, leaked>>,
             IF op.retired = {} THEN End ELSE op' = [op EXCEPT !.pc = "remove"]
      PROVE  Together'
  <2>1. queue' = op.retired /\ UNCHANGED <<items, faults, used, leaked>>
        /\ named' = named \cup Items(op.next)
    BY <1>1, <1>3 DEF Queued, WriteManifest
  <2>2. /\ op' \in Operation
        /\ \/ op' = None /\ op.retired = {}
           \/ /\ op'.pc = "remove" /\ op'.kind = op.kind /\ op'.next = op.next
              /\ op'.created = op.created /\ op'.retired = op.retired
              /\ op'.failed = {}
    BY <1>1, <1>3 DEF End, None, At, Operation
  <2>3. /\ None.pc = "idle" /\ None.created = {} /\ None.next = {}
        /\ None.retired = {} /\ None.failed = {}
    BY DEF None, At
  <2>4. secrets' \subseteq Entry /\ queue' \subseteq Item
    BY <1>1, <1>3, <2>1 DEF Operation
  <2>5. TypeOK'
    BY <1>1, <1>3, <2>1, <2>2, <2>4 DEF Together, TypeOK, OneToOne
  <2>6. Items(op'.created) \subseteq Items(op.next) /\ op'.created \subseteq op.next
    BY <1>1, <2>2, <2>3 DEF Items
  <2>7. Given'
    BY <1>1, <1>3, <2>1, <2>2, <2>3 DEF Together, Given, Items
  <2>8. Manifest' /\ EntriesResolve'
    BY <1>1, <1>3, <2>1, <2>2, <2>3 DEF Manifest, EntriesResolve
  <2>9. NothingUnnamed'
    BY <1>1, <1>3, <2>1, <2>6 DEF Together, NothingUnnamed, Items
  <2>10. InRemove'
    BY <1>1, <1>3, <2>1, <2>2, <2>3 DEF InRemove
  <2> QED
    BY <2>2, <2>3, <2>5, <2>7, <2>8, <2>9, <2>10
       DEF Together, InMerge, InCreate, InWrite
<1> QED
  BY <1>2, <1>3 DEF WriteManifest, Confirmed

\* A queued value is removed, or stays queued.
LEMMA RemoveItemKeeps == ASSUME Together, RemoveItem PROVE Together'
<1>1. /\ op \in Operation /\ op.pc = "remove"
      /\ op.next = secrets /\ op.created \subseteq secrets
      /\ op.kind = "clean" => op.created = {}
      /\ (op.retired \cup op.failed) \cap Items(secrets) = {}
      /\ queue \cap items \subseteq op.retired \cup op.failed
      /\ UNCHANGED <<secrets, queue, used, leaked, named>>
  BY DEF Together, TypeOK, InRemove, RemoveItem
<1>2. PICK i \in op.retired :
        \/ /\ items' = items \ {i}
           /\ op' = [op EXCEPT !.retired = @ \ {i}]
           /\ UNCHANGED faults
        \/ /\ Fault
           /\ op' = [op EXCEPT !.retired = @ \ {i}, !.failed = @ \cup {i}]
           /\ items' = items \/ items' = items \ {i}
  BY DEF RemoveItem
<1>3. i \in Item
  BY <1>1 DEF Operation
<1>4. /\ op' \in Operation /\ op'.pc = "remove" /\ op'.kind = op.kind
      /\ op'.next = op.next /\ op'.created = op.created
      /\ op'.retired = op.retired \ {i}
      /\ \/ op'.failed = op.failed /\ items' = items \ {i}
         \/ op'.failed = op.failed \cup {i} /\ items' \in {items, items \ {i}}
  <2>1. CASE op' = [op EXCEPT !.retired = @ \ {i}] /\ items' = items \ {i}
    BY <1>1, <2>1 DEF Operation
  <2>2. CASE /\ op' = [op EXCEPT !.retired = @ \ {i}, !.failed = @ \cup {i}]
             /\ items' = items \/ items' = items \ {i}
    BY <1>1, <1>3, <2>2 DEF Operation
  <2> QED
    BY <1>2, <2>1, <2>2
<1>5. faults' \in 0..MaxFaults
  BY <1>2, ConstantsAssumption DEF Together, TypeOK, Fault
<1>6. TypeOK'
  BY <1>1, <1>4, <1>5 DEF Together, TypeOK
<1>7. Given'
  BY <1>1, <1>2, <1>4 DEF Together, Given, Items
<1>8. Manifest' /\ EntriesResolve' /\ NothingUnnamed'
  BY <1>1, <1>4 DEF Together, Manifest, OneToOne, EntriesResolve, NothingUnnamed, Items
<1>9. InRemove'
  BY <1>1, <1>4 DEF InRemove
<1> QED
  BY <1>4, <1>6, <1>7, <1>8, <1>9 DEF Together, InMerge, InCreate, InWrite

\* What was removed leaves the queue.
LEMMA RemovedKeeps == ASSUME Confirmed, Together, Removed PROVE Together'
<1>1. /\ op \in Operation /\ op.pc = "remove" /\ op.retired = {}
      /\ op.next = secrets /\ op.created \subseteq secrets
      /\ op.kind = "clean" => op.created = {}
      /\ op.failed \cap Items(secrets) = {}
      /\ queue \cap items \subseteq op.failed
      /\ UNCHANGED <<items, used, leaked, named>>
  BY DEF Together, TypeOK, InRemove, Removed
<1>2. /\ items \subseteq Items(secrets) \cup queue \cup leaked
      /\ items \cap named \subseteq Items(secrets) \cup queue
  BY <1>1 DEF Together, NothingUnnamed, Items
<1>3. CASE Fault /\ End /\ UNCHANGED <<secrets, queue>>
  <2>1. faults' \in 0..MaxFaults
    BY <1>3, ConstantsAssumption DEF Together, TypeOK, Fault
  <2> QED
    BY <1>1, <1>2, <1>3, <2>1, StopKeeps DEF Together, Manifest
<1>4. CASE secrets' = op.next /\ queue' = StillQueued /\ End /\ UNCHANGED faults
  BY <1>1, <1>2, <1>4, StopKeeps DEF Together, TypeOK, StillQueued
<1>5. CASE /\ secrets' = op.next /\ queue' = StillQueued /\ UNCHANGED faults
           /\ op.kind = "clean" /\ op.failed = {}
           /\ op' = [op EXCEPT !.pc = "merge"]
  <2>1. /\ op' \in Operation /\ op'.pc = "merge" /\ op'.kind = "clean"
        /\ op'.created = {} /\ op'.failed = {} /\ op'.retired = {}
        /\ op'.next = op.next
    BY <1>1, <1>5 DEF Operation
  <2>2. secrets' = secrets /\ queue' = {} /\ UNCHANGED <<items, used, leaked, named, faults>>
    BY <1>1, <1>5 DEF StillQueued
  <2>3. TypeOK'
    BY <2>1, <2>2 DEF Together, TypeOK
  <2>4. Given'
    BY <1>1, <2>1, <2>2 DEF Together, Given, Items
  <2>5. Manifest' /\ EntriesResolve' /\ NothingUnnamed'
    BY <1>1, <1>2, <1>5, <2>1, <2>2
       DEF Together, Manifest, EntriesResolve, NothingUnnamed
  <2> QED
    BY <2>1, <2>2, <2>3, <2>4, <2>5 DEF Together, InMerge, InCreate, InWrite, InRemove
<1> QED
  BY <1>3, <1>4, <1>5 DEF Removed, Confirmed

\* No step of any operation, no failure and no kill takes the manifest and
\* the native store apart.
LEMMA Inductive == ASSUME Confirmed PROVE Together /\ [Next]_vars => Together'
<1> SUFFICES ASSUME Together, [Next]_vars PROVE Together'
  OBVIOUS
<1>1. ASSUME NEW n \in Name, StoreSecret(n) \/ RemoveSecret(n) PROVE Together'
  BY <1>1, StoreSecretKeeps, RemoveSecretKeeps
<1>2. CASE ClearTransferredSecrets \/ LoadSharedSecrets
  BY <1>2, ClearKeeps, LoadKeeps
<1>3. ASSUME NEW incoming \in SUBSET Name, ApplyTransferredSecrets(incoming)
      PROVE  Together'
  BY <1>3, ApplyKeeps
<1>4. CASE Merge
  BY <1>4, MergeKeeps
<1>5. CASE Create \/ Created
  BY <1>5, CreateKeeps, CreatedKeeps
<1>6. CASE WriteManifest
  BY <1>6, WriteManifestKeeps
<1>7. CASE RemoveItem \/ Removed
  BY <1>7, RemoveItemKeeps, RemovedKeeps
<1>8. CASE Kill
  BY <1>8, KillKeeps
<1>9. CASE UNCHANGED vars
  BY <1>9, Stuttering
<1> QED
  BY <1>1, <1>2, <1>3, <1>4, <1>5, <1>6, <1>7, <1>8, <1>9 DEF Next

\* In every state of every operation the manifest and the native store are
\* together, as the inductive invariant says per phase.
THEOREM StoreIsTogether == ASSUME Confirmed PROVE Spec => []Together
<1>1. Together /\ [Next]_vars => Together'
  BY Inductive
<1> QED
  BY <1>1, Initially, PTL DEF Spec

\* The variables keep their types, and no operation gives a name two entries.
THEOREM StoreIsTyped == ASSUME Confirmed PROVE Spec => []TypeOK
<1>1. Together => TypeOK
  BY DEF Together
<1> QED
  BY <1>1, StoreIsTogether, PTL

\* Whatever fails or is killed, a name in the manifest has its value: a
\* launcher that binds it finds it.
THEOREM EntriesAlwaysResolve == ASSUME Confirmed PROVE Spec => []EntriesResolve
<1>1. Together => EntriesResolve
  BY DEF Together
<1> QED
  BY <1>1, StoreIsTogether, PTL

\* A value in the native store is named by the manifest, queued for removal,
\* in the hands of the operation in progress, or left behind by one that failed
\* or was killed; and a value that the manifest ever named is named or queued
\* until it is removed, whatever fails or is killed, cleanups and removals
\* included.
THEOREM NothingIsForgotten == ASSUME Confirmed PROVE Spec => []NothingUnnamed
<1>1. Together => NothingUnnamed
  BY DEF Together
<1> QED
  BY <1>1, StoreIsTogether, PTL

-----------------------------------------------------------------------------
(* The change of the map that an operation is about.                       *)

\* The entries of other names.
Others(n) == {d \in secrets : d.name # n}

\* A command that creates values means to store one secret, or to take over
\* those of the Source.
InCreateIntended == op.pc = "create" =>
  \/ /\ op.kind = "store"
     /\ \E n \in Name : /\ n \notin Names(Theirs) /\ op.next = Others(n)
                        /\ op.names \cup Names(op.created) = {n}
     /\ \A e \in op.created : e.origin = "local"
  \/ /\ op.kind = "apply"
     /\ op.next = Mine
     /\ \A e \in op.created : e.origin = "source"

\* Entries that store a secret of the user under a name.
Stores(es) ==
  \E n \in Name, e \in Entry :
    /\ n \notin Names(Theirs) /\ e.name = n /\ e.origin = "local"
    /\ es = Others(n) \cup {e}

\* Entries without those of a name.
Removes(es) == \E n \in Name : es = Others(n)

\* The user's entries, and others of the Source.
Transfers(es) == Mine \subseteq es /\ \A e \in es \ Mine : e.origin = "source"

\* The manifest about to be written is one change of the map.
InWriteIntended ==
  op.pc = "write" => Stores(op.next) \/ Removes(op.next) \/ Transfers(op.next)

\* What the operation in progress means to change.
Intended == InCreateIntended /\ InWriteIntended

\* No operation is in progress at first.
LEMMA InitiallyIntended == Init => Intended
BY DEF Init, None, At, Intended, InCreateIntended, InWriteIntended

\* An operation that begins means one change of the map.
LEMMA BeginIntends ==
  ASSUME NEW o, Begin(o), o.pc = "create" => o.created = {},
         o.pc = "create" => o.kind = "store" /\ \E n \in Name :
           n \notin Names(Theirs) /\ o.next = Others(n) /\ o.names = {n},
         o.pc = "write" => Removes(o.next) \/ Transfers(o.next)
  PROVE  Intended'
<1>1. op' = o /\ secrets' = secrets
  BY DEF Begin
<1>2. InCreateIntended'
  BY <1>1 DEF InCreateIntended, Others, Theirs, Names
<1>3. InWriteIntended'
  BY <1>1 DEF InWriteIntended, Removes, Transfers, Others, Mine
<1> QED
  BY <1>2, <1>3 DEF Intended

\* Storing replaces the entry of one name.
LEMMA StoreSecretIntends ==
  ASSUME NEW n \in Name, StoreSecret(n) PROVE Intended'
<1> DEFINE previous == {e \in secrets : e.name = n}
           o == At("create", "store", {n}, secrets \ previous, queue \cup Items(previous))
<1>1. n \notin Names(Theirs) /\ Begin(o)
  BY DEF StoreSecret
<1>2. secrets \ previous = Others(n)
  BY DEF Others
<1>3. /\ o.pc = "create" /\ o.kind = "store" /\ o.names = {n} /\ o.created = {}
      /\ o.next = Others(n)
  BY <1>2 DEF At
<1> HIDE DEF o
<1> QED
  BY <1>1, <1>3, BeginIntends

\* Removing drops the entry of one name.
LEMMA RemoveSecretIntends ==
  ASSUME NEW n \in Name, RemoveSecret(n) PROVE Intended'
<1> DEFINE existing == {e \in secrets : e.name = n}
           o == At("write", "remove", {}, secrets \ existing, queue \cup Items(existing))
<1>1. Begin(o)
  BY DEF RemoveSecret
<1>2. secrets \ existing = Others(n)
  BY DEF Others
<1>3. o.pc = "write" /\ Removes(o.next)
  BY <1>2 DEF At, Removes
<1> HIDE DEF o
<1> QED
  BY <1>1, <1>3, BeginIntends

\* Clearing keeps the user's own entries only.
LEMMA ClearIntends == ASSUME ClearTransferredSecrets PROVE Intended'
<1> DEFINE o == At("write", "clear", {}, Mine, queue \cup Items(Theirs))
<1>1. Begin(o)
  BY DEF ClearTransferredSecrets
<1>2. o.pc = "write" /\ Transfers(o.next)
  BY DEF At, Transfers
<1> HIDE DEF o
<1> QED
  BY <1>1, <1>2, BeginIntends

\* The operations that first remove what is queued.
LEMMA LoadIntends == ASSUME LoadSharedSecrets PROVE Intended'
<1> DEFINE o == At("remove", "load", {}, secrets, queue)
<1>1. Begin(o) /\ o.pc = "remove"
  BY DEF LoadSharedSecrets, At
<1> HIDE DEF o
<1> QED
  BY <1>1, BeginIntends

\* A transfer first removes what is queued, and then merges.
LEMMA ApplyIntends ==
  ASSUME NEW incoming \in SUBSET Name, ApplyTransferredSecrets(incoming)
  PROVE  Intended'
<1> DEFINE o == At(IF queue = {} THEN "merge" ELSE "remove", "clean", incoming,
                   secrets, queue)
<1>1. Begin(o) /\ o.pc \in {"merge", "remove"}
  BY DEF ApplyTransferredSecrets, At
<1> HIDE DEF o
<1> QED
  BY <1>1, BeginIntends

\* Where nothing is created or written, nothing is meant.
LEMMA IdleIntends == ASSUME op'.pc \notin {"create", "write"} PROVE Intended'
BY DEF Intended, InCreateIntended, InWriteIntended

\* A transfer starts from the user's own entries.
LEMMA MergeIntends == ASSUME Together, Merge PROVE Intended'
<1>1. CASE End
  BY <1>1, IdleIntends DEF End, None, At
<1>2. CASE op' = [op EXCEPT !.pc = "create", !.kind = "apply", !.next = Mine,
                            !.retired = Items(Theirs), !.failed = {}]
  <2>1. op \in Operation /\ op.created = {} /\ secrets' = secrets
    BY DEF Together, TypeOK, InMerge, Merge
  <2>2. /\ op'.pc = "create" /\ op'.kind = "apply" /\ op'.created = {}
        /\ op'.next = Mine
    BY <1>2, <2>1 DEF Operation
  <2> QED
    BY <2>1, <2>2 DEF Intended, InCreateIntended, InWriteIntended, Mine
<1> QED
  BY <1>1, <1>2 DEF Merge

\* A created value gets the entry of a name that was wanted.
LEMMA CreateIntends == ASSUME Together, Intended, Create PROVE Intended'
<1>1. CASE End
  BY <1>1, IdleIntends DEF End, None, At
<1>2. ASSUME NEW n \in op.names,
             op' = [op EXCEPT !.names = @ \ {n},
                              !.created = @ \cup {[name |-> n, item |-> used + 1,
                                                   origin |-> Origin]}]
      PROVE  Intended'
  <2> DEFINE e == [name |-> n, item |-> used + 1, origin |-> Origin]
  <2>1. op \in Operation /\ op.pc = "create" /\ secrets' = secrets
    BY DEF Together, TypeOK, Create
  <2>2. e.name = n /\ e.origin = Origin
    OBVIOUS
  <2>3. op' = [op EXCEPT !.names = @ \ {n}, !.created = @ \cup {e}]
    BY <1>2
  <2> HIDE DEF e
  <2>4. /\ op'.pc = "create" /\ op'.kind = op.kind /\ op'.next = op.next
        /\ op'.names = op.names \ {n} /\ op'.created = op.created \cup {e}
    BY <2>1, <2>3 DEF Operation
  <2>5. op'.names \cup Names(op'.created) = op.names \cup Names(op.created)
    BY <2>2, <2>4 DEF Names
  <2>6. /\ Mine' = Mine /\ Theirs' = Theirs /\ \A m : Others(m)' = Others(m)
    BY <2>1 DEF Mine, Theirs, Others
  <2> QED
    BY <2>1, <2>2, <2>4, <2>5, <2>6
       DEF Intended, InCreateIntended, InWriteIntended, Origin
<1> QED
  BY <1>1, <1>2 DEF Create

\* All that was wanted is created: the manifest to write is complete.
LEMMA CreatedIntends == ASSUME Together, Intended, Created PROVE Intended'
<1>1. /\ op \in Operation /\ op.pc = "create" /\ op.names = {}
      /\ OneToOne(op.created) /\ secrets' = secrets
  BY DEF Together, TypeOK, InCreate, Created
<1>2. op'.pc = "write" /\ op'.next = op.next \cup op.created
  BY <1>1 DEF Created, Operation
<1>3. /\ Mine' = Mine /\ Theirs' = Theirs /\ \A m : Others(m)' = Others(m)
  BY <1>1 DEF Mine, Theirs, Others
<1>4. ASSUME NEW n \in Name, n \notin Names(Theirs), op.next = Others(n),
             Names(op.created) = {n}, \A e \in op.created : e.origin = "local"
      PROVE  Stores(op.next)'
  <2>1. PICK e \in op.created : e.name = n
    BY <1>4 DEF Names
  <2>2. op.created = {e}
    BY <1>1, <1>4, <2>1 DEF OneToOne, Names
  <2>3. e \in Entry /\ e.origin = "local"
    BY <1>1, <1>4 DEF Operation
  <2> QED
    BY <1>2, <1>3, <1>4, <2>1, <2>2, <2>3 DEF Stores
<1>5. ASSUME op.next = Mine, \A e \in op.created : e.origin = "source"
      PROVE  Transfers(op.next)'
  BY <1>2, <1>3, <1>5 DEF Transfers
<1> QED
  BY <1>1, <1>2, <1>4, <1>5 DEF Intended, InCreateIntended, InWriteIntended

\* Nothing is meant any more once the manifest is written.
LEMMA LaterIntends ==
  ASSUME Together, WriteManifest \/ RemoveItem \/ Removed \/ Kill PROVE Intended'
<1>1. op \in Operation
  BY DEF Together, TypeOK
<1>2. \/ End
      \/ op' = [op EXCEPT !.pc = "remove"]
      \/ op' = [op EXCEPT !.pc = "merge"]
      \/ op.pc = "remove" /\ \E i \in op.retired :
           \/ op' = [op EXCEPT !.retired = @ \ {i}]
           \/ op' = [op EXCEPT !.retired = @ \ {i}, !.failed = @ \cup {i}]
  BY DEF WriteManifest, RemoveItem, Removed, Kill
<1>3. CASE End
  BY <1>3, IdleIntends DEF End, None, At
<1>4. CASE op' = [op EXCEPT !.pc = "remove"] \/ op' = [op EXCEPT !.pc = "merge"]
  BY <1>1, <1>4, IdleIntends DEF Operation
<1>5. ASSUME op.pc = "remove", NEW i \in op.retired,
             \/ op' = [op EXCEPT !.retired = @ \ {i}]
             \/ op' = [op EXCEPT !.retired = @ \ {i}, !.failed = @ \cup {i}]
      PROVE  Intended'
  <2>1. op'.pc = "remove"
    BY <1>1, <1>5 DEF Operation
  <2> QED
    BY <2>1, IdleIntends
<1> QED
  BY <1>2, <1>3, <1>4, <1>5

\* What an operation is about to write is one change of the map.
LEMMA IntendedStays == Together /\ Intended /\ [Next]_vars => Intended'
<1> SUFFICES ASSUME Together, Intended, [Next]_vars PROVE Intended'
  OBVIOUS
<1>1. ASSUME NEW n \in Name, StoreSecret(n) \/ RemoveSecret(n) PROVE Intended'
  BY <1>1, StoreSecretIntends, RemoveSecretIntends
<1>2. CASE ClearTransferredSecrets \/ LoadSharedSecrets
  BY <1>2, ClearIntends, LoadIntends
<1>3. ASSUME NEW incoming \in SUBSET Name, ApplyTransferredSecrets(incoming)
      PROVE  Intended'
  BY <1>3, ApplyIntends
<1>4. CASE Merge \/ Create \/ Created
  BY <1>4, MergeIntends, CreateIntends, CreatedIntends
<1>5. CASE WriteManifest \/ RemoveItem \/ Removed \/ Kill
  BY <1>5, LaterIntends
<1>6. CASE UNCHANGED vars
  <2>1. op' = op /\ secrets' = secrets
    BY <1>6 DEF vars
  <2> QED
    BY <2>1 DEF Intended, InCreateIntended, InWriteIntended, Stores, Removes, Transfers,
                Others, Mine, Theirs, Names
<1> QED
  BY <1>1, <1>2, <1>3, <1>4, <1>5, <1>6 DEF Next

-----------------------------------------------------------------------------
(* What the users see of a manifest whose entries all have their values.   *)

\* One entry per name, each with its value.
Fits(es, its) ==
  /\ es \subseteq Entry /\ Items(es) \subseteq its
  /\ \A d, e \in es : d.name = e.name => d = e

\* The map that the users see of such a manifest.
View(es, its) ==
  [n \in Name |->
    IF n \notin Names(es) THEN Absent
    ELSE LET e == CHOOSE e \in es : e.name = n IN
         [origin |-> e.origin, value |-> IF e.item \in its THEN e.item ELSE 0]]

\* What is seen is the view of the manifest and the native store.
LEMMA SeenIsAView == Seen = View(secrets, items) /\ Seen' = View(secrets', items')
BY DEF Seen, View

\* A name without an entry is absent.
LEMMA ViewOfAbsent ==
  ASSUME NEW es, NEW its, NEW n \in Name \ Names(es)
  PROVE  View(es, its)[n] = Absent
BY DEF View

\* A name with an entry has its origin and its value.
LEMMA ViewOfEntry ==
  ASSUME NEW es, NEW its, Fits(es, its), NEW e \in es
  PROVE  e.name \in Name /\ View(es, its)[e.name] = [origin |-> e.origin, value |-> e.item]
<1>1. e.name \in Name /\ e.name \in Names(es) /\ e.item \in its
  BY DEF Fits, Entry, Names, Items
<1>2. PICK d : d = CHOOSE c \in es : c.name = e.name
  OBVIOUS
<1>3. d \in es /\ d.name = e.name
  BY <1>2
<1>4. d = e
  BY <1>3 DEF Fits
<1> QED
  BY <1>1, <1>2, <1>4 DEF View

\* A manifest and a native store that are together fit.
LEMMA TogetherFits == Together => Fits(secrets, items)
BY DEF Together, TypeOK, EntriesResolve, Fits

\* The same entries of a name make the same value of it.
LEMMA SameName ==
  ASSUME NEW es, NEW ds, NEW its, NEW others, Fits(es, its), Fits(ds, others),
         NEW n \in Name, \A e \in Entry : e.name = n => (e \in es <=> e \in ds)
  PROVE  View(es, its)[n] = View(ds, others)[n]
<1>1. es \subseteq Entry /\ ds \subseteq Entry
  BY DEF Fits
<1>2. CASE n \notin Names(es)
  <2>1. n \notin Names(ds)
    BY <1>1, <1>2 DEF Names
  <2> QED
    BY <1>2, <2>1, ViewOfAbsent
<1>3. CASE n \in Names(es)
  <2>1. PICK e \in es : e.name = n
    BY <1>3 DEF Names
  <2>2. e \in ds
    BY <1>1, <2>1
  <2>3. View(es, its)[e.name] = [origin |-> e.origin, value |-> e.item]
    BY ViewOfEntry
  <2>4. View(ds, others)[e.name] = [origin |-> e.origin, value |-> e.item]
    BY <2>2, ViewOfEntry
  <2> QED
    BY <2>1, <2>3, <2>4
<1> QED
  BY <1>2, <1>3

\* The map depends on the manifest alone.
LEMMA SameView ==
  ASSUME NEW es, NEW its, NEW others, Fits(es, its), Fits(es, others)
  PROVE  View(es, its) = View(es, others)
<1>1. \A n \in Name : View(es, its)[n] = View(es, others)[n]
  BY SameName
<1> QED
  BY <1>1 DEF View

\* A name the map has local is local in the manifest.
LEMMA LocalInView ==
  ASSUME Together, NEW n \in Name
  PROVE  Map!Local(n) <=> n \in Names(Mine)
<1>1. Fits(secrets, items)
  BY TogetherFits
<1>2. CASE n \notin Names(secrets)
  <2>1. Seen[n] = Absent /\ n \notin Names(Mine)
    BY <1>2, SeenIsAView, ViewOfAbsent DEF Mine, Names
  <2> QED
    BY <2>1 DEF Map!Local
<1>3. CASE n \in Names(secrets)
  <2>1. PICK e \in secrets : e.name = n
    BY <1>3 DEF Names
  <2>2. Seen[n] = [origin |-> e.origin, value |-> e.item]
    BY <1>1, <2>1, SeenIsAView, ViewOfEntry
  <2>3. Seen[n] # Absent
    <3>1. e.item \in Item /\ e.origin \in {"local", "source"}
      BY <1>1 DEF Fits, Entry
    <3>2. Seen[n] \in [origin : {"local", "source"}, value : Item]
      BY <2>2, <3>1
    <3> QED
      BY <3>2, ConstantsAssumption
  <2>4. n \in Names(Mine) <=> e.origin = "local"
    BY <1>1, <2>1 DEF Mine, Names, Fits
  <2> QED
    BY <2>2, <2>3, <2>4 DEF Map!Local
<1> QED
  BY <1>2, <1>3

-----------------------------------------------------------------------------
(* Each step changes the map at once, or not at all.                       *)

\* At first nothing is seen.
LEMMA InitialMap == Init => Map!Init
BY DEF Init, Map!Init, Seen, Names

\* A step that leaves the manifest's entries alone.
LEMMA MapStays ==
  ASSUME Together, Together', secrets' = secrets PROVE UNCHANGED Seen
<1>1. Fits(secrets, items)
  BY TogetherFits
<1>2. Fits(secrets', items')
  BY DEF Together, TypeOK, EntriesResolve, Fits
<1> QED
  BY <1>1, <1>2, SameView, SeenIsAView

\* Storing puts one name of the map.
LEMMA MapStores ==
  ASSUME Together, Together', Stores(secrets') PROVE Map!Next
<1>1. PICK n \in Name, e \in Entry :
        /\ n \notin Names(Theirs) /\ e.name = n /\ e.origin = "local"
        /\ secrets' = Others(n) \cup {e}
  BY DEF Stores
<1>2. Fits(secrets, items) /\ Fits(secrets', items')
  BY TogetherFits DEF Together, TypeOK, EntriesResolve, Fits
<1>3. Seen'[n] = [origin |-> "local", value |-> e.item] /\ e.item \in Item
  BY <1>1, <1>2, SeenIsAView, ViewOfEntry DEF Entry
<1>4. ASSUME NEW m \in Name, m # n PROVE Seen'[m] = Seen[m]
  <2>1. \A d \in Entry : d.name = m => (d \in secrets <=> d \in secrets')
    BY <1>1, <1>4 DEF Others
  <2> QED
    BY <1>2, <2>1, SameName, SeenIsAView
<1>5. Seen' = [Seen EXCEPT ![n] = [origin |-> "local", value |-> e.item]]
  <2>1. DOMAIN Seen = Name /\ DOMAIN Seen' = Name /\ Seen' = [m \in Name |-> Seen'[m]]
        /\ Seen = [m \in Name |-> Seen[m]]
    BY DEF Seen
  <2> QED
    BY <1>3, <1>4, <2>1
<1>6. Seen[n] = Absent \/ Map!Local(n)
  <2>1. CASE n \notin Names(secrets)
    BY <2>1, SeenIsAView, ViewOfAbsent
  <2>2. CASE n \in Names(secrets)
    BY <1>1, <1>2, <2>2, LocalInView DEF Names, Theirs, Mine, Fits, Entry
  <2> QED
    BY <2>1, <2>2
<1> QED
  BY <1>3, <1>5, <1>6 DEF Map!Put, Map!Next

\* Removing takes one name from the map.
LEMMA MapRemoves ==
  ASSUME Together, Together', Removes(secrets') PROVE Map!Next
<1>1. PICK n \in Name : secrets' = Others(n)
  BY DEF Removes
<1>2. Fits(secrets, items) /\ Fits(secrets', items')
  BY TogetherFits DEF Together, TypeOK, EntriesResolve, Fits
<1>3. Seen'[n] = Absent
  BY <1>1, SeenIsAView, ViewOfAbsent DEF Names, Others
<1>4. ASSUME NEW m \in Name, m # n PROVE Seen'[m] = Seen[m]
  <2>1. \A d \in Entry : d.name = m => (d \in secrets <=> d \in secrets')
    BY <1>1, <1>4 DEF Others
  <2> QED
    BY <1>2, <2>1, SameName, SeenIsAView
<1>5. Seen' = [Seen EXCEPT ![n] = Absent]
  <2>1. DOMAIN Seen = Name /\ DOMAIN Seen' = Name /\ Seen' = [m \in Name |-> Seen'[m]]
        /\ Seen = [m \in Name |-> Seen[m]]
    BY DEF Seen
  <2> QED
    BY <1>3, <1>4, <2>1
<1> QED
  BY <1>5 DEF Map!Remove, Map!Next

\* A transfer replaces the Source's names and keeps the user's.
LEMMA MapTransfers ==
  ASSUME Together, Together', Transfers(secrets') PROVE Map!Next
<1> DEFINE shared == Names(secrets' \ Mine)
<1>1. /\ Mine \subseteq secrets' /\ \A e \in secrets' \ Mine : e.origin = "source"
      /\ Mine \subseteq secrets
  BY DEF Transfers, Mine
<1>2. Fits(secrets, items) /\ Fits(secrets', items')
  BY TogetherFits DEF Together, TypeOK, EntriesResolve, Fits
<1>3. shared \in SUBSET Name
  BY <1>2 DEF Names, Fits, Entry
<1>4. ASSUME NEW n \in shared
      PROVE  Seen'[n] \in [origin : {"source"}, value : Item] /\ ~Map!Local(n)
  <2>1. PICK e \in secrets' : e \notin Mine /\ e.name = n /\ e.origin = "source"
    BY <1>1 DEF Names
  <2>2. Seen'[n] = [origin |-> "source", value |-> e.item] /\ e.item \in Item
    BY <1>2, <2>1, SeenIsAView, ViewOfEntry DEF Fits, Entry
  <2>3. n \notin Names(Mine)
    BY <1>1, <1>2, <2>1 DEF Names, Fits
  <2> QED
    BY <1>3, <2>2, <2>3, LocalInView
<1>5. ASSUME NEW n \in Name, n \notin shared, Map!Local(n) PROVE Seen'[n] = Seen[n]
  <2>1. PICK d \in Mine : d.name = n
    BY <1>5, LocalInView DEF Names
  <2>2. View(secrets, items)[n] = [origin |-> d.origin, value |-> d.item]
    BY <1>1, <1>2, <2>1, ViewOfEntry
  <2>3. View(secrets', items')[n] = [origin |-> d.origin, value |-> d.item]
    BY <1>1, <1>2, <2>1, ViewOfEntry
  <2> QED
    BY <2>2, <2>3, SeenIsAView
<1>6. ASSUME NEW n \in Name, n \notin shared, ~Map!Local(n) PROVE Seen'[n] = Absent
  <2>1. n \notin Names(Mine)
    BY <1>6, LocalInView
  <2>2. n \notin Names(secrets')
    BY <1>6, <2>1 DEF Names
  <2> QED
    BY <2>2, SeenIsAView, ViewOfAbsent
<1>7. DOMAIN Seen' = Name
  BY DEF Seen
<1> HIDE DEF shared
<1>8. Map!Transfer(shared)
  BY <1>3, <1>4, <1>5, <1>6, <1>7 DEF Map!Transfer
<1> QED
  BY <1>3, <1>8 DEF Map!Next

\* A step of the store is a step of the map or changes nothing of it.
LEMMA Simulation ==
  ASSUME Confirmed, Together, Together', Intended, [Next]_vars
  PROVE  [Map!Next]_Seen
<1>1. CASE secrets' = secrets
  BY <1>1, MapStays
<1>2. CASE WriteManifest /\ secrets' # secrets
  <2>1. op.pc = "write" /\ secrets' = op.next
    BY <1>2 DEF WriteManifest, Confirmed
  <2>2. Stores(secrets') \/ Removes(secrets') \/ Transfers(secrets')
    BY <2>1 DEF Intended, InWriteIntended
  <2> QED
    BY <2>2, MapStores, MapRemoves, MapTransfers
<1>3. CASE Removed
  BY <1>1, <1>3 DEF Removed, Confirmed, Together, InRemove
<1>4. CASE UNCHANGED vars
  BY <1>1, <1>4 DEF vars
<1> QED
  BY <1>1, <1>2, <1>3, <1>4
     DEF Next, Begin, StoreSecret, RemoveSecret, ClearTransferredSecrets,
         LoadSharedSecrets, ApplyTransferredSecrets, Merge, Create, Created,
         RemoveItem, Kill

\* The secret store implements the map: an operation that fails or is killed
\* anywhere changes what the users see at once or not at all, and no transfer
\* from the Source touches a secret of the user's.
THEOREM StoreIsAMap == ASSUME Confirmed PROVE Spec => ImplementsSecretMap
<1>1. Init => Together /\ Intended /\ Map!Init
  BY Initially, InitiallyIntended, InitialMap
<1>2. Together /\ Intended /\ [Next]_vars => Together' /\ Intended'
  BY Inductive, IntendedStays
<1>3. Together /\ Together' /\ Intended /\ [Next]_vars => [Map!Next]_Seen
  BY Simulation
<1> QED
  BY <1>1, <1>2, <1>3, PTL DEF Spec, ImplementsSecretMap, Map!Spec
=============================================================================
