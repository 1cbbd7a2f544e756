----------------------------- MODULE Publication -----------------------------
(***************************************************************************)
(* From the Canonical Folder of the Source to a follower.  Publishers      *)
(* (`source publish`, profile/publication.ts) read the folder, choose the  *)
(* next sequence number and an id, and store the revision with its blobs   *)
(* in one transaction (state/state-repository.layer.ts), for which they    *)
(* read the files again.  Followers list the revisions, take the last one, *)
(* and collect its blobs in a cache that several commands of one machine   *)
(* share (enrollment/follower-client.ts, synchronization/                  *)
(* follower-orchestration.ts).                                             *)
(*                                                                         *)
(* Abstractions: one profile; the folder may change at any time, so that   *)
(* each reading finds any content; a content is the set of its blobs, a    *)
(* blob is a name and what is stored under it; the ranges of one blob are  *)
(* one step (what is stored is never changed), and so are the list and the *)
(* metadata of a revision. Signatures, groups and free space are left out, *)
(* what a run does with the content is in SynchronizationRun.tla.          *)
(***************************************************************************)
EXTENDS Naturals, FiniteSets

CONSTANTS
  Publisher,       \* `source publish` commands at once
  Fetcher,         \* `sync` commands of the follower at once
  Applier,         \* the one with the run lock: `sync --apply`
  Content, Blob,
  BlobsOf,         \* the blobs of each content
  Size,            \* the bytes of each blob
  Damaged,         \* bound: the blobs whose file in the cache is damaged at first
  MaxPublications, \* bound: publications begun
  MaxFaults        \* bound: blobs the Source loses, requests that fail and kills
                   \* of a follower's command, all together

ASSUME ConstantsAssumption ==
  /\ Applier \in Fetcher
  /\ Content # {}
  /\ BlobsOf \in [Content -> SUBSET Blob]
  /\ Size \in [Blob -> Nat]
  /\ Damaged \subseteq Blob
  /\ {MaxPublications, MaxFaults} \subseteq Nat

VARIABLES
  revisions,  \* profile_revisions
  stored,     \* resource_blob_manifests and resource_blob_chunks
  pub,        \* what each publisher is doing
  cache,      \* the files of the follower's blob cache
  fetch,      \* what each of the follower's commands is doing
  followed,   \* the sequence number of the content last applied, 0 for none
  used,       \* history: the blobs that content was made of
  lost,       \* history: the blobs the Source lost and has not stored again
  publications, faults

source == <<revisions, stored, pub, lost>>
follower == <<cache, fetch, followed, used>>
bounds == <<publications, faults>>
vars == <<source, follower, bounds>>

Sequence == 1..MaxPublications

\* The id of a content, or of a later revision of it, which appends its sequence.
Id == Content \X (Sequence \cup {0})
Revision == [id : Id, content : Content, seq : Sequence, at : 1..MaxPublications]
SomeContent == CHOOSE c \in Content : TRUE

\* A publisher: the content it read, the last sequence number by then, when
\* it runs, the number it is going to use, and the revision it made of it.
Resting == [pc |-> "idle", content |-> SomeContent, since |-> 0, at |-> 0, seq |-> 0,
            rev |-> {}]

\* A follower's command: the revision it takes, the blobs it has not looked
\* for yet, those it has to get, and the one it found damaged.
NotFetching == [pc |-> "idle", content |-> SomeContent, seq |-> 0, todo |-> {},
                missing |-> {}, damaged |-> {}]

Fault == faults < MaxFaults /\ faults' = faults + 1

\* The last sequence number of a set of revisions, 0 when there are none.
LastOf(revs) ==
  IF revs = {} THEN 0
  ELSE CHOOSE n \in Sequence : (\E r \in revs : r.seq = n) /\ \A r \in revs : r.seq <= n
Latest == LastOf(revisions)
RevisionOf(n) == CHOOSE r \in revisions : r.seq = n

Init ==
  /\ revisions = {}
  /\ stored = [b \in Blob |-> "absent"]
  /\ pub = [p \in Publisher |-> Resting]
  /\ cache = [b \in Blob |-> IF b \in Damaged THEN "damaged" ELSE "absent"]
  /\ fetch = [f \in Fetcher |-> NotFetching]
  /\ followed = 0
  /\ used = [b \in Blob |-> "absent"]
  /\ lost = {}
  /\ publications = 0 /\ faults = 0

-----------------------------------------------------------------------------
(* Publishing.                                                             *)

\* What any publication begins with.
Begin(p) ==
  /\ pub[p].pc \in {"idle", "published"}
  /\ publications < MaxPublications
  /\ publications' = publications + 1
  /\ UNCHANGED <<revisions, stored, lost, follower, faults>>

\* The publisher p is about to store one revision, or to make one.
Republish(p, c, rev) ==
  pub' = [pub EXCEPT ![p] = [pc |-> "store", content |-> c, since |-> Latest,
                             at |-> publications', seq |-> rev.seq, rev |-> {rev}]]
Make(p, c, seq) ==
  pub' = [pub EXCEPT ![p] = [pc |-> "earlier", content |-> c, since |-> Latest,
                             at |-> publications', seq |-> seq, rev |-> {}]]

IsLatest(c) == \E r \in revisions : r.seq = Latest /\ r.content = c

\* Mutant: content that was ever published is taken for published.
MutantReadAny(p, c) ==
  /\ Begin(p)
  /\ IF \E r \in revisions : r.content = c
     THEN Republish(p, c, CHOOSE r \in revisions : r.content = c)
     ELSE Make(p, c, Latest + 1)

\* publish reads the folder, and then the latest revision: that content is
\* published again under its own revision, any other gets the next number.
ReadLatest(p, c) ==
  /\ Begin(p)
  /\ IF IsLatest(c) THEN Republish(p, c, RevisionOf(Latest)) ELSE Make(p, c, Latest + 1)

\* The id is the content's own, unless an earlier revision has it.
FindEarlier(p) ==
  /\ pub[p].pc = "earlier"
  /\ LET c == pub[p].content
         taken == \E r \in revisions : r.id = <<c, 0>>
     IN pub' = [pub EXCEPT ![p].pc = "store",
                  ![p].rev = {[id |-> <<c, IF taken THEN pub[p].seq ELSE 0>>,
                               content |-> c, seq |-> pub[p].seq, at |-> pub[p].at]}]
  /\ UNCHANGED <<revisions, stored, lost, follower, bounds>>

\* Mutant: whatever the file holds by now is stored under the blob's name.
MutantStoredBlobs(c, folder) ==
  [b \in Blob |->
    IF b \notin BlobsOf[c] \/ stored[b] # "absent" THEN stored[b]
    ELSE IF b \in BlobsOf[folder] THEN "whole" ELSE "other"]

\* storeResourceBlob for every blob of a content: one that is there stays,
\* and the file of any other is read again, which may have changed since.
StoredBlobs(c, folder) ==
  [b \in Blob |->
    IF b \in BlobsOf[c] /\ stored[b] = "absent" /\ b \in BlobsOf[folder]
    THEN "whole" ELSE stored[b]]

BlobsAreStored(c, folder) ==
  \A b \in BlobsOf[c] : StoredBlobs(c, folder)[b] # "absent"

\* Mutant: nothing keeps two revisions from having one sequence number.
MutantAcceptable(rev) == \A r \in revisions : r.id = rev.id => r = rev

\* An id names one revision for ever, and so does a sequence number.
Acceptable(rev) ==
  \A r \in revisions : r.id = rev.id \/ r.seq = rev.seq => r = rev

\* publishRevision: all of it, or nothing and the publication fails.
Store(p) ==
  /\ pub[p].pc = "store"
  /\ \E rev \in pub[p].rev, folder \in Content :
       IF BlobsAreStored(rev.content, folder) /\ Acceptable(rev)
       THEN /\ stored' = StoredBlobs(rev.content, folder)
            /\ lost' = lost \ BlobsOf[rev.content]
            /\ revisions' = revisions \cup {rev}
            /\ pub' = [pub EXCEPT ![p] = [Resting EXCEPT !.pc = "published",
                           !.content = rev.content, !.since = pub[p].since]]
       ELSE /\ pub' = [pub EXCEPT ![p] = Resting]
            /\ UNCHANGED <<stored, lost, revisions>>
  /\ UNCHANGED <<follower, bounds>>

StopPublisher(p) ==
  /\ pub[p].pc \in {"earlier", "store"}
  /\ pub' = [pub EXCEPT ![p] = Resting]
  /\ UNCHANGED <<revisions, stored, lost, follower, bounds>>

\* A Source that lost the rows of a blob.
LoseBlob ==
  /\ Fault
  /\ \E b \in Blob :
       /\ stored[b] # "absent"
       /\ stored' = [stored EXCEPT ![b] = "absent"]
       /\ lost' = lost \cup {b}
  /\ UNCHANGED <<revisions, pub, follower, publications>>

-----------------------------------------------------------------------------
(* Following.                                                              *)

Failed(f) == fetch' = [fetch EXCEPT ![f] = NotFetching]

\* selectedRevision, and the metadata of the revision it takes.
Select(f) ==
  /\ fetch[f].pc = "idle"
  /\ revisions # {}
  /\ LET c == RevisionOf(Latest).content IN
     fetch' = [fetch EXCEPT ![f] = [NotFetching EXCEPT !.pc = "look", !.content = c,
                                    !.seq = Latest, !.todo = BlobsOf[c]]]
  /\ UNCHANGED <<source, cache, followed, used, bounds>>

\* Mutant: a cached file of the right name is taken as it is.
MutantLook(f) ==
  /\ fetch[f].pc = "look"
  /\ \E b \in fetch[f].todo :
       fetch' = [fetch EXCEPT ![f].todo = @ \ {b},
                   ![f].missing = IF cache[b] = "absent" THEN @ \cup {b} ELSE @]
  /\ UNCHANGED <<source, cache, followed, used, bounds>>

\* cachedBlob reads and hashes the file of a blob ...
Look(f) ==
  /\ fetch[f].pc = "look"
  /\ \E b \in fetch[f].todo :
       fetch' = [fetch EXCEPT
         ![f].todo = @ \ {b},
         ![f].missing = IF cache[b] = "absent" THEN @ \cup {b} ELSE @,
         ![f].damaged = IF cache[b] = "damaged" THEN {b} ELSE {},
         ![f].pc = IF cache[b] = "damaged" THEN "unlink" ELSE "look"]
  /\ UNCHANGED <<source, cache, followed, used, bounds>>

\* ... and removes one that is not the blob; the file may be another by now.
Unlink(f) ==
  /\ fetch[f].pc = "unlink"
  /\ cache' = [b \in Blob |-> IF b \in fetch[f].damaged THEN "absent" ELSE cache[b]]
  /\ fetch' = [fetch EXCEPT ![f].pc = "look", ![f].damaged = {},
                            ![f].missing = @ \cup fetch[f].damaged]
  /\ UNCHANGED <<source, followed, used, bounds>>

\* retrieveBlob for the smallest that is missing, and atomicWrite: whole and
\* verified, or not at all and the command fails.
Download(f) ==
  /\ fetch[f].pc = "look" /\ fetch[f].todo = {}
  /\ \E b \in fetch[f].missing :
       /\ \A other \in fetch[f].missing : Size[b] <= Size[other]
       /\ IF stored[b] = "whole"
          THEN /\ cache' = [cache EXCEPT ![b] = "whole"]
               /\ fetch' = [fetch EXCEPT ![f].missing = @ \ {b}]
          ELSE Failed(f) /\ UNCHANGED cache
  /\ UNCHANGED <<source, followed, used, bounds>>

\* decodeSpecs reads the cached files, which have to be there still; the
\* command with the run lock applies what it read.
Read(f) ==
  /\ fetch[f].pc = "look" /\ fetch[f].todo = {} /\ fetch[f].missing = {}
  /\ Failed(f)
  /\ LET blobs == BlobsOf[fetch[f].content] IN
     IF f = Applier /\ \A b \in blobs : cache[b] # "absent"
     THEN /\ followed' = fetch[f].seq
          /\ used' = [b \in Blob |-> IF b \in blobs THEN cache[b] ELSE "absent"]
     ELSE UNCHANGED <<followed, used>>
  /\ UNCHANGED <<source, cache, bounds>>

\* A request fails, the run does not converge, or the command is killed.
StopFetcher(f) ==
  /\ fetch[f].pc # "idle"
  /\ Fault
  /\ Failed(f)
  /\ UNCHANGED <<source, cache, followed, used, publications>>

FetchStep(f) == Select(f) \/ Look(f) \/ Unlink(f) \/ Download(f) \/ Read(f)

Next ==
  \/ \E p \in Publisher :
       \/ \E c \in Content : ReadLatest(p, c)
       \/ FindEarlier(p) \/ Store(p) \/ StopPublisher(p)
  \/ LoseBlob
  \/ \E f \in Fetcher : FetchStep(f) \/ StopFetcher(f)

Spec == Init /\ [][Next]_vars

\* The follower's job runs again and again, and a run that began goes on.
\* Nothing makes anybody publish.
Fairness == WF_vars(FetchStep(Applier))
FairSpec == Spec /\ Fairness

-----------------------------------------------------------------------------
\* Every variable keeps its type: the first part of an inductive invariant, no
\* run lists it.
TypeOK ==
  /\ revisions \subseteq Revision
  /\ stored \in [Blob -> {"absent", "whole"}]
  /\ pub \in [Publisher ->
       [pc : {"idle", "earlier", "store", "published"}, content : Content,
        since : 0..MaxPublications, at : 0..MaxPublications, seq : 0..MaxPublications,
        rev : SUBSET Revision]]
  /\ cache \in [Blob -> {"absent", "whole", "damaged"}]
  /\ fetch \in [Fetcher ->
       [pc : {"idle", "look", "unlink"}, content : Content, seq : 0..MaxPublications,
        todo : SUBSET Blob, missing : SUBSET Blob, damaged : SUBSET Blob]]
  /\ followed \in 0..MaxPublications
  /\ used \in [Blob -> {"absent", "whole", "damaged"}]
  /\ lost \subseteq Blob
  /\ publications \in 0..MaxPublications /\ faults \in 0..MaxFaults

\* The contents by sequence number: publishing and following only ever do
\* what ProfileFeed promises, however publishers and followers interleave.
Log == [n \in 1..Latest |-> RevisionOf(n).content]
Feed == INSTANCE ProfileFeed WITH log <- Log
ImplementsFeed == Feed!Spec

\* Whoever is told that a content is published can rely on it having been the
\* latest at some time since the command looked.
PublishedWasLatest ==
  \A p \in Publisher : pub[p].pc = "published" =>
    \E r \in revisions : r.content = pub[p].content /\ r.seq >= pub[p].since

\* A follower never applies anything but the blobs of the revision it took,
\* whatever its cache held before.
AppliedIsWhole ==
  followed # 0 =>
    {b \in Blob : used[b] = "whole"} = BlobsOf[RevisionOf(followed).content]

\* Once nothing the latest revision needs is lost, the follower gets it.
CatchesUp ==
  <>[](revisions # {} => BlobsOf[RevisionOf(Latest).content] \cap lost = {})
    => <>[](followed = Latest)
=============================================================================
