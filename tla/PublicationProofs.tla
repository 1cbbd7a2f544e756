-------------------------- MODULE PublicationProofs --------------------------
(***************************************************************************)
(* What TLAPS proves of publishing and fetching profiles: what a publisher *)
(* is told is published was the latest since it looked, what a follower    *)
(* applies is whole, and the two together are a feed (ProfileFeed).        *)
(*                                                                         *)
(* A publisher chooses a sequence number and stores its revision steps     *)
(* later, when other publishers may have taken the number; the insertion   *)
(* refuses a number that another revision has.  So the number it brings is *)
(* at most the next one (Storing), and the numbers have no gap (Numbered). *)
(* A follower notes damage in one step and removes it in the next, and the *)
(* commands of one machine share the cache; Collected says that whatever   *)
(* of its revision is damaged a fetch still has to look at or has in hand, *)
(* for no command ever leaves damage that was not there before.            *)
(***************************************************************************)
EXTENDS Publication, SequenceTheorems, WellFoundedInduction, TLAPS

\* The revisions have the numbers from one on, each its own, and were made by
\* publications that have begun.
Numbered ==
  /\ \A r, q \in revisions : r.seq = q.seq => r = q
  /\ \A n \in 1..Latest : \E r \in revisions : r.seq = n
  /\ Latest <= publications

\* A revision of this content may get this number: it is not to follow itself.
Fits(c, seq) == seq = Latest + 1 => ~IsLatest(c)

\* A publisher that looks for the revision to republish took a number that was the
\* next one, of a content that was not the latest: others may be past both by now.
Choosing ==
  \A p \in Publisher : pub[p].pc = "earlier" =>
    /\ pub[p].since <= pub[p].seq /\ pub[p].seq >= 1 /\ pub[p].at >= 1
    /\ pub[p].seq <= Latest + 1 /\ pub[p].seq <= publications
    /\ Fits(pub[p].content, pub[p].seq)

\* The revision a publisher is about to store is stored already, or it has at most
\* the next number, and if it has that, another content than the latest.
Storing ==
  \A p \in Publisher : pub[p].pc = "store" =>
    \E rev \in Revision :
      /\ pub[p].rev = {rev} /\ rev.content = pub[p].content
      /\ pub[p].since <= rev.seq /\ rev.seq <= publications
      /\ rev \in revisions \/ (rev.seq <= Latest + 1 /\ Fits(rev.content, rev.seq))

\* The part of the invariant about publishers.
Publishing == Numbered /\ Choosing /\ Storing /\ PublishedWasLatest

\* A fetch has every damaged content of its revision still to look at or in hand,
\* and the revision it took stays the one with its number.
Collected ==
  \A f \in Fetcher : fetch[f].pc # "idle" =>
    /\ fetch[f].todo \cup fetch[f].missing \cup fetch[f].damaged \subseteq BlobsOf[fetch[f].content]
    /\ \A b \in BlobsOf[fetch[f].content] :
         cache[b] = "damaged" => b \in fetch[f].todo \cup fetch[f].damaged
    /\ fetch[f].pc = "look" => fetch[f].damaged = {}
    /\ fetch[f].seq \in 1..Latest /\ fetch[f].content = RevisionOf(fetch[f].seq).content

\* Neither what is followed nor what is fetched to be followed is ahead of the Source,
\* or behind what was followed before.
Forward ==
  /\ followed <= Latest
  /\ fetch[Applier].pc # "idle" => fetch[Applier].seq >= followed

\* The part of the invariant about followers.
Following == Collected /\ Forward /\ AppliedIsWhole

\* The inductive invariant.
IInv == TypeOK /\ Publishing /\ Following

-----------------------------------------------------------------------------
(* The sequence of the revisions.                                          *)

\* A nonempty set of numbers up to a bound has a greatest one.
LEMMA Greatest ==
  ASSUME NEW n \in Nat, NEW T \in SUBSET (1..n), T # {}
  PROVE  \E m \in T : \A k \in T : k <= m
<1> DEFINE D == {n - i : i \in T}
<1>1. D \subseteq Nat /\ \A i \in T : n - i \in D
  OBVIOUS
<1>2. \A d \in D : n - d \in T
  OBVIOUS
<1> HIDE DEF D
<1>3. D # {}
  BY <1>1
<1>4. PICK d \in D : \A e \in D : <<e, d>> \notin OpToRel(<, Nat)
  BY <1>1, <1>3, WFMin, NatLessThanWellFounded, Zenon
<1>5. \A e \in D : ~(e < d)
  BY <1>1, <1>4, Zenon DEF OpToRel
<1>6. \A i \in T : ~(n - i < d)
  BY <1>1, <1>5
<1> QED
  BY <1>1, <1>2, <1>6

\* What the last number of a set of revisions is.
LEMMA LastFacts ==
  ASSUME NEW R, R \subseteq Revision
  PROVE  /\ LastOf(R) \in 0..MaxPublications /\ \A r \in R : r.seq <= LastOf(R)
         /\ R = {} => LastOf(R) = 0
         /\ R # {} => LastOf(R) \in Sequence /\ \E r \in R : r.seq = LastOf(R)
<1>1. CASE R = {}
  BY <1>1, ConstantsAssumption DEF LastOf
<1>2. CASE R # {}
  <2> DEFINE T == {r.seq : r \in R}
  <2>1. T \subseteq 1..MaxPublications /\ T # {} /\ MaxPublications \in Nat
    BY <1>2, ConstantsAssumption DEF Revision, Sequence
  <2>2. PICK m \in T : \A k \in T : k <= m
    BY <2>1, Greatest
  <2>3. \E n \in Sequence : (\E r \in R : r.seq = n) /\ \A r \in R : r.seq <= n
    BY <2>1, <2>2 DEF Sequence
  <2>4. LastOf(R) \in Sequence /\ (\E r \in R : r.seq = LastOf(R)) /\ \A r \in R : r.seq <= LastOf(R)
    BY <1>2, <2>3 DEF LastOf
  <2> QED
    BY <1>2, <2>1, <2>4 DEF Sequence
<1> QED
  BY <1>1, <1>2

\* A sequence number has one revision.
LEMMA TheRevision ==
  ASSUME NEW R, \A r, q \in R : r.seq = q.seq => r = q, NEW r \in R
  PROVE  (CHOOSE q \in R : q.seq = r.seq) = r
OBVIOUS

\* What Latest and RevisionOf are of the revisions there are.
LEMMA LatestFacts ==
  ASSUME revisions \subseteq Revision, Numbered
  PROVE  /\ Latest \in 0..MaxPublications /\ MaxPublications \in Nat
         /\ \A r \in revisions : r.seq \in 1..Latest /\ RevisionOf(r.seq) = r
         /\ revisions = {} <=> Latest = 0
         /\ \A n \in 1..Latest : RevisionOf(n) \in revisions /\ RevisionOf(n).seq = n
                                   /\ RevisionOf(n).content \in Content
<1>1. /\ Latest \in 0..MaxPublications /\ \A r \in revisions : r.seq <= Latest
      /\ revisions = {} => Latest = 0
      /\ revisions # {} => Latest \in Sequence
  BY LastFacts DEF Latest
<1>2. MaxPublications \in Nat
  BY ConstantsAssumption
<1>3. \A r \in revisions : RevisionOf(r.seq) = r /\ r.seq \in Sequence /\ r.content \in Content
  BY TheRevision DEF Numbered, RevisionOf, Revision
<1>4. \A n \in 1..Latest : RevisionOf(n) \in revisions /\ RevisionOf(n).seq = n
  BY <1>3 DEF Numbered
<1> QED
  BY <1>1, <1>2, <1>3, <1>4 DEF Sequence

\* Publishing a revision again changes nothing of the sequence, a new revision
\* is its next.
LEMMA Grows ==
  ASSUME TypeOK, Numbered, NEW rev \in Revision, rev \notin revisions, Acceptable(rev),
         rev.seq <= Latest + 1, revisions' = revisions \cup {rev}
  PROVE  /\ rev.seq = Latest + 1 /\ Latest' = Latest + 1
         /\ \A r, q \in revisions' : r.seq = q.seq => r = q
         /\ \A n : n = Latest + 1 => RevisionOf(n)' = rev
         /\ \A n \in 1..Latest : RevisionOf(n)' = RevisionOf(n)
<1>1. /\ Latest \in Nat /\ \A r \in revisions : r.seq \in 1..Latest
      /\ \A n \in 1..Latest : RevisionOf(n) \in revisions /\ RevisionOf(n).seq = n
  BY LatestFacts DEF TypeOK
<1>2. rev.seq \in Nat /\ rev.seq >= 1
  BY DEF Revision, Sequence
<1>3. rev.seq = Latest + 1
  <2>1. \A r \in revisions : r.seq # rev.seq
    BY DEF Acceptable
  <2>2. rev.seq \notin 1..Latest
    BY <1>1, <2>1
  <2> QED
    BY <1>1, <1>2, <2>2
<1>4. \A r, q \in revisions' : r.seq = q.seq => r = q
  BY DEF Numbered, Acceptable
<1>5. revisions' \subseteq Revision /\ revisions' # {}
  BY DEF TypeOK
<1>6. Latest' = LastOf(revisions')
  BY DEF Latest, LastOf
<1>7. /\ Latest' \in Sequence /\ \A r \in revisions' : r.seq <= Latest'
      /\ \E r \in revisions' : r.seq = Latest'
  BY <1>5, <1>6, LastFacts
<1>8. Latest' = Latest + 1
  BY <1>1, <1>3, <1>7 DEF Sequence
<1>9. \A r \in revisions' : \A n : n = r.seq => RevisionOf(n)' = r
  BY <1>4, TheRevision DEF RevisionOf
<1>10. \A n \in 1..Latest : RevisionOf(n)' = RevisionOf(n)
  BY <1>1, <1>9
<1> QED
  BY <1>3, <1>4, <1>8, <1>9, <1>10

-----------------------------------------------------------------------------
(* The types.                                                              *)

\* The states of a publisher.
Pubs ==
  [pc : {"idle", "earlier", "store", "published"}, content : Content,
   since : 0..MaxPublications, at : 0..MaxPublications, seq : 0..MaxPublications,
   rev : SUBSET Revision]

\* The states of a fetch.
Fetches ==
  [pc : {"idle", "look", "unlink"}, content : Content, seq : 0..MaxPublications,
   todo : SUBSET Blob, missing : SUBSET Blob, damaged : SUBSET Blob]

\* The states in which nothing runs are among them.
LEMMA RestingType == Resting \in Pubs /\ NotFetching \in Fetches
<1>1. SomeContent \in Content /\ MaxPublications \in Nat
  BY ConstantsAssumption DEF SomeContent
<1> QED
  BY <1>1 DEF Resting, NotFetching, Pubs, Fetches

\* The initial state has its types.
LEMMA InitiallyTyped == ASSUME Init PROVE TypeOK
<1>1. MaxPublications \in Nat /\ MaxFaults \in Nat
  BY ConstantsAssumption
<1>2. pub \in [Publisher -> Pubs] /\ fetch \in [Fetcher -> Fetches]
  BY RestingType DEF Init
<1> QED
  BY <1>1, <1>2 DEF Init, TypeOK, Pubs, Fetches

\* Every step keeps the types.
LEMMA TypeKeeps ==
  ASSUME TypeOK, Numbered, Choosing, Storing, [Next]_vars PROVE TypeOK'
<1> USE DEF source, follower, bounds
<1>1. /\ MaxPublications \in Nat /\ MaxFaults \in Nat
      /\ Latest \in 0..MaxPublications /\ Latest <= publications
      /\ \A c : IsLatest(c) => Latest \in Sequence /\ RevisionOf(Latest) \in Revision
      /\ revisions # {} => RevisionOf(Latest).content \in Content /\ Latest \in Sequence
  BY LatestFacts, ConstantsAssumption DEF TypeOK, Numbered, IsLatest, Sequence
<1>2. /\ pub \in [Publisher -> Pubs] /\ fetch \in [Fetcher -> Fetches]
      /\ publications \in 0..MaxPublications /\ faults \in 0..MaxFaults
  BY DEF TypeOK, Pubs, Fetches
<1>3. ASSUME pub' \in [Publisher -> Pubs], UNCHANGED <<revisions, stored, lost, follower, faults>>,
             publications' \in 0..MaxPublications
      PROVE  TypeOK'
  BY <1>3 DEF TypeOK, Pubs
<1>4. ASSUME fetch' \in [Fetcher -> Fetches], cache' \in [Blob -> {"absent", "whole", "damaged"}],
             followed' \in 0..MaxPublications, used' \in [Blob -> {"absent", "whole", "damaged"}],
             UNCHANGED <<source, publications>>, faults' \in 0..MaxFaults
      PROVE  TypeOK'
  BY <1>4 DEF TypeOK, Fetches
<1>5. ASSUME NEW p \in Publisher, NEW c \in Content, ReadLatest(p, c) PROVE TypeOK'
  <2>1. publications' \in 0..MaxPublications /\ publications' = publications + 1
    BY <1>1, <1>2, <1>5 DEF ReadLatest, Begin
  <2>2. CASE IsLatest(c)
    <3>1. RevisionOf(Latest) \in Revision /\ RevisionOf(Latest).seq \in 0..MaxPublications
      BY <1>1, <2>2 DEF Revision, Sequence
    <3>2. [pc |-> "store", content |-> c, since |-> Latest, at |-> publications',
           seq |-> RevisionOf(Latest).seq, rev |-> {RevisionOf(Latest)}] \in Pubs
      BY <1>1, <2>1, <3>1 DEF Pubs
    <3> QED
      BY <1>2, <1>3, <1>5, <2>1, <2>2, <3>2 DEF ReadLatest, Begin, Republish
  <2>3. CASE ~IsLatest(c)
    <3>1. [pc |-> "earlier", content |-> c, since |-> Latest, at |-> publications',
           seq |-> Latest + 1, rev |-> {}] \in Pubs
      BY <1>1, <1>2, <2>1 DEF Pubs
    <3> QED
      BY <1>2, <1>3, <1>5, <2>1, <2>3, <3>1 DEF ReadLatest, Begin, Make
  <2> QED
    BY <2>2, <2>3
<1>6. ASSUME NEW p \in Publisher, FindEarlier(p) PROVE TypeOK'
  <2>1. pub[p] \in Pubs /\ pub[p].seq >= 1 /\ pub[p].at >= 1
    BY <1>2, <1>6 DEF FindEarlier, Choosing
  <2>2. \A z \in {0, pub[p].seq} :
          [id |-> <<pub[p].content, z>>, content |-> pub[p].content,
           seq |-> pub[p].seq, at |-> pub[p].at] \in Revision
    BY <1>1, <2>1 DEF Pubs, Revision, Id, Sequence
  <2>3. PICK rev \in Revision : pub' = [pub EXCEPT ![p].pc = "store", ![p].rev = {rev}]
    BY <1>6, <2>2 DEF FindEarlier
  <2>4. pub' \in [Publisher -> Pubs]
    <3>1. [pub[p] EXCEPT !.pc = "store", !.rev = {rev}] \in Pubs
      BY <2>1 DEF Pubs
    <3>2. pub' = [pub EXCEPT ![p] = [pub[p] EXCEPT !.pc = "store", !.rev = {rev}]]
      BY <1>2, <2>1, <2>3 DEF Pubs
    <3> QED
      BY <1>2, <3>1, <3>2
  <2> QED
    BY <1>2, <1>3, <1>6, <2>4 DEF FindEarlier
<1>7. ASSUME NEW p \in Publisher, Store(p) PROVE TypeOK'
  <2>1. PICK rev \in pub[p].rev, folder \in Content :
          IF BlobsAreStored(rev.content, folder) /\ Acceptable(rev)
          THEN /\ stored' = StoredBlobs(rev.content, folder)
               /\ lost' = lost \ BlobsOf[rev.content]
               /\ revisions' = revisions \cup {rev}
               /\ pub' = [pub EXCEPT ![p] = [Resting EXCEPT !.pc = "published",
                              !.content = rev.content, !.since = pub[p].since]]
          ELSE /\ pub' = [pub EXCEPT ![p] = Resting]
               /\ UNCHANGED <<stored, lost, revisions>>
    BY <1>7 DEF Store
  <2>2. rev \in Revision /\ rev.content \in Content
    BY <1>2, <2>1 DEF Pubs, Revision
  <2>3. StoredBlobs(rev.content, folder) \in [Blob -> {"absent", "whole"}]
    BY DEF StoredBlobs, TypeOK
  <2>4. [Resting EXCEPT !.pc = "published", !.content = rev.content, !.since = pub[p].since] \in Pubs
    BY <1>2, <2>2, RestingType DEF Pubs
  <2>5. pub' \in [Publisher -> Pubs]
    BY <1>2, <2>1, <2>4, RestingType
  <2>6. stored' \in [Blob -> {"absent", "whole"}] /\ revisions' \subseteq Revision /\ lost' \subseteq Blob
    BY <2>1, <2>2, <2>3 DEF TypeOK
  <2> QED
    BY <1>7, <2>5, <2>6 DEF Store, TypeOK, Pubs
<1>8. ASSUME NEW p \in Publisher, StopPublisher(p) PROVE TypeOK'
  BY <1>2, <1>3, <1>8, RestingType DEF StopPublisher
<1>9. CASE LoseBlob
  <2>1. PICK b \in Blob : stored' = [stored EXCEPT ![b] = "absent"] /\ lost' = lost \cup {b}
    BY <1>9 DEF LoseBlob
  <2>2. stored' \in [Blob -> {"absent", "whole"}] /\ lost' \subseteq Blob
    BY <2>1 DEF TypeOK
  <2>3. faults' \in 0..MaxFaults
    BY <1>1, <1>2, <1>9 DEF LoseBlob, Fault
  <2> QED
    BY <1>9, <2>2, <2>3 DEF LoseBlob, TypeOK
<1>10. ASSUME NEW f \in Fetcher, Failed(f) PROVE fetch' \in [Fetcher -> Fetches]
  BY <1>2, <1>10, RestingType DEF Failed
<1>11. ASSUME NEW f \in Fetcher, Select(f) PROVE TypeOK'
  <2>1. RevisionOf(Latest).content \in Content /\ Latest \in 0..MaxPublications
    BY <1>1, <1>11 DEF Select
  <2>2. BlobsOf[RevisionOf(Latest).content] \in SUBSET Blob
    BY <2>1, ConstantsAssumption
  <2>3. [NotFetching EXCEPT !.pc = "look", !.content = RevisionOf(Latest).content, !.seq = Latest,
           !.todo = BlobsOf[RevisionOf(Latest).content]] \in Fetches
    BY <2>1, <2>2, RestingType DEF Fetches
  <2>4. fetch' \in [Fetcher -> Fetches]
    BY <1>2, <1>11, <2>3 DEF Select
  <2> QED
    BY <1>2, <1>4, <1>11, <2>4 DEF Select, TypeOK
<1>12. ASSUME NEW f \in Fetcher, Look(f) PROVE TypeOK'
  <2>1. PICK b \in fetch[f].todo :
          fetch' = [fetch EXCEPT
            ![f].todo = @ \ {b},
            ![f].missing = IF cache[b] = "absent" THEN @ \cup {b} ELSE @,
            ![f].damaged = IF cache[b] = "damaged" THEN {b} ELSE {},
            ![f].pc = IF cache[b] = "damaged" THEN "unlink" ELSE "look"]
    BY <1>12 DEF Look
  <2>2. fetch[f] \in Fetches /\ b \in Blob
    BY <1>2, <2>1 DEF Fetches
  <2> DEFINE looked == [fetch[f] EXCEPT
            !.todo = @ \ {b},
            !.missing = IF cache[b] = "absent" THEN @ \cup {b} ELSE @,
            !.damaged = IF cache[b] = "damaged" THEN {b} ELSE {},
            !.pc = IF cache[b] = "damaged" THEN "unlink" ELSE "look"]
  <2>3. looked \in Fetches
    BY <2>2 DEF Fetches
  <2>4. fetch' = [fetch EXCEPT ![f] = looked]
    BY <1>2, <2>1
  <2>5. fetch' \in [Fetcher -> Fetches]
    BY <1>2, <2>3, <2>4
  <2> QED
    BY <1>2, <1>4, <1>12, <2>5 DEF Look, TypeOK
<1>13. ASSUME NEW f \in Fetcher, Unlink(f) PROVE TypeOK'
  <2>1. fetch' \in [Fetcher -> Fetches]
    BY ZenonT(40), <1>2, <1>13 DEF Unlink, Fetches
  <2>2. cache' \in [Blob -> {"absent", "whole", "damaged"}]
    BY <1>13 DEF Unlink, TypeOK
  <2> QED
    BY <1>2, <1>4, <1>13, <2>1, <2>2 DEF Unlink, TypeOK
<1>14. ASSUME NEW f \in Fetcher, Download(f) PROVE TypeOK'
  <2>1. fetch' \in [Fetcher -> Fetches]
    BY <1>2, <1>10, <1>14 DEF Download, Fetches
  <2>2. cache' \in [Blob -> {"absent", "whole", "damaged"}]
    BY <1>14 DEF Download, TypeOK
  <2> QED
    BY <1>2, <1>4, <1>14, <2>1, <2>2 DEF Download, TypeOK
<1>15. ASSUME NEW f \in Fetcher, Read(f) PROVE TypeOK'
  <2>1. fetch[f].seq \in 0..MaxPublications
    BY <1>2 DEF Fetches
  <2>2. followed' \in 0..MaxPublications
    BY <1>15, <2>1 DEF Read, TypeOK
  <2>3. used' \in [Blob -> {"absent", "whole", "damaged"}]
    BY <1>15 DEF Read, TypeOK
  <2> QED
    BY <1>2, <1>4, <1>10, <1>15, <2>2, <2>3 DEF Read, TypeOK
<1>16. ASSUME NEW f \in Fetcher, StopFetcher(f) PROVE TypeOK'
  <2>1. fetch' \in [Fetcher -> Fetches] /\ UNCHANGED <<source, cache, followed, used, publications>>
    BY <1>10, <1>16 DEF StopFetcher
  <2>2. faults' \in 0..MaxFaults
    BY <1>1, <1>2, <1>16 DEF StopFetcher, Fault
  <2> QED
    BY <1>4, <2>1, <2>2 DEF TypeOK
<1>17. CASE UNCHANGED vars
  BY <1>17 DEF vars, TypeOK
<1> QED
  BY <1>5, <1>6, <1>7, <1>8, <1>9, <1>11, <1>12, <1>13, <1>14, <1>15, <1>16, <1>17 DEF Next, FetchStep

-----------------------------------------------------------------------------
(* Publishing.                                                             *)

\* What is derived from the revisions changes with them.
LEMMA SameSequence ==
  ASSUME revisions' = revisions
  PROVE  /\ Latest' = Latest
         /\ \A n : RevisionOf(n)' = RevisionOf(n)
         /\ \A c : IsLatest(c)' = IsLatest(c)
         /\ \A c, n : Fits(c, n)' = Fits(c, n)
BY DEF Latest, RevisionOf, IsLatest, Fits

\* A step that leaves the revisions alone and moves at most one publisher.
LEMMA OnePublisher ==
  ASSUME TypeOK, Publishing, UNCHANGED revisions, publications' \in Nat, publications' >= publications,
         NEW p \in Publisher, \A q \in Publisher : q # p => pub'[q] = pub[q],
         pub'[p].pc = "earlier" =>
           /\ pub'[p].since <= pub'[p].seq /\ pub'[p].seq >= 1 /\ pub'[p].at >= 1
           /\ pub'[p].seq <= Latest + 1 /\ pub'[p].seq <= publications'
           /\ Fits(pub'[p].content, pub'[p].seq),
         pub'[p].pc = "store" =>
           \E rev \in Revision :
             /\ pub'[p].rev = {rev} /\ rev.content = pub'[p].content
             /\ pub'[p].since <= rev.seq /\ rev.seq <= publications'
             /\ rev \in revisions \/ (rev.seq <= Latest + 1 /\ Fits(rev.content, rev.seq)),
         pub'[p].pc # "published"
  PROVE  Publishing'
<1>1. /\ Latest' = Latest /\ Latest \in Nat /\ publications \in Nat
      /\ \A c, n : Fits(c, n)' = Fits(c, n)
  BY SameSequence, LatestFacts DEF TypeOK, Publishing
<1>2. Numbered'
  BY <1>1 DEF Publishing, Numbered
<1>3. Choosing'
  <2>1. \A q \in Publisher : pub[q].seq \in Nat
    BY DEF TypeOK
  <2> QED
    BY <1>1, <2>1 DEF Publishing, Choosing
<1>4. Storing'
  <2> SUFFICES ASSUME NEW q \in Publisher, q # p, pub[q].pc = "store"
               PROVE  \E rev \in Revision :
                        /\ pub[q].rev = {rev} /\ rev.content = pub[q].content
                        /\ pub[q].since <= rev.seq /\ rev.seq <= publications'
                        /\ rev \in revisions \/ (rev.seq <= Latest + 1 /\ Fits(rev.content, rev.seq))
    BY <1>1 DEF Storing
  <2>1. PICK rev \in Revision :
          /\ pub[q].rev = {rev} /\ rev.content = pub[q].content
          /\ pub[q].since <= rev.seq /\ rev.seq <= publications
          /\ rev \in revisions \/ (rev.seq <= Latest + 1 /\ Fits(rev.content, rev.seq))
    BY DEF Publishing, Storing
  <2>2. rev.seq \in Nat
    BY DEF Revision, Sequence
  <2> QED
    BY <1>1, <2>1, <2>2
<1>5. PublishedWasLatest'
  BY DEF Publishing, PublishedWasLatest
<1> QED
  BY <1>2, <1>3, <1>4, <1>5 DEF Publishing

\* A step of a follower, or of the Source, that publishes nothing.
LEMMA NoPublisher ==
  ASSUME Publishing, UNCHANGED <<revisions, pub, publications>>
  PROVE  Publishing'
<1>1. /\ Latest' = Latest /\ \A c, n : Fits(c, n)' = Fits(c, n)
  BY SameSequence
<1>2. Numbered' /\ Choosing'
  BY <1>1 DEF Publishing, Numbered, Choosing
<1>3. Storing'
  BY <1>1 DEF Publishing, Storing
<1>4. PublishedWasLatest'
  BY DEF Publishing, PublishedWasLatest
<1> QED
  BY <1>2, <1>3, <1>4 DEF Publishing

\* A revision that is stored is the next one, or is there already.
LEMMA Stored ==
  ASSUME TypeOK, Publishing, NEW p \in Publisher, Store(p)
  PROVE  \/ /\ revisions' = revisions
            /\ pub'[p].pc # "published" \/
                 \E rev \in revisions : rev.content = pub'[p].content /\ rev.seq >= pub'[p].since
         \/ \E rev \in Revision :
              /\ rev \notin revisions /\ revisions' = revisions \cup {rev}
              /\ Acceptable(rev) /\ rev.seq <= Latest + 1 /\ Fits(rev.content, rev.seq)
              /\ rev.seq <= publications
              /\ rev.content = pub'[p].content /\ rev.seq >= pub'[p].since
<1>1. PICK rev \in pub[p].rev, folder \in Content :
        IF BlobsAreStored(rev.content, folder) /\ Acceptable(rev)
        THEN /\ revisions' = revisions \cup {rev}
             /\ pub' = [pub EXCEPT ![p] = [Resting EXCEPT !.pc = "published",
                            !.content = rev.content, !.since = pub[p].since]]
        ELSE pub' = [pub EXCEPT ![p] = Resting] /\ UNCHANGED revisions
  BY DEF Store
<1>2. /\ rev \in Revision /\ pub[p].since <= rev.seq /\ rev.seq <= publications
      /\ rev \in revisions \/ (rev.seq <= Latest + 1 /\ Fits(rev.content, rev.seq))
  BY <1>1 DEF Store, Publishing, Storing
<1>3. pub[p].since \in Nat /\ rev.seq \in Nat
  BY <1>2 DEF TypeOK, Revision, Sequence
<1>4. CASE BlobsAreStored(rev.content, folder) /\ Acceptable(rev)
  <2>1. pub'[p].content = rev.content /\ pub'[p].since = pub[p].since
    BY <1>1, <1>4 DEF TypeOK, Resting
  <2> QED
    BY <1>1, <1>2, <1>3, <1>4, <2>1
<1>5. CASE ~(BlobsAreStored(rev.content, folder) /\ Acceptable(rev))
  <2>1. pub'[p].pc = "idle"
    BY <1>1, <1>5 DEF TypeOK, Resting
  <2> QED
    BY <1>1, <1>5, <2>1
<1> QED
  BY <1>4, <1>5

\* Storing a revision moves the numbers of those still to be stored on.
LEMMA StoreKeeps == ASSUME TypeOK, Publishing, NEW p \in Publisher, Store(p) PROVE Publishing'
<1>1. /\ \A q \in Publisher : q # p => pub'[q] = pub[q]
      /\ pub'[p].pc \notin {"earlier", "store"} /\ publications' = publications
      /\ publications \in Nat /\ Latest \in Nat
      /\ \A q \in Publisher : pub[q].seq \in Nat /\ pub[q].since \in Nat
  <2>1. /\ \A q \in Publisher : q # p => pub'[q] = pub[q]
        /\ pub'[p].pc \notin {"earlier", "store"}
    <3>1. \E rev \in pub[p].rev :
            \/ pub' = [pub EXCEPT ![p] = [Resting EXCEPT !.pc = "published",
                            !.content = rev.content, !.since = pub[p].since]]
            \/ pub' = [pub EXCEPT ![p] = Resting]
      BY DEF Store
    <3>2. \E x : x.pc \notin {"earlier", "store"} /\ pub' = [pub EXCEPT ![p] = x]
      BY <3>1 DEF Resting
    <3> QED
      BY <3>2 DEF TypeOK
  <2>2. /\ publications' = publications /\ publications \in Nat
        /\ \A q \in Publisher : pub[q].seq \in Nat /\ pub[q].since \in Nat
    BY DEF Store, TypeOK, bounds
  <2>3. Latest \in Nat
    BY LatestFacts DEF TypeOK, Publishing
  <2> QED
    BY <2>1, <2>2, <2>3
<1>2. CASE /\ revisions' = revisions
           /\ pub'[p].pc # "published" \/
                \E rev \in revisions : rev.content = pub'[p].content /\ rev.seq >= pub'[p].since
  <2>1. Latest' = Latest /\ \A c, n : Fits(c, n)' = Fits(c, n)
    BY <1>2, SameSequence
  <2>2. Numbered' /\ Choosing' /\ Storing'
    BY <1>1, <1>2, <2>1 DEF Publishing, Numbered, Choosing, Storing
  <2>3. PublishedWasLatest'
    BY <1>1, <1>2 DEF Publishing, PublishedWasLatest
  <2> QED
    BY <2>2, <2>3 DEF Publishing
<1>3. ASSUME NEW rev \in Revision, rev \notin revisions, revisions' = revisions \cup {rev},
             Acceptable(rev), rev.seq <= Latest + 1, rev.seq <= publications,
             rev.content = pub'[p].content, rev.seq >= pub'[p].since
      PROVE  Publishing'
  <2>1. /\ rev.seq = Latest + 1 /\ Latest' = Latest + 1
        /\ \A r, q \in revisions' : r.seq = q.seq => r = q
    BY <1>3, Grows DEF Publishing
  <2>2. \A c, n : n \in Nat /\ n <= Latest + 1 => n <= Latest' + 1 /\ Fits(c, n)'
    BY <1>1, <2>1 DEF Fits
  <2>3. Numbered'
    <3>1. ASSUME NEW n \in 1..(Latest + 1) PROVE \E r \in revisions' : r.seq = n
      BY <1>1, <1>3, <2>1, <3>1 DEF Publishing, Numbered
    <3> QED
      BY <1>1, <1>3, <2>1, <3>1 DEF Numbered
  <2>4. Choosing'
    BY <1>1, <2>2 DEF Publishing, Choosing
  <2>5. Storing'
    <3> SUFFICES ASSUME NEW q \in Publisher, q # p, pub[q].pc = "store"
                 PROVE  \E r \in Revision :
                          /\ pub[q].rev = {r} /\ r.content = pub[q].content
                          /\ pub[q].since <= r.seq /\ r.seq <= publications
                          /\ r \in revisions' \/ (r.seq <= Latest' + 1 /\ Fits(r.content, r.seq)')
      BY <1>1 DEF Storing
    <3>1. PICK r \in Revision :
            /\ pub[q].rev = {r} /\ r.content = pub[q].content
            /\ pub[q].since <= r.seq /\ r.seq <= publications
            /\ r \in revisions \/ (r.seq <= Latest + 1 /\ Fits(r.content, r.seq))
      BY DEF Publishing, Storing
    <3>2. r.seq \in Nat
      BY DEF Revision, Sequence
    <3> QED
      BY <1>3, <2>2, <3>1, <3>2
  <2>6. PublishedWasLatest'
    BY <1>1, <1>3 DEF Publishing, PublishedWasLatest
  <2> QED
    BY <2>3, <2>4, <2>5, <2>6 DEF Publishing
<1> QED
  BY <1>2, <1>3, Stored

\* Every step keeps what is published.
LEMMA PublishingKeeps == ASSUME TypeOK, Publishing, [Next]_vars PROVE Publishing'
<1> USE DEF source, follower, bounds
<1>1. /\ Latest \in Nat /\ publications \in Nat /\ Latest <= publications /\ Numbered
      /\ \A q \in Publisher : pub[q].seq \in Nat /\ pub[q].since \in Nat
  BY LatestFacts DEF TypeOK, Publishing, Numbered
<1>2. ASSUME NEW p \in Publisher, NEW c \in Content, ReadLatest(p, c) PROVE Publishing'
  <2>1. UNCHANGED revisions /\ publications' = publications + 1 /\ \A q \in Publisher : q # p => pub'[q] = pub[q]
    BY <1>2 DEF ReadLatest, Begin, Republish, Make, TypeOK
  <2>2. CASE IsLatest(c)
    <3>1. PICK r \in revisions : r.seq = Latest /\ r.content = c
      BY <2>2 DEF IsLatest
    <3>2. RevisionOf(Latest) = r /\ r \in Revision
      BY <1>1, <3>1, LatestFacts DEF TypeOK
    <3>3. pub'[p].pc = "store" /\ pub'[p].content = c /\ pub'[p].since = Latest /\ pub'[p].rev = {r}
      BY <1>2, <2>2, <3>2 DEF ReadLatest, Republish, TypeOK
    <3> QED
      BY <1>1, <2>1, <3>1, <3>2, <3>3, OnePublisher
  <2>3. CASE ~IsLatest(c)
    <3>1. /\ pub'[p].pc = "earlier" /\ pub'[p].content = c /\ pub'[p].since = Latest
          /\ pub'[p].seq = Latest + 1 /\ pub'[p].at = publications + 1
      BY <1>2, <2>1, <2>3 DEF ReadLatest, Make, TypeOK
    <3> QED
      BY <1>1, <2>1, <2>3, <3>1, OnePublisher DEF Fits
  <2> QED
    BY <2>2, <2>3
<1>3. ASSUME NEW p \in Publisher, FindEarlier(p) PROVE Publishing'
  <2>1. /\ pub[p].pc = "earlier" /\ pub[p].since <= pub[p].seq /\ pub[p].seq >= 1 /\ pub[p].at >= 1
        /\ pub[p].seq <= Latest + 1 /\ pub[p].seq <= publications /\ Fits(pub[p].content, pub[p].seq)
        /\ pub[p].content \in Content /\ pub[p].seq \in Sequence /\ pub[p].at \in 1..MaxPublications
        /\ MaxPublications \in Nat
    BY <1>3, ConstantsAssumption DEF FindEarlier, Publishing, Choosing, TypeOK, Sequence
  <2>2. \A z \in {0, pub[p].seq} :
          [id |-> <<pub[p].content, z>>, content |-> pub[p].content,
           seq |-> pub[p].seq, at |-> pub[p].at] \in Revision
    BY <2>1 DEF Revision, Id
  <2>3. PICK rev \in Revision :
          /\ pub' = [pub EXCEPT ![p].pc = "store", ![p].rev = {rev}]
          /\ rev.content = pub[p].content /\ rev.seq = pub[p].seq
    BY <1>3, <2>2 DEF FindEarlier
  <2>4. /\ pub'[p].pc = "store" /\ pub'[p].rev = {rev} /\ pub'[p].content = pub[p].content
        /\ pub'[p].since = pub[p].since /\ \A q \in Publisher : q # p => pub'[q] = pub[q]
    BY <2>3 DEF TypeOK
  <2>5. UNCHANGED revisions /\ publications' = publications
    BY <1>3 DEF FindEarlier
  <2>6. /\ rev.content = pub'[p].content /\ pub'[p].since <= rev.seq /\ rev.seq <= publications'
        /\ rev.seq <= Latest + 1 /\ Fits(rev.content, rev.seq)
    BY <2>1, <2>3, <2>4, <2>5
  <2> QED
    BY <1>1, <2>4, <2>5, <2>6, OnePublisher
<1>4. ASSUME NEW p \in Publisher, StopPublisher(p) PROVE Publishing'
  <2>1. /\ pub'[p].pc = "idle" /\ (\A q \in Publisher : q # p => pub'[q] = pub[q])
        /\ UNCHANGED <<revisions, publications>>
    BY <1>4 DEF StopPublisher, TypeOK, Resting
  <2> QED
    BY <1>1, <2>1, OnePublisher
<1>5. CASE UNCHANGED <<revisions, pub, publications>>
  BY <1>5, NoPublisher
<1> QED
  BY <1>2, <1>3, <1>4, <1>5, StoreKeeps
  DEF Next, FetchStep, LoseBlob, Select, Look, Unlink, Download, Read, StopFetcher, vars

-----------------------------------------------------------------------------
(* Following.                                                              *)

\* The sequence only grows, by a content that is not its last.
LEMMA SequenceKeeps ==
  ASSUME TypeOK, Publishing, [Next]_vars
  PROVE  /\ Latest \in Nat /\ Latest' \in Nat
         /\ \A n \in 1..Latest : RevisionOf(n)' = RevisionOf(n)
         /\ \/ Latest' = Latest /\ revisions' = revisions
            \/ /\ Latest' = Latest + 1 /\ UNCHANGED follower
               /\ \E rev \in Revision :
                    /\ \A n : n = Latest + 1 => RevisionOf(n)' = rev
                    /\ Latest # 0 => RevisionOf(Latest).content # rev.content
<1> USE DEF source, follower, bounds
<1>1. Latest \in Nat /\ (\A n \in 1..Latest : RevisionOf(n) \in revisions /\ RevisionOf(n).seq = n)
  BY LatestFacts DEF TypeOK, Publishing
<1>2. CASE revisions' = revisions
  BY <1>1, <1>2, SameSequence
<1>3. ASSUME NEW p \in Publisher, Store(p), revisions' # revisions
      PROVE  /\ Latest' = Latest + 1 /\ UNCHANGED follower
             /\ \A n \in 1..Latest : RevisionOf(n)' = RevisionOf(n)
             /\ \E rev \in Revision :
                  /\ \A n : n = Latest + 1 => RevisionOf(n)' = rev
                  /\ Latest # 0 => RevisionOf(Latest).content # rev.content
  <2>1. PICK rev \in Revision :
          /\ rev \notin revisions /\ revisions' = revisions \cup {rev}
          /\ Acceptable(rev) /\ rev.seq <= Latest + 1 /\ Fits(rev.content, rev.seq)
    BY <1>3, Stored
  <2>2. /\ rev.seq = Latest + 1 /\ Latest' = Latest + 1
        /\ \A n : n = Latest + 1 => RevisionOf(n)' = rev
        /\ \A n \in 1..Latest : RevisionOf(n)' = RevisionOf(n)
    BY <2>1, Grows DEF Publishing
  <2>3. Latest # 0 => RevisionOf(Latest).content # rev.content
    BY <1>1, <2>1, <2>2 DEF Fits, IsLatest
  <2> QED
    BY <1>3, <2>2, <2>3 DEF Store
<1>4. CASE \E p \in Publisher : Store(p)
  BY <1>1, <1>2, <1>3, <1>4
<1> QED
  BY <1>2, <1>4
  DEF Next, ReadLatest, Begin, FindEarlier, StopPublisher, FetchStep, LoseBlob,
      Select, Look, Unlink, Download, Read, StopFetcher, vars

\* A step of one command leaves the others as they are.
LEMMA OneFetcher ==
  ASSUME TypeOK, Following, Latest \in Nat, UNCHANGED revisions,
         \A b \in Blob : cache'[b] = "damaged" => cache[b] = "damaged",
         NEW f \in Fetcher, \A g \in Fetcher : g # f => fetch'[g] = fetch[g],
         fetch'[f].pc # "idle" =>
           /\ fetch'[f].todo \cup fetch'[f].missing \cup fetch'[f].damaged
                \subseteq BlobsOf[fetch'[f].content]
           /\ \A b \in BlobsOf[fetch'[f].content] :
                cache'[b] = "damaged" => b \in fetch'[f].todo \cup fetch'[f].damaged
           /\ fetch'[f].pc = "look" => fetch'[f].damaged = {}
           /\ fetch'[f].seq \in 1..Latest /\ fetch'[f].content = RevisionOf(fetch'[f].seq).content
  PROVE  Collected'
<1>1. Latest' = Latest /\ \A n : RevisionOf(n)' = RevisionOf(n)
  BY SameSequence
<1>2. \A g \in Fetcher : BlobsOf[fetch[g].content] \subseteq Blob
  BY ConstantsAssumption DEF TypeOK
<1> QED
  BY <1>1, <1>2 DEF Following, Collected

\* No step of a fetch, and none of another command between them, leaves damage
\* unnoticed: only what was whole or absent when a fetch looked is passed by.
LEMMA CollectedKeeps == ASSUME TypeOK, Publishing, Following, [Next]_vars PROVE Collected'
<1> USE DEF source, follower, bounds
<1>1. /\ Latest \in Nat /\ Latest' \in Nat /\ Latest' >= Latest
      /\ \A n \in 1..Latest : RevisionOf(n)' = RevisionOf(n)
  BY SequenceKeeps
<1>2. /\ fetch \in [Fetcher -> Fetches]
      /\ \A f \in Fetcher : BlobsOf[fetch[f].content] \subseteq Blob
      /\ Collected
  BY ConstantsAssumption DEF TypeOK, Fetches, Following
<1>3. CASE UNCHANGED <<cache, fetch>>
  BY <1>1, <1>2, <1>3 DEF Collected
<1>4. ASSUME NEW f \in Fetcher, Failed(f), UNCHANGED revisions,
             \A b \in Blob : cache'[b] = "damaged" => cache[b] = "damaged"
      PROVE  Collected'
  <2>1. fetch'[f].pc = "idle" /\ \A g \in Fetcher : g # f => fetch'[g] = fetch[g]
    BY <1>2, <1>4 DEF Failed, NotFetching
  <2> QED
    BY <1>1, <1>4, <2>1, OneFetcher
<1>5. ASSUME NEW f \in Fetcher, Select(f) PROVE Collected'
  <2>1. /\ fetch'[f].pc = "look" /\ fetch'[f].seq = Latest /\ fetch'[f].content = RevisionOf(Latest).content
        /\ fetch'[f].todo = BlobsOf[RevisionOf(Latest).content]
        /\ fetch'[f].missing = {} /\ fetch'[f].damaged = {}
        /\ \A g \in Fetcher : g # f => fetch'[g] = fetch[g]
        /\ UNCHANGED <<revisions, cache>>
    BY <1>2, <1>5 DEF Select, NotFetching
  <2>2. Latest \in 1..Latest
    BY <1>1, <1>5, LatestFacts DEF Select, TypeOK, Publishing
  <2> QED
    BY <1>1, <2>1, <2>2, OneFetcher
<1>6. ASSUME NEW f \in Fetcher, Look(f) PROVE Collected'
  <2>1. PICK b \in fetch[f].todo :
          fetch' = [fetch EXCEPT
            ![f].todo = @ \ {b},
            ![f].missing = IF cache[b] = "absent" THEN @ \cup {b} ELSE @,
            ![f].damaged = IF cache[b] = "damaged" THEN {b} ELSE {},
            ![f].pc = IF cache[b] = "damaged" THEN "unlink" ELSE "look"]
    BY <1>6 DEF Look
  <2>2. /\ fetch'[f].content = fetch[f].content /\ fetch'[f].seq = fetch[f].seq
        /\ fetch'[f].todo = fetch[f].todo \ {b}
        /\ fetch'[f].missing = IF cache[b] = "absent" THEN fetch[f].missing \cup {b} ELSE fetch[f].missing
        /\ fetch'[f].damaged = IF cache[b] = "damaged" THEN {b} ELSE {}
        /\ fetch'[f].pc = IF cache[b] = "damaged" THEN "unlink" ELSE "look"
        /\ \A g \in Fetcher : g # f => fetch'[g] = fetch[g]
    BY <1>2, <2>1 DEF Fetches
  <2>3. UNCHANGED <<revisions, cache>> /\ fetch[f].pc = "look"
    BY <1>6 DEF Look
  <2>4. /\ fetch[f].todo \cup fetch[f].missing \subseteq BlobsOf[fetch[f].content]
        /\ \A o \in BlobsOf[fetch[f].content] : cache[o] = "damaged" => o \in fetch[f].todo
        /\ fetch[f].seq \in 1..Latest /\ fetch[f].content = RevisionOf(fetch[f].seq).content
    BY <1>2, <2>3 DEF Collected
  <2>5. /\ fetch'[f].todo \cup fetch'[f].missing \cup fetch'[f].damaged \subseteq BlobsOf[fetch'[f].content]
        /\ \A o \in BlobsOf[fetch'[f].content] :
             cache'[o] = "damaged" => o \in fetch'[f].todo \cup fetch'[f].damaged
        /\ fetch'[f].pc = "look" => fetch'[f].damaged = {}
    <3>1. /\ fetch'[f].todo = fetch[f].todo \ {b} /\ cache' = cache /\ b \in fetch[f].todo
          /\ BlobsOf[fetch'[f].content] = BlobsOf[fetch[f].content]
      BY <2>1, <2>2, <2>3
    <3>2. CASE cache[b] = "damaged"
      <4>1. fetch'[f].missing = fetch[f].missing /\ fetch'[f].damaged = {b} /\ fetch'[f].pc = "unlink"
        BY <2>2, <3>2
      <4> QED
        BY <2>4, <3>1, <4>1
    <3>3. CASE cache[b] # "damaged"
      <4>1. fetch'[f].missing \subseteq fetch[f].missing \cup {b} /\ fetch'[f].damaged = {}
        BY <2>2, <3>3
      <4> QED
        BY <2>4, <3>1, <3>3, <4>1
    <3> QED
      BY <3>2, <3>3
  <2> QED
    BY <1>1, <2>2, <2>3, <2>4, <2>5, OneFetcher
<1>7. ASSUME NEW f \in Fetcher, Unlink(f) PROVE Collected'
  <2>1. /\ fetch'[f].content = fetch[f].content /\ fetch'[f].seq = fetch[f].seq
        /\ fetch'[f].todo = fetch[f].todo /\ fetch'[f].missing = fetch[f].missing \cup fetch[f].damaged
        /\ fetch'[f].damaged = {} /\ fetch'[f].pc = "look"
        /\ \A g \in Fetcher : g # f => fetch'[g] = fetch[g]
    BY <1>2, <1>7 DEF Unlink, Fetches
  <2>2. /\ \A b \in Blob : cache'[b] = IF b \in fetch[f].damaged THEN "absent" ELSE cache[b]
        /\ revisions' = revisions /\ fetch[f].pc = "unlink"
    BY <1>7 DEF Unlink
  <2> QED
    BY <1>1, <1>2, <2>1, <2>2, OneFetcher DEF Collected
<1>8. ASSUME NEW f \in Fetcher, Download(f) PROVE Collected'
  <2>1. PICK b \in fetch[f].missing :
          IF stored[b] = "whole"
          THEN /\ cache' = [cache EXCEPT ![b] = "whole"]
               /\ fetch' = [fetch EXCEPT ![f].missing = @ \ {b}]
          ELSE Failed(f) /\ UNCHANGED cache
    BY <1>8 DEF Download
  <2>2. \A o \in Blob : cache'[o] = "damaged" => cache[o] = "damaged"
    BY <2>1 DEF TypeOK
  <2>3. CASE Failed(f)
    BY <1>4, <1>8, <2>2, <2>3 DEF Download
  <2>4. CASE stored[b] = "whole"
    <3>1. /\ fetch'[f].content = fetch[f].content /\ fetch'[f].seq = fetch[f].seq
          /\ fetch'[f].todo = fetch[f].todo /\ fetch'[f].missing = fetch[f].missing \ {b}
          /\ fetch'[f].damaged = fetch[f].damaged /\ fetch'[f].pc = fetch[f].pc
          /\ \A g \in Fetcher : g # f => fetch'[g] = fetch[g]
      BY <1>2, <2>1, <2>4 DEF Fetches
    <3>2. UNCHANGED revisions
      BY <1>8 DEF Download
    <3> QED
      BY <1>1, <1>2, <2>2, <3>1, <3>2, OneFetcher DEF Collected
  <2> QED
    BY <2>1, <2>3, <2>4
<1> QED
  BY <1>3, <1>4, <1>5, <1>6, <1>7, <1>8
  DEF Next, FetchStep, ReadLatest, Begin, FindEarlier, Store, StopPublisher, LoseBlob,
      Read, StopFetcher, vars

\* The command with the run lock never goes back in the sequence.
LEMMA ForwardKeeps == ASSUME TypeOK, Publishing, Following, [Next]_vars PROVE Forward'
<1> USE DEF source, follower, bounds
<1>1. Latest \in Nat /\ Latest' \in Nat /\ Latest' >= Latest
  BY SequenceKeeps
<1>2. /\ fetch \in [Fetcher -> Fetches] /\ followed \in Nat /\ Applier \in Fetcher
      /\ followed <= Latest
      /\ fetch[Applier].pc # "idle" => fetch[Applier].seq >= followed
      /\ \A f \in Fetcher : fetch[f].pc # "idle" => fetch[f].seq \in 1..Latest
  BY ConstantsAssumption DEF TypeOK, Fetches, Following, Forward, Collected
<1>3. ASSUME followed' = followed,
             fetch'[Applier].pc # "idle" => fetch'[Applier].seq >= followed
      PROVE  Forward'
  BY <1>1, <1>2, <1>3 DEF Forward
<1>4. ASSUME NEW f \in Fetcher, Failed(f)
      PROVE  fetch'[Applier].pc # "idle" => fetch'[Applier].seq >= followed
  BY <1>2, <1>4 DEF Failed, NotFetching
<1>5. ASSUME NEW f \in Fetcher, Select(f) PROVE Forward'
  BY <1>2, <1>3, <1>5 DEF Select, NotFetching
<1>6. ASSUME NEW f \in Fetcher, Look(f) \/ Unlink(f) PROVE Forward'
  <2>1. \A g \in Fetcher : fetch'[g].seq = fetch[g].seq /\ (g # f => fetch'[g].pc = fetch[g].pc)
    <3>1. CASE Look(f)
      <4>1. PICK b \in fetch[f].todo :
              fetch' = [fetch EXCEPT
                ![f].todo = @ \ {b},
                ![f].missing = IF cache[b] = "absent" THEN @ \cup {b} ELSE @,
                ![f].damaged = IF cache[b] = "damaged" THEN {b} ELSE {},
                ![f].pc = IF cache[b] = "damaged" THEN "unlink" ELSE "look"]
        BY <3>1 DEF Look
      <4> QED
        BY <1>2, <4>1 DEF Fetches
    <3>2. CASE Unlink(f)
      BY <1>2, <3>2 DEF Unlink, Fetches
    <3> QED
      BY <1>6, <3>1, <3>2
  <2> QED
    BY <1>2, <1>3, <1>6, <2>1 DEF Look, Unlink
<1>7. ASSUME NEW f \in Fetcher, Download(f) PROVE Forward'
  <2>1. CASE Failed(f)
    BY <1>3, <1>4, <1>7, <2>1 DEF Download
  <2>2. CASE \E b : fetch' = [fetch EXCEPT ![f].missing = @ \ {b}]
    BY <1>2, <1>3, <1>7, <2>2 DEF Download, Fetches
  <2> QED
    BY <1>7, <2>1, <2>2 DEF Download
<1>8. ASSUME NEW f \in Fetcher, Read(f) PROVE Forward'
  <2>1. CASE followed' = followed
    BY <1>3, <1>4, <1>8, <2>1 DEF Read
  <2>2. CASE f = Applier /\ followed' = fetch[f].seq
    <3>1. fetch'[Applier].pc = "idle" /\ followed' <= Latest /\ revisions' = revisions
      BY <1>2, <1>8, <2>2 DEF Read, Failed, NotFetching
    <3> QED
      BY <1>1, <1>2, <2>2, <3>1, SameSequence DEF Forward
  <2> QED
    BY <1>8, <2>1, <2>2 DEF Read
<1>9. ASSUME NEW f \in Fetcher, StopFetcher(f) PROVE Forward'
  BY <1>3, <1>4, <1>9 DEF StopFetcher
<1>10. CASE UNCHANGED <<followed, fetch>>
  BY <1>2, <1>3, <1>10
<1> QED
  BY <1>5, <1>6, <1>7, <1>8, <1>9, <1>10
  DEF Next, FetchStep, ReadLatest, Begin, FindEarlier, Store, StopPublisher, LoseBlob, vars

\* What is applied was looked at, blob by blob, or fetched.
LEMMA AppliedKeeps == ASSUME TypeOK, Publishing, Following, [Next]_vars PROVE AppliedIsWhole'
<1> USE DEF source, follower, bounds
<1>1. /\ \A n \in 1..Latest : RevisionOf(n)' = RevisionOf(n)
      /\ followed \in Nat /\ followed <= Latest /\ Latest \in Nat
  BY SequenceKeeps DEF TypeOK, Following, Forward
<1>2. CASE UNCHANGED <<followed, used>>
  BY <1>1, <1>2 DEF Following, AppliedIsWhole
<1>3. ASSUME NEW f \in Fetcher, Read(f), f = Applier,
             \A b \in BlobsOf[fetch[f].content] : cache[b] # "absent",
             followed' = fetch[f].seq,
             used' = [b \in Blob |-> IF b \in BlobsOf[fetch[f].content] THEN cache[b] ELSE "absent"]
      PROVE  AppliedIsWhole'
  <2>1. /\ fetch[f].pc = "look" /\ fetch[f].todo = {} /\ fetch[f].missing = {}
        /\ revisions' = revisions
    BY <1>3 DEF Read
  <2>2. \A b \in BlobsOf[fetch[f].content] : b \in Blob /\ cache[b] = "whole"
    BY <1>3, <2>1, ConstantsAssumption DEF Following, Collected, TypeOK
  <2>3. {b \in Blob : used'[b] = "whole"} = BlobsOf[fetch[f].content]
    BY <1>3, <2>2
  <2>4. RevisionOf(followed)'.content = fetch[f].content
    <3>1. fetch[f].content = RevisionOf(fetch[f].seq).content
      BY <2>1 DEF Following, Collected
    <3>2. RevisionOf(fetch[f].seq) = RevisionOf(followed)'
      BY <1>3, <2>1 DEF RevisionOf
    <3> QED
      BY <3>1, <3>2
  <2> QED
    BY <2>3, <2>4 DEF AppliedIsWhole
<1> QED
  BY <1>2, <1>3
  DEF Next, FetchStep, ReadLatest, Begin, FindEarlier, Store, StopPublisher, LoseBlob,
      Select, Look, Unlink, Download, Read, StopFetcher, vars

\* The initial state satisfies the invariant.
LEMMA Initially == ASSUME Init PROVE IInv
<1>1. TypeOK
  BY InitiallyTyped
<1>2. Latest = 0 /\ revisions = {}
  BY DEF Init, Latest, LastOf
<1>3. Publishing
  BY <1>2 DEF Init, Publishing, Numbered, Choosing, Storing, PublishedWasLatest, Resting
<1>4. Following
  BY <1>2, ConstantsAssumption DEF Init, Following, Collected, Forward, AppliedIsWhole, NotFetching
<1> QED
  BY <1>1, <1>3, <1>4 DEF IInv

\* Whatever publishers, followers, losses and kills come between its steps,
\* the invariant holds.
LEMMA Always == Spec => []IInv
<1>1. Init => IInv
  BY Initially
<1>2. IInv /\ [Next]_vars => IInv'
  BY TypeKeeps, PublishingKeeps, CollectedKeeps, ForwardKeeps, AppliedKeeps
  DEF IInv, Publishing, Following
<1> QED
  BY <1>1, <1>2, PTL DEF Spec

\* Every variable keeps its type.
THEOREM TypeCorrect == Spec => []TypeOK
BY Always, PTL DEF IInv

\* Whoever is told that a content is published can rely on it having been the
\* latest since the command looked, for any number of publishers.
THEOREM PublishedContentsWereLatest == Spec => []PublishedWasLatest
BY Always, PTL DEF IInv, Publishing

\* What a follower applies is the whole of the revision it took, for any
\* number of commands that share its cache, whatever the cache held.
THEOREM AppliedContentsAreWhole == Spec => []AppliedIsWhole
BY Always, PTL DEF IInv, Following

-----------------------------------------------------------------------------
(* The refinement.                                                         *)

\* The log is a sequence of contents.
LEMMA LogType ==
  ASSUME TypeOK, Publishing
  PROVE  Log \in Seq(Content) /\ Len(Log) = Latest /\ Latest \in Nat
<1>1. Latest \in Nat /\ \A n \in 1..Latest : RevisionOf(n).content \in Content
  BY LatestFacts DEF TypeOK, Publishing
<1> QED
  BY <1>1 DEF Log

\* The log is appended to by a publication, and changed by nothing else.
LEMMA LogSteps ==
  ASSUME TypeOK, Publishing, [Next]_vars
  PROVE  \/ Log' = Log
         \/ /\ UNCHANGED follower
            /\ \E c \in Content : Log' = Append(Log, c) /\ (Log = <<>> \/ Log[Len(Log)] # c)
<1>1. /\ Latest \in Nat /\ Latest' \in Nat
      /\ \A n \in 1..Latest : RevisionOf(n)' = RevisionOf(n)
      /\ Log \in Seq(Content) /\ Len(Log) = Latest
  BY SequenceKeeps, LogType
<1>2. CASE Latest' = Latest
  BY <1>1, <1>2 DEF Log
<1>3. CASE /\ Latest' = Latest + 1 /\ UNCHANGED follower
           /\ \E rev \in Revision :
                /\ \A n : n = Latest + 1 => RevisionOf(n)' = rev
                /\ Latest # 0 => RevisionOf(Latest).content # rev.content
  <2>1. PICK rev \in Revision :
          /\ \A n : n = Latest + 1 => RevisionOf(n)' = rev
          /\ Latest # 0 => RevisionOf(Latest).content # rev.content
    BY <1>3
  <2>2. rev.content \in Content
    BY DEF Revision
  <2>3. Log' = [n \in 1..(Latest + 1) |-> IF n = Latest + 1 THEN rev.content ELSE Log[n]]
    <3>1. Log' = [n \in 1..(Latest + 1) |-> RevisionOf(n)'.content]
      BY <1>3 DEF Log
    <3>2. \A n \in 1..Latest : Log[n] = RevisionOf(n).content
      BY DEF Log
    <3>3. \A n \in 1..(Latest + 1) : RevisionOf(n)'.content = IF n = Latest + 1 THEN rev.content ELSE Log[n]
      BY <1>1, <2>1, <3>2
    <3> QED
      BY <3>1, <3>3
  <2>4. Log' = Append(Log, rev.content)
    <3> DEFINE longer == [n \in 1..(Latest + 1) |-> IF n = Latest + 1 THEN rev.content ELSE Log[n]]
    <3>1. longer = Append(Log, rev.content)
      BY <1>1, <2>2
    <3> QED
      BY <2>3, <3>1
  <2>5. Log = <<>> \/ Log[Len(Log)] # rev.content
    <3>1. CASE Latest = 0
      BY <1>1, <3>1
    <3>2. CASE Latest # 0
      BY <1>1, <2>1, <3>2 DEF Log
    <3> QED
      BY <3>1, <3>2
  <2> QED
    BY <1>3, <2>2, <2>4, <2>5
<1> QED
  BY <1>2, <1>3, SequenceKeeps

\* Only reading what was fetched follows, and only forward.
LEMMA FollowSteps ==
  ASSUME TypeOK, Publishing, Following, [Next]_vars
  PROVE  \/ followed' = followed
         \/ followed' > followed /\ followed' \in 1..Latest /\ revisions' = revisions
<1> USE DEF source, follower, bounds
<1>1. CASE UNCHANGED followed
  BY <1>1
<1>2. ASSUME NEW f \in Fetcher, Read(f), f = Applier, followed' = fetch[f].seq
      PROVE  \/ followed' = followed
             \/ followed' > followed /\ followed' \in 1..Latest /\ revisions' = revisions
  <2>1. fetch[f].pc # "idle" /\ revisions' = revisions
    BY <1>2 DEF Read
  <2>2. fetch[f].seq >= followed /\ fetch[f].seq \in 1..Latest /\ followed \in Nat
    BY <1>2, <2>1 DEF Following, Forward, Collected, TypeOK
  <2>3. Latest \in Nat
    BY LatestFacts DEF TypeOK, Publishing
  <2> QED
    BY <1>2, <2>1, <2>2, <2>3
<1> QED
  BY <1>1, <1>2
  DEF Next, FetchStep, ReadLatest, Begin, FindEarlier, Store, StopPublisher, LoseBlob,
      Select, Look, Unlink, Download, Read, StopFetcher, vars

\* Publishers and a follower, however they interleave, only ever append to one
\* sequence of contents, never the same twice in a row, and move forward in it.
THEOREM PublicationIsAFeed == Spec => ImplementsFeed
<1>1. Init => Feed!Init
  <2> SUFFICES ASSUME Init PROVE Feed!Init
    OBVIOUS
  <2>1. Latest = 0 /\ followed = 0
    BY DEF Init, Latest, LastOf
  <2> QED
    BY <2>1 DEF Feed!Init, Log
<1>2. IInv /\ [Next]_vars => [Feed!Next]_(Feed!vars)
  <2> SUFFICES ASSUME IInv, [Next]_vars PROVE Feed!Next \/ UNCHANGED <<Log, followed>>
    BY DEF Feed!vars
  <2>1. CASE /\ UNCHANGED follower
             /\ \E c \in Content : Log' = Append(Log, c) /\ (Log = <<>> \/ Log[Len(Log)] # c)
    BY <2>1 DEF Feed!Next, Feed!Publish, follower
  <2>2. CASE Log' = Log
    <3>1. CASE followed' = followed
      BY <2>2, <3>1
    <3>2. CASE followed' > followed /\ followed' \in 1..Latest
      <4>1. followed' \in 1..Len(Log)
        BY <3>2, LogType DEF IInv
      <4>2. Feed!Follow(followed')
        BY <2>2, <3>2 DEF Feed!Follow
      <4> QED
        BY <4>1, <4>2 DEF Feed!Next
    <3> QED
      BY <3>1, <3>2, FollowSteps DEF IInv
  <2> QED
    BY <2>1, <2>2, LogSteps DEF IInv
<1> QED
  BY <1>1, <1>2, Always, PTL DEF Spec, ImplementsFeed, Feed!Spec
==============================================================================
