------------------------------- MODULE RunLock -------------------------------
(***************************************************************************)
(* The run lock: an exclusively created file beside the state database     *)
(* that lets one process at a time apply, recover or abandon the           *)
(* follower's run (src/src/synchronization/run-lock.ts).                   *)
(*                                                                         *)
(* Every file-system call of acquire, inspectHolder, removeStaleLock and   *)
(* release is a step of its own, because another process can run between   *)
(* any two awaits.  The lock PATH names at most one file; a file keeps     *)
(* its identity (the inode) when it is renamed away or unlinked, so an     *)
(* owner may go on writing a file that the path no longer names.           *)
(*                                                                         *)
(* Abstractions: a record's text is its token, one per acquisition; a      *)
(* partially written record is as unreadable as an empty one; the clock    *)
(* is an Age step that makes a file older than the grace of 5 seconds;     *)
(* a process is never restarted under its old name.                        *)
(***************************************************************************)
EXTENDS Naturals, FiniteSets

CONSTANTS
  Proc,             \* the processes that contend for the lock
  MaxTries,         \* bound: acquisitions one process starts
  MaxCrashes,       \* bound: processes that are killed
  MayStall,         \* may a process pause beyond the grace within acquire?
  NoFile,           \* the lock path names no file
  Empty             \* what a file holds before its record is written

ASSUME ConstantsAssumption ==
  /\ MaxTries \in Nat \ {0}
  /\ MaxCrashes \in Nat
  /\ MayStall \in BOOLEAN
  /\ NoFile \notin Proc \X Nat
  /\ Empty \notin Proc \X Nat

VARIABLES
  path,         \* the file the lock path names, or NoFile
  written,      \* the files that hold their owner's record
  identified,   \* the records that carry their owner's birth identity
  aged,         \* the files last modified longer ago than the grace
  pc,           \* where each process is
  tries,        \* acquisitions each process has started
  text,         \* what each process read at the path
  old,          \* the processes that read a modification time beyond the grace
  retired,      \* the file each process moved aside
  reused,       \* dead processes whose PID an unrelated process now has
  misdirected   \* history: some rename moved the lock of its current owner

vars == <<path, written, identified, aged, pc, tries, text, old, retired,
          reused, misdirected>>

\* The variables of the file at the path, and those of one inspection.
fileVars == <<path, written, identified, aged>>
readVars == <<text, old, retired>>

File == Proc \X Nat

\* The file of p's current or last acquisition, and the owner of a file.
FileOf(p) == <<p, tries[p]>>
Owner(f)  == f[1]

\* Where a process is after it created the lock and before it gave it up.
Owning == {"write", "critical", "release", "unlink"}

\* Where a process is while acquire is running.
Acquiring == {"open", "inspect", "stat", "read", "judge", "rename",
              "compare", "relink", "discard", "write"}

Text(f) == IF f \in written THEN f ELSE Empty

Transition(p, from, to) ==
  /\ pc[p] = from
  /\ pc' = [pc EXCEPT ![p] = to]

Init ==
  /\ path = NoFile
  /\ written = {}
  /\ identified = {}
  /\ aged = {}
  /\ pc = [p \in Proc |-> "idle"]
  /\ tries = [p \in Proc |-> 0]
  /\ text = [p \in Proc |-> Empty]
  /\ old = {}
  /\ retired = [p \in Proc |-> NoFile]
  /\ reused = {}
  /\ misdirected = FALSE

-----------------------------------------------------------------------------
(* acquire: create the file exclusively, then write the record into it.    *)

Begin(p) ==
  /\ tries[p] < MaxTries
  /\ Transition(p, "idle", "open")
  /\ tries' = [tries EXCEPT ![p] = @ + 1]
  /\ UNCHANGED <<fileVars, readVars, reused, misdirected>>

\* Mutant: the lock file is created without the exclusive flag.
MutantCreate(p) ==
  /\ Transition(p, "open", "write")
  /\ path' = FileOf(p)
  /\ UNCHANGED <<written, identified, aged, tries, readVars, reused, misdirected>>

Create(p) ==
  /\ path = NoFile
  /\ Transition(p, "open", "write")
  /\ path' = FileOf(p)
  /\ UNCHANGED <<written, identified, aged, tries, readVars, reused, misdirected>>

CreateExists(p) ==
  /\ path # NoFile
  /\ Transition(p, "open", "inspect")
  /\ UNCHANGED <<fileVars, tries, readVars, reused, misdirected>>

\* The record is complete.  The own identity may be unknown: withRunLock does
\* not require it.
Recorded(p) ==
  /\ written' = written \cup {FileOf(p)}
  /\ \E known \in BOOLEAN :
       identified' = IF known THEN identified \cup {FileOf(p)} ELSE identified
  /\ aged' = aged \ {FileOf(p)}
  /\ UNCHANGED path

WriteRecord(p) ==
  /\ Transition(p, "write", "critical")
  /\ Recorded(p)
  /\ UNCHANGED <<tries, readVars, reused, misdirected>>

\* A full disk, or a sync or close that fails: acquire throws and leaves the
\* file behind, empty or with the complete record of a live process.
WriteFails(p) ==
  /\ Transition(p, "write", "idle")
  /\ Recorded(p) \/ UNCHANGED fileVars
  /\ UNCHANGED <<tries, readVars, reused, misdirected>>

-----------------------------------------------------------------------------
(* inspectHolder: readFile and stat run concurrently, each on whatever     *)
(* file the path names at that moment; ENOENT from either means missing.   *)

\* What an inspection read is local to one iteration of acquire's loop.
Forget(p) ==
  /\ text' = [text EXCEPT ![p] = Empty]
  /\ old' = old \ {p}

Missing(p) ==
  /\ pc[p] \in {"inspect", "stat", "read"}
  /\ path = NoFile
  /\ pc' = [pc EXCEPT ![p] = "open"]
  /\ Forget(p)
  /\ UNCHANGED <<fileVars, tries, retired, reused, misdirected>>

ReadText(p) ==
  /\ path # NoFile
  /\ \/ Transition(p, "inspect", "stat")
     \/ Transition(p, "read", "judge")
  /\ text' = [text EXCEPT ![p] = Text(path)]
  /\ UNCHANGED <<fileVars, tries, old, retired, reused, misdirected>>

ReadTime(p) ==
  /\ path # NoFile
  /\ \/ Transition(p, "inspect", "read")
     \/ Transition(p, "stat", "judge")
  /\ old' = IF path \in aged THEN old \cup {p} ELSE old \ {p}
  /\ UNCHANGED <<fileVars, tries, text, retired, reused, misdirected>>

\* Mutant: any error of the signal is taken for a missing process.
MutantPidExists(f) == FALSE

\* Does signal 0 find a process under the PID of this record's owner?
PidExists(f) == pc[Owner(f)] # "dead" \/ Owner(f) \in reused

\* What the inspection concludes; an identity lookup may also fail, which
\* never justifies stealing the lock.
Stale(p, lookup) ==
  \/ text[p] = Empty /\ p \in old
  \/ /\ text[p] # Empty
     /\ \/ ~PidExists(text[p])
        \/ /\ text[p] \in identified
           /\ pc[Owner(text[p])] = "dead"
           /\ lookup

JudgeStale(p) ==
  /\ \E lookup \in BOOLEAN : Stale(p, lookup)
  /\ Transition(p, "judge", "rename")
  /\ UNCHANGED <<fileVars, tries, readVars, reused, misdirected>>

\* Mutant: acquire waits for the holder instead of giving up.
MutantJudgeLive(p) ==
  /\ \E lookup \in BOOLEAN : ~Stale(p, lookup)
  /\ Transition(p, "judge", "open")
  /\ Forget(p)
  /\ UNCHANGED <<fileVars, tries, retired, reused, misdirected>>

\* The lock is held: acquire returns RunLockHeldError.
JudgeLive(p) ==
  /\ \E lookup \in BOOLEAN : ~Stale(p, lookup)
  /\ Transition(p, "judge", "idle")
  /\ Forget(p)
  /\ UNCHANGED <<fileVars, tries, retired, reused, misdirected>>

-----------------------------------------------------------------------------
(* removeStaleLock: move the file aside, compare it with the text that was *)
(* judged stale, and link it back when it is another one.                  *)

Rename(p) ==
  /\ path # NoFile
  /\ Transition(p, "rename", "compare")
  /\ retired' = [retired EXCEPT ![p] = path]
  /\ path' = NoFile
  /\ misdirected' = (misdirected \/ \E q \in Proc : pc[q] \in Owning /\ path = FileOf(q))
  /\ UNCHANGED <<written, identified, aged, tries, text, old, reused>>

RenameMissing(p) ==
  /\ path = NoFile
  /\ Transition(p, "rename", "open")
  /\ Forget(p)
  /\ UNCHANGED <<fileVars, tries, retired, reused, misdirected>>

Compare(p) ==
  /\ Transition(p, "compare",
                IF Text(retired[p]) = text[p] THEN "discard" ELSE "relink")
  /\ UNCHANGED <<fileVars, tries, readVars, reused, misdirected>>

\* link never replaces an existing file: EEXIST is swallowed.
Relink(p) ==
  /\ Transition(p, "relink", "discard")
  /\ path' = IF path = NoFile THEN retired[p] ELSE path
  /\ UNCHANGED <<written, identified, aged, tries, readVars, reused, misdirected>>

Discard(p) ==
  /\ Transition(p, "discard", "open")
  /\ retired' = [retired EXCEPT ![p] = NoFile]
  /\ Forget(p)
  /\ UNCHANGED <<fileVars, tries, reused, misdirected>>

-----------------------------------------------------------------------------
(* The critical section ends; release unlinks the path when the record it  *)
(* reads there carries the own token.                                      *)

Leave(p) ==
  /\ Transition(p, "critical", "release")
  /\ UNCHANGED <<fileVars, tries, readVars, reused, misdirected>>

ReadOwn(p) ==
  /\ Transition(p, "release",
                IF path # NoFile /\ Text(path) = FileOf(p) THEN "unlink" ELSE "idle")
  /\ UNCHANGED <<fileVars, tries, readVars, reused, misdirected>>

Unlink(p) ==
  /\ Transition(p, "unlink", "idle")
  /\ path' = NoFile
  /\ UNCHANGED <<written, identified, aged, tries, readVars, reused, misdirected>>

-----------------------------------------------------------------------------
(* The environment: time, killed processes and recycled PIDs.              *)

\* The file at the path can only grow older than the grace while a process is
\* paused: its creator before the write, or an inspector that read no text
\* before the write and has yet to read the time.
OnlyStallAges ==
  \/ pc[Owner(path)] = "write" /\ path = FileOf(Owner(path))
  \/ path \in written /\ \E p \in Proc : pc[p] = "stat" /\ text[p] = Empty

Age ==
  /\ path # NoFile
  /\ path \notin aged
  /\ OnlyStallAges => MayStall
  /\ aged' = aged \cup {path}
  /\ UNCHANGED <<path, written, identified, pc, tries, readVars, reused, misdirected>>

Crash(p) ==
  /\ pc[p] # "dead"
  /\ Cardinality({q \in Proc : pc[q] = "dead"}) < MaxCrashes
  /\ pc' = [pc EXCEPT ![p] = "dead"]
  /\ UNCHANGED <<fileVars, tries, readVars, reused, misdirected>>

ReusePid(p) ==
  /\ pc[p] = "dead"
  /\ p \notin reused
  /\ reused' = reused \cup {p}
  /\ UNCHANGED <<fileVars, pc, tries, readVars, misdirected>>

AcquireStep(p) ==
  \/ Create(p) \/ CreateExists(p) \/ WriteRecord(p) \/ WriteFails(p)
  \/ Missing(p) \/ ReadText(p) \/ ReadTime(p) \/ JudgeStale(p) \/ JudgeLive(p)
  \/ Rename(p) \/ RenameMissing(p) \/ Compare(p) \/ Relink(p) \/ Discard(p)

ReleaseStep(p) == Leave(p) \/ ReadOwn(p) \/ Unlink(p)

Next ==
  \/ \E p \in Proc : Begin(p) \/ AcquireStep(p) \/ ReleaseStep(p)
  \/ \E p \in Proc : Crash(p) \/ ReusePid(p)
  \/ Age

Spec == Init /\ [][Next]_vars

\* A live process keeps running its acquire and its release; nothing makes
\* a process start one, time pass, or a process die.
FairSpec == Spec /\ \A p \in Proc : WF_vars(AcquireStep(p)) /\ WF_vars(ReleaseStep(p))
-----------------------------------------------------------------------------
(* Properties.                                                             *)

\* Every variable keeps its type (RunLockProofs proves it).
TypeOK ==
  /\ path \in File \cup {NoFile}
  /\ written \subseteq File
  /\ identified \subseteq written
  /\ aged \subseteq File
  /\ pc \in [Proc -> Acquiring \cup Owning \cup {"idle", "dead"}]
  /\ tries \in [Proc -> Nat]
  /\ text \in [Proc -> File \cup {Empty}]
  /\ old \subseteq Proc
  /\ retired \in [Proc -> File \cup {NoFile}]
  /\ reused \subseteq Proc
  /\ misdirected \in BOOLEAN

\* One process at a time may apply, recover or abandon a follower's run: the
\* promise of the comment on runLockPath.
MutualExclusion ==
  \A p, q \in Proc : pc[p] = "critical" /\ pc[q] = "critical" => p = q

\* Two processes apply at once only after some removeStaleLock has moved
\* away the lock of its current owner: no other step of the protocol, in no
\* interleaving, costs the exclusion.
DoubleHolderNeedsMisdirection == ~misdirected => MutualExclusion

\* Until a rename goes astray, the lock path names the file of the process
\* that owns the lock, so its release finds and unlinks its own file.
OwnerNamesPath ==
  ~misdirected => \A p \in Proc : pc[p] \in Owning => path = FileOf(p)

\* A readable record is judged stale only when its owner is dead, and stays
\* so judged only because death is final: removal never starts from the
\* record of a live process, whatever PIDs are reused in the meantime.
StaleRecordsAreOfTheDead ==
  \A p \in Proc :
    pc[p] \in {"rename", "compare", "relink", "discard"} /\ text[p] # Empty
      => pc[Owner(text[p])] = "dead"

\* An acquisition ends: the process gets the lock or is told who holds it.
AcquireEnds ==
  \A p \in Proc : pc[p] \in Acquiring ~> pc[p] \in {"critical", "idle", "dead"}
==============================================================================
