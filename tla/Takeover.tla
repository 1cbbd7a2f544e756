------------------------------ MODULE Takeover ------------------------------
(***************************************************************************)
(* How the user's own content survives being taken over: the commands      *)
(* `sync --apply`, `restore`, `import --replace`, `recover` and `abandon`  *)
(* of src/src/projection/sync.ts, with the takeover snapshots of           *)
(* projection/takeover.ts, the rows of harness_takeovers, the applied      *)
(* resource records and the run the shared engine keeps.  Three stores are *)
(* changed one after the other, around a run that can end in five ways.    *)
(*                                                                         *)
(* Abstractions: one command at a time (RunLock.tla is about the lock); a  *)
(* surface is a whole file whose harness has no other surface, so config   *)
(* keys, append-local text and shared skills are left out; the engine's    *)
(* run is begin, write, commit per surface, and its rollback is one step   *)
(* (SynchronizationRun.tla is about the steps in between); each run writes *)
(* one snapshot at most, which is named by the run, as their names sort by *)
(* the time of writing; a snapshot appears at once, by the rename of its   *)
(* temporary directory; the user edits while no run is open.               *)
(***************************************************************************)
EXTENDS Naturals, FiniteSets

CONSTANTS
  Harness,      \* the surfaces of harnesses
  Folder,       \* the entries of the Canonical Folder
  Recent,       \* how many of the latest snapshots retention keeps (4)
  MaxRuns,      \* bound: runs
  MaxEdits,     \* bound: edits by the user
  MaxFaults     \* bound: errors and stopped commands

ASSUME ConstantsAssumption ==
  /\ Harness \cap Folder = {}
  /\ Recent \in Nat /\ MaxRuns \in Nat /\ MaxEdits \in Nat /\ MaxFaults \in Nat

Surface == Harness \cup Folder
Run == 1..MaxRuns

\* What a path holds: Canonfig's content, nothing, or a version of the user's.
Projected == 0
Absent == 1
Original == 2
Content == 0..(Original + MaxEdits)

None == Original + MaxEdits + 1     \* no record
NoRow == [run |-> 0, snapshot |-> 0]
NoEntry == None

VARIABLES
  file,       \* what each surface holds
  record,     \* the content of its applied resource record, or None
  row,        \* its harness_takeovers row, or NoRow
  snaps,      \* .backups: per run the captured content of each surface
  excluded,   \* excludeHarnesses in local.jsonc
  open,       \* the run the engine keeps open, or Closed
  started,    \* the surfaces whose action the latest run journaled
  recorded,   \* the runs the engine recorded
  cmd,        \* the command in progress
  runs, edits, faults,
  last,       \* history: the user's latest version of each surface
  forgone,    \* history: content pruned, or taken over with backups off
  exposed,    \* history: content without a copy that a recovery took over again
  left,       \* history: surfaces a run retired
  partial,    \* history: runs whose rollback was incomplete
  halted      \* history: runs whose command was stopped or failed

disk == <<file, excluded, snaps>>
tables == <<record, row, open, started, recorded>>
history == <<last, forgone, exposed, left, partial, halted>>
vars == <<disk, tables, cmd, runs, edits, faults, history>>

\* What a run is about: the content it gives each surface it plans, the
\* surfaces it writes whatever they hold, and those whose ownership it ends;
\* with the files and records from before, the engine's progress, and whether
\* an abandonment removed the rollback snapshots of its actions.
Closed == [run |-> 0, kind |-> "none", target |-> [s \in Surface |-> NoEntry],
           forced |-> {}, ends |-> {}, file |-> [s \in Surface |-> Absent],
           record |-> [s \in Surface |-> None], done |-> {}, wrote |-> {},
           cleaned |-> FALSE]

Idle == [pc |-> "idle", run |-> 0, plan |-> Closed, capture |-> {}, backed |-> FALSE,
         drop |-> {}]

Planned(p) == {s \in Surface : p.target[s] # NoEntry}
NoSnapshot == [s \in Surface |-> NoEntry]
Captured(id) == {s \in Surface : snaps[id][s] # NoEntry}
Snapshots == {id \in Run : Captured(id) # {}}

Fault == faults < MaxFaults /\ faults' = faults + 1
Goto(to) == cmd' = [cmd EXCEPT !.pc = to]

\* A step that fails ends the command where it stands.
Failing ==
  /\ Fault
  /\ cmd' = Idle
  /\ halted' = halted \cup {cmd.run}

Init ==
  /\ file = [s \in Surface |-> Original]
  /\ record = [s \in Surface |-> None]
  /\ row = [s \in Surface |-> NoRow]
  /\ snaps = [id \in Run |-> NoSnapshot]
  /\ excluded = {}
  /\ open = Closed
  /\ started = {}
  /\ recorded = {}
  /\ cmd = Idle
  /\ runs = 0 /\ edits = 0 /\ faults = 0
  /\ last = file
  /\ forgone = {} /\ exposed = {} /\ left = {} /\ partial = {} /\ halted = {}

-----------------------------------------------------------------------------
(* Planning a run.                                                         *)

\* What a plan says of the surfaces it gives a content.
Plan(kind, target, forced, ends) ==
  [Closed EXCEPT !.run = runs + 1, !.kind = kind, !.target = target, !.forced = forced,
                 !.ends = ends, !.file = file, !.record = record]

\* A run begins; an open one is refused by startRun, and by then the command
\* has nothing to undo but its own: it is left out.
Begin(plan, capture, backed) ==
  /\ cmd.pc = "idle" /\ open = Closed
  /\ runs < MaxRuns
  /\ Planned(plan) # {}
  /\ runs' = runs + 1
  /\ cmd' = [Idle EXCEPT !.pc = IF capture # {} /\ backed THEN "capture" ELSE "revision",
                         !.run = runs + 1, !.plan = plan, !.capture = capture,
                         !.backed = capture # {} /\ backed]
  /\ UNCHANGED <<disk, tables, edits, faults, last, exposed, left, partial, halted>>

\* planFolder: the listed surfaces are projected, one without a row is taken
\* over whatever it holds, and an applied one that is no longer listed retires.
\* The plan has no action for one that the user edited (planRemovedResource): it
\* keeps the edit, and its record too, since a run drops the records of what it
\* removed only.
SynchronizeLocal(listed, backup) ==
  LET wanted == listed \ excluded
      retired == {s \in Harness \ (wanted \cup excluded) :
                    record[s] # None /\ file[s] \in {record[s], Absent}}
      pending == {s \in wanted : row[s] = NoRow}
      target == [s \in Surface |-> IF s \in wanted THEN Projected
                                   ELSE IF s \in retired THEN Absent ELSE NoEntry]
  IN /\ Begin(Plan("sync", target, pending, retired), pending, backup)
     /\ forgone' = forgone \cup
          {<<s, file[s]>> : s \in IF backup THEN {} ELSE pending}

\* planRestore refuses a surface that changed or that has no record; entries
\* of the folder are written whatever it holds.
Restorable(id) ==
  /\ id \in Snapshots
  /\ \A s \in Captured(id) \cap Harness : record[s] # None /\ file[s] = record[s]
  /\ \A s \in Captured(id) \cap Folder : snaps[id][s] # Absent

\* restore, after a snapshot of the folder entries it replaces.
RestoreLocal(id) ==
  /\ Restorable(id)
  /\ Begin(Plan("restore", snaps[id], Captured(id), Captured(id)),
           {s \in Captured(id) \cap Folder : file[s] # Absent}, TRUE)
  /\ UNCHANGED forgone

ImportLocal(entries) ==
  /\ entries # {}
  /\ Begin(Plan("import", [s \in Surface |-> IF s \in entries THEN Projected ELSE NoEntry],
                entries, entries),
           {s \in entries : file[s] # Absent}, TRUE)
  /\ UNCHANGED forgone

-----------------------------------------------------------------------------
(* runProjection (and the same of restore and import) up to the run.       *)

WriteTakeoverSnapshot ==
  /\ cmd.pc = "capture"
  /\ \/ /\ snaps' = [snaps EXCEPT ![cmd.run] =
             [s \in Surface |-> IF s \in cmd.capture THEN file[s] ELSE NoEntry]]
        /\ Goto("revision")
        /\ UNCHANGED <<faults, halted>>
     \/ Failing /\ UNCHANGED snaps
  /\ UNCHANGED <<file, excluded, tables, runs, edits, last, forgone, exposed, left, partial>>

\* recordLocalRevision; an error from here on is answered by Undo.
RecordLocalRevision ==
  /\ cmd.pc = "revision"
  /\ \/ Goto("rows") /\ UNCHANGED faults
     \/ Fault /\ Goto("undo")
  /\ UNCHANGED <<disk, tables, runs, edits, history>>

RecordHarnessTakeovers ==
  /\ cmd.pc = "rows"
  /\ \/ /\ row' = IF cmd.plan.kind # "sync" THEN row
                  ELSE [s \in Surface |->
                         IF s \in cmd.capture
                         THEN [run |-> cmd.run, snapshot |-> IF cmd.backed THEN cmd.run ELSE 0]
                         ELSE row[s]]
        /\ Goto("start")
        /\ UNCHANGED faults
     \/ Fault /\ Goto("undo") /\ UNCHANGED row
  /\ UNCHANGED <<disk, record, open, started, recorded, runs, edits, history>>

\* storeArtifacts and startRun.
StartRun ==
  /\ cmd.pc = "start"
  /\ \/ /\ open' = cmd.plan
        /\ recorded' = recorded \cup {cmd.run}
        /\ started' = {}
        /\ Goto("engine")
        /\ UNCHANGED faults
     \/ Fault /\ Goto("undo") /\ UNCHANGED <<open, started, recorded>>
  /\ UNCHANGED <<disk, record, row, runs, edits, history>>

\* The run was not recorded: its rows go, then its snapshot.
Undo ==
  /\ cmd.pc = "undo"
  /\ \/ /\ row' = [s \in Surface |-> IF row[s].run = cmd.run THEN NoRow ELSE row[s]]
        /\ Goto("undo snapshot")
        /\ UNCHANGED <<faults, halted>>
     \/ Failing /\ UNCHANGED row
  /\ UNCHANGED <<disk, record, open, started, recorded, runs, edits, last, forgone, exposed,
                 left, partial>>

-----------------------------------------------------------------------------
(* The engine's run.                                                       *)

\* One action at a time: no other one has begun and is not done.
InEngine(s) ==
  /\ cmd.pc = "engine"
  /\ s \in Planned(open) \ open.done
  /\ started \subseteq open.done \cup {s}

\* replace-if-unmodified: the surface holds neither what is planned nor what
\* was last applied; absence is no edit.
Drifted(s) ==
  /\ s \notin open.forced
  /\ open.file[s] \notin {open.target[s], open.record[s], Absent}

BeginAction(s) ==
  /\ InEngine(s)
  /\ ~Drifted(s)
  /\ open.file[s] # open.target[s]
  /\ started' = started \cup {s}
  /\ Goto("engine")
  /\ UNCHANGED <<disk, record, row, open, recorded, runs, edits, faults, history>>

Write(s) ==
  /\ InEngine(s)
  /\ s \in started \ open.wrote
  /\ file' = [file EXCEPT ![s] = open.target[s]]
  /\ open' = [open EXCEPT !.wrote = @ \cup {s}]
  /\ UNCHANGED <<excluded, snaps, record, row, started, recorded, cmd, runs, edits, faults,
                 history>>

Commit(s) ==
  /\ InEngine(s)
  /\ \/ s \in open.wrote
     \/ ~Drifted(s) /\ open.file[s] = open.target[s]       \* a no-op
  /\ record' = IF s \notin open.wrote THEN record
               ELSE [record EXCEPT ![s] = IF open.target[s] = Absent THEN None
                                          ELSE open.target[s]]
  /\ open' = [open EXCEPT !.done = @ \cup {s}]
  /\ left' = IF open.target[s] = Absent THEN left \cup {s} ELSE left
  /\ UNCHANGED <<disk, row, started, recorded, cmd, runs, edits, faults, last, forgone,
                 exposed, partial, halted>>

\* completeRun, then the removal of the rollback snapshots, whose failure ends
\* the command before anything of the takeover is finished.
Close(to) ==
  /\ open' = Closed
  /\ \/ Goto(to) /\ UNCHANGED <<faults, halted>>
     \/ Failing

\* One transaction gives every verified surface its record and takes those of
\* the surfaces whose ownership ends.
Converge ==
  /\ cmd.pc = "engine" /\ open.done = Planned(open)
  /\ record' = [s \in Surface |-> IF s \in open.ends THEN None
                                  ELSE IF s \in open.done THEN open.target[s] ELSE record[s]]
  /\ Close(IF open.kind = "restore" THEN "release restored" ELSE "prune")
  /\ UNCHANGED <<disk, row, started, recorded, runs, edits, last, forgone, exposed, left, partial>>

\* A drifted surface, or one that needs a person, stops the run early.
StopEarly(s) ==
  /\ InEngine(s)
  /\ s \notin started
  /\ Drifted(s) \/ open.kind = "sync"
  /\ Close("release")
  /\ UNCHANGED <<disk, record, row, started, recorded, runs, edits, last, forgone, exposed, left,
                 partial>>

\* Undoing the writes of a failed run, except those whose inverse fails.
Restored(kept) == started \ kept

Fail(kept) ==
  /\ cmd.pc = "engine"
  /\ kept \subseteq open.wrote
  /\ file' = [s \in Surface |-> IF s \in Restored(kept) THEN open.file[s] ELSE file[s]]
  /\ record' = [s \in Surface |-> IF s \in Restored(kept) THEN open.record[s] ELSE record[s]]
  /\ partial' = IF kept # {} THEN partial \cup {cmd.run} ELSE partial
  /\ open' = Closed
  /\ \/ /\ cmd' = IF kept = {} THEN [cmd EXCEPT !.pc = "forget"]
                   ELSE [cmd EXCEPT !.pc = "release restored part",
                                    !.drop = {s \in Surface : row[s].run = cmd.run} \ kept]
        /\ UNCHANGED <<faults, halted>>
     \/ Failing
  /\ UNCHANGED <<excluded, snaps, row, started, recorded, runs, edits, last, forgone, exposed,
                 left>>

\* An executor that gives up undoes nothing and lists nothing.
GiveUp ==
  /\ cmd.pc = "engine"
  /\ Fault
  /\ open' = Closed
  /\ partial' = partial \cup {cmd.run}
  /\ cmd' = Idle
  /\ UNCHANGED <<disk, record, row, started, recorded, runs, edits, last, forgone, exposed, left,
                 halted>>

-----------------------------------------------------------------------------
(* finishProjectionRun, one store after the other.                         *)

Without(rows) == [s \in Surface |-> IF s \in rows THEN NoRow ELSE row[s]]

\* removeRunTakeovers of a failed run, and then its snapshot.
Forget ==
  /\ cmd.pc = "forget"
  /\ \/ /\ row' = Without({s \in Surface : row[s].run = cmd.run})
        /\ Goto("delete")
        /\ UNCHANGED <<faults, halted>>
     \/ Failing /\ UNCHANGED row
  /\ UNCHANGED <<disk, record, open, started, recorded, runs, edits, last, forgone, exposed,
                 left, partial>>

DeleteSnapshot ==
  /\ cmd.pc \in {"delete", "undo snapshot"}
  /\ \/ /\ snaps' = [snaps EXCEPT ![cmd.run] = NoSnapshot]
        /\ cmd' = Idle
        /\ UNCHANGED <<faults, halted>>
     \/ Failing /\ UNCHANGED snaps
  /\ UNCHANGED <<file, excluded, tables, runs, edits, last, forgone, exposed, left, partial>>

\* Mutant: an incomplete rollback keeps every row, and drops the entries.
MutantReleaseRestored ==
  /\ cmd.pc = "release restored part"
  /\ Goto("drop")
  /\ UNCHANGED <<disk, tables, runs, edits, faults, history>>

\* An incomplete rollback keeps the rows of what it could not undo.
ReleaseRestored ==
  /\ cmd.pc = "release restored part"
  /\ \/ /\ row' = Without(cmd.drop)
        /\ Goto("drop")
        /\ UNCHANGED <<faults, halted>>
     \/ Failing /\ UNCHANGED row
  /\ UNCHANGED <<disk, record, open, started, recorded, runs, edits, last, forgone, exposed,
                 left, partial>>

Unapplied == {s \in Surface : row[s].run = cmd.run /\ record[s] = None}

\* Mutant: the entries of every released surface are dropped.
MutantNeverStarted == Unapplied

NeverStarted == Unapplied \ started

\* Mutant: an early stop releases nothing.
MutantReleaseUnapplied ==
  /\ cmd.pc = "release"
  /\ cmd' = [cmd EXCEPT !.pc = "drop", !.drop = {}]
  /\ UNCHANGED <<disk, tables, runs, edits, faults, history>>

\* releaseUnappliedTakeovers: rows first, then the entries of the snapshot
\* whose action never started.
ReleaseUnapplied ==
  /\ cmd.pc = "release"
  /\ \/ /\ row' = Without(Unapplied)
        /\ cmd' = [cmd EXCEPT !.pc = "drop", !.drop = NeverStarted]
        /\ UNCHANGED <<faults, halted>>
     \/ Failing /\ UNCHANGED row
  /\ UNCHANGED <<disk, record, open, started, recorded, runs, edits, last, forgone, exposed,
                 left, partial>>

\* Where dropSnapshotEntries returns to: an abandonment closes the run next.
AfterDrop ==
  IF open # Closed THEN "close" ELSE IF cmd.run \in partial THEN "idle" ELSE "prune"

DropSnapshotEntries ==
  /\ cmd.pc = "drop"
  /\ \/ /\ snaps' = [snaps EXCEPT ![cmd.run] =
             [s \in Surface |-> IF s \in cmd.drop THEN NoEntry ELSE @[s]]]
        /\ IF AfterDrop = "idle" THEN cmd' = Idle ELSE Goto(AfterDrop)
        /\ UNCHANGED <<faults, halted>>
     \/ Failing /\ UNCHANGED snaps
  /\ UNCHANGED <<file, excluded, tables, runs, edits, last, forgone, exposed, left, partial>>

\* finishRestore: the rows of the restored surfaces, then their exclusion.
ReleaseRestoredRows ==
  /\ cmd.pc = "release restored"
  /\ \/ /\ row' = Without(Planned(cmd.plan) \cap Harness)
        /\ Goto("exclude")
        /\ UNCHANGED <<faults, halted>>
     \/ Failing /\ UNCHANGED row
  /\ UNCHANGED <<disk, record, open, started, recorded, runs, edits, last, forgone, exposed,
                 left, partial>>

EditLocalList ==
  /\ cmd.pc = "exclude"
  /\ \/ /\ excluded' = excluded \cup (Planned(cmd.plan) \cap Harness)
        /\ Goto("prune")
        /\ UNCHANGED <<faults, halted>>
     \/ Failing /\ UNCHANGED excluded
  /\ UNCHANGED <<file, snaps, tables, runs, edits, last, forgone, exposed, left, partial>>

HoldsFolder(id) == Captured(id) \cap Folder # {}

\* The oldest of a set of snapshots.
First(ids) == {id \in ids : \A other \in ids : id <= other}

\* pruneSnapshots keeps the first of each kind and the latest.
Pruned ==
  {id \in Snapshots :
    /\ Cardinality({other \in Snapshots : other > id}) >= Recent
    /\ id \notin First({other \in Snapshots : HoldsFolder(other)})
    /\ id \notin First({other \in Snapshots : ~HoldsFolder(other)})}

PruneSnapshots ==
  /\ cmd.pc = "prune"
  /\ snaps' = [id \in Run |-> IF id \in Pruned THEN NoSnapshot ELSE snaps[id]]
  /\ forgone' = forgone \cup {<<s, snaps[id][s]>> : s \in Surface, id \in Pruned}
  /\ cmd' = Idle
  /\ UNCHANGED <<file, excluded, tables, runs, edits, faults, last, exposed, left, partial, halted>>

-----------------------------------------------------------------------------
(* The commands for an open run, the user, and the end of a process.       *)

\* What a recovery may write that no entry of its run's snapshot holds, since
\* an abandonment dropped it.
Uncaptured == {<<s, file[s]>> : s \in Planned(open) \ Captured(open.run)}

\* recover resumes the persisted plan in a fresh process; a started action
\* whose rollback snapshot an abandonment removed cannot be inspected, and the
\* recovery is refused.
RecoverLocal ==
  /\ cmd.pc = "idle" /\ open # Closed
  /\ open.cleaned => started = {}
  /\ cmd' = [Idle EXCEPT !.pc = "engine", !.run = open.run, !.plan = open]
  /\ open' = [open EXCEPT !.cleaned = FALSE]
  /\ exposed' = IF open.cleaned THEN exposed \cup Uncaptured ELSE exposed
  /\ UNCHANGED <<disk, record, row, started, recorded, runs, edits, faults, last, forgone, left,
                 partial, halted>>

\* abandon removes the rollback snapshots, releases, and closes the run last.
AbandonLocal ==
  /\ cmd.pc = "idle" /\ open # Closed
  /\ cmd' = [Idle EXCEPT !.pc = "release", !.run = open.run, !.plan = open]
  /\ open' = [open EXCEPT !.cleaned = TRUE]
  /\ UNCHANGED <<disk, record, row, started, recorded, runs, edits, faults, history>>

CloseAbandoned ==
  /\ cmd.pc = "close"
  /\ open' = Closed
  /\ cmd' = Idle
  /\ UNCHANGED <<disk, record, row, started, recorded, runs, edits, faults, history>>

\* A kill, or an interruption: what a command does on errors it does not do
\* then.  An interrupted engine leaves its run open.
Stop ==
  /\ cmd.pc # "idle"
  /\ Failing
  /\ UNCHANGED <<disk, tables, runs, edits, last, forgone, exposed, left, partial>>

UserEdit(s) ==
  /\ cmd.pc = "idle" /\ open = Closed
  /\ edits < MaxEdits
  /\ edits' = edits + 1
  /\ file' = [file EXCEPT ![s] = Original + edits + 1]
  /\ last' = [last EXCEPT ![s] = Original + edits + 1]
  /\ UNCHANGED <<excluded, snaps, tables, cmd, runs, faults, forgone, exposed, left, partial,
                 halted>>

\* `harnesses include`.
Include(s) ==
  /\ cmd.pc = "idle"
  /\ s \in excluded
  /\ excluded' = excluded \ {s}
  /\ UNCHANGED <<file, snaps, tables, cmd, runs, edits, faults, history>>

EngineStep ==
  \/ \E s \in Surface : BeginAction(s) \/ Write(s) \/ Commit(s) \/ StopEarly(s)
  \/ \E kept \in SUBSET open.wrote : Fail(kept)
  \/ GiveUp \/ Converge

Next ==
  \/ \E listed \in SUBSET Harness, backup \in BOOLEAN : SynchronizeLocal(listed, backup)
  \/ \E id \in Run : RestoreLocal(id)
  \/ \E entries \in SUBSET Folder : ImportLocal(entries)
  \/ WriteTakeoverSnapshot \/ RecordLocalRevision \/ RecordHarnessTakeovers
  \/ StartRun \/ Undo \/ EngineStep
  \/ Forget \/ DeleteSnapshot \/ ReleaseRestored \/ ReleaseUnapplied
  \/ DropSnapshotEntries \/ ReleaseRestoredRows \/ EditLocalList \/ PruneSnapshots
  \/ RecoverLocal \/ AbandonLocal \/ CloseAbandoned
  \/ Stop
  \/ \E s \in Surface : UserEdit(s) \/ Include(s)

Spec == Init /\ [][Next]_vars

-----------------------------------------------------------------------------
\* The latest version the user wrote of a surface is on the disk or in a
\* takeover snapshot, whatever became of the runs since, unless retention
\* pruned it or it was taken over with backups off.  Nor does it cover a run
\* recovered after an abandonment that dropped the entry and was stopped: that
\* recovery writes the surface, and no copy of its content is left.
LastVersionKept ==
  \A s \in Surface :
    \/ file[s] = last[s]
    \/ \E id \in Snapshots : snaps[id][s] = last[s]
    \/ <<s, last[s]>> \in forgone \cup exposed

\* A row that names a snapshot names one that holds the surface, unless
\* retention pruned it: rows are released before their snapshot is dropped.
RowsResolve ==
  \A s \in Surface : row[s].snapshot # 0 =>
    \/ s \in Captured(row[s].snapshot)
    \/ \E c \in Content : <<s, c>> \in forgone

\* At rest a surface that has a row was applied, or has retired; otherwise its
\* run's rollback was incomplete, or its command was stopped half way.
RowsAreApplied ==
  cmd.pc = "idle" /\ open = Closed =>
    \A s \in Surface :
      \/ row[s] = NoRow
      \/ record[s] # None
      \/ s \in left
      \/ row[s].run \in partial
      \/ \E r \in halted : r >= row[s].run

\* At rest every row belongs to a run the engine recorded: what stops a run
\* before that leaves no takeover behind.  No run checks this: it holds when
\* the start fails, and not when the process is stopped.
NoTakeoverBehind ==
  cmd.pc = "idle" => \A s \in Surface : row[s] # NoRow => row[s].run \in recorded
=============================================================================
