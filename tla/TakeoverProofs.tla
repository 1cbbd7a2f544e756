--------------------------- MODULE TakeoverProofs ---------------------------
(***************************************************************************)
(* What TLAPS proves of taking over, giving back, recovering and           *)
(* abandoning the user's surfaces, for any surfaces, retention and numbers *)
(* of runs, edits, errors and kills: the user's latest version of every    *)
(* surface is kept, a row names a snapshot that holds its surface, and at  *)
(* rest a row is of an applied surface.                                    *)
(*                                                                         *)
(* Phase says where a command can be while its run is, or is not, the open *)
(* one.  Saved, the strengthening for the user's versions, says which      *)
(* other copy a surface has before the run may write it, that the current  *)
(* run's own snapshot only matters for what it planned to write whatever   *)
(* it holds (a record or a snapshot's content that is the latest version   *)
(* has a copy elsewhere), and that an entry is dropped only while the      *)
(* surface holds the same.  RowsKept says that rows are released before    *)
(* the entries they name, and Applied, of each row, why it is there.       *)
(***************************************************************************)
EXTENDS Takeover, TLAPS

\* The content there is after n edits.
Known(n) == 0..(Original + n)

\* What a run is about.
Kinds == {"none", "sync", "restore", "import"}

\* Where a command is before its run is recorded.
Starting == {"capture", "revision", "rows", "start", "undo", "undo snapshot"}

\* Where an abandonment is, and a run that stopped early.
Closing == {"release", "drop", "close"}

\* Where a command is once its run has ended.
Finishing ==
  {"forget", "delete", "release restored part", "release restored", "exclude", "prune"}

\* Where a command can be.
Stages == {"idle", "engine"} \cup Starting \cup Closing \cup Finishing

\* What a run can be about, after n edits.
Plans(n) ==
  [run : 0..MaxRuns, kind : Kinds, target : [Surface -> Known(n) \cup {NoEntry}],
   forced : SUBSET Surface, ends : SUBSET Surface, file : [Surface -> Known(n)],
   record : [Surface -> Known(n) \cup {None}], done : SUBSET Surface, wrote : SUBSET Surface,
   cleaned : BOOLEAN]

\* What a command can be doing, after n edits.
Commands(n) ==
  [pc : Stages, run : 0..MaxRuns, plan : Plans(n), capture : SUBSET Surface, backed : BOOLEAN,
   drop : SUBSET Surface]

\* The types of the paths, of the snapshots and of the exclusions.
DiskType ==
  /\ file \in [Surface -> Known(edits)]
  /\ snaps \in [Run -> [Surface -> Known(edits) \cup {NoEntry}]]
  /\ excluded \in SUBSET Surface

\* The types of the records, of the rows and of the engine's run.
TableType ==
  /\ record \in [Surface -> Known(edits) \cup {None}]
  /\ row \in [Surface -> [run : 0..MaxRuns, snapshot : 0..MaxRuns]]
  /\ open \in Plans(edits)
  /\ started \in SUBSET Surface
  /\ recorded \in SUBSET (0..MaxRuns)

\* The type of the command in progress.
CommandType == cmd \in Commands(edits)

\* The bounds of the counters.
CountType ==
  /\ runs \in 0..MaxRuns
  /\ edits \in 0..MaxEdits
  /\ faults \in 0..MaxFaults

\* The types of the history variables: the user's versions are no other content.
HistoryType ==
  /\ last \in [Surface -> Original..(Original + edits)]
  /\ forgone \in SUBSET (Surface \X (Content \cup {NoEntry}))
  /\ exposed \in SUBSET (Surface \X (Content \cup {NoEntry}))
  /\ left \in SUBSET Surface
  /\ partial \in SUBSET (0..MaxRuns)
  /\ halted \in SUBSET (0..MaxRuns)

\* The types of all the variables.
TypeOK == DiskType /\ TableType /\ CommandType /\ CountType /\ HistoryType

\* The plan of the current run.
PlanShape(p) ==
  /\ p.run = runs /\ runs \in Run
  /\ p.kind # "none"
  /\ p.kind = "sync" => \A s \in p.ends : p.target[s] = Absent
  /\ p.kind = "restore" => p.ends = Planned(p)
  /\ p.kind = "import" => p.ends \subseteq Folder

\* Where a command can be, and what it knows there.
CommandStage ==
  /\ cmd.pc = "idle" => cmd = Idle
  /\ cmd.pc # "idle" => cmd.run = runs /\ runs \in Run
  /\ cmd.pc \in Starting =>
       /\ open = Closed
       /\ PlanShape(cmd.plan)
       /\ cmd.plan.file = file /\ cmd.plan.record = record
       /\ cmd.plan.done = {} /\ cmd.plan.wrote = {} /\ ~cmd.plan.cleaned
  /\ cmd.pc = "engine" => open # Closed /\ cmd.plan.target = open.target /\ ~open.cleaned
  /\ cmd.pc = "close" => open # Closed

\* While a run is open it is the latest, and only what it wrote has changed.
OpenStage ==
  open # Closed =>
    /\ PlanShape(open)
    /\ cmd.pc \in {"idle", "engine"} \cup Closing
    /\ cmd.pc \in Closing => open.cleaned
    /\ open.wrote \subseteq started
    /\ \A s \in Surface \ open.wrote : file[s] = open.file[s]

\* A snapshot is written once, by its run.
Unwritten ==
  /\ \A id \in Run : id > runs => snaps[id] = NoSnapshot
  /\ cmd.pc = "capture" => snaps[runs] = NoSnapshot

\* The strengthening that the others rest on.
Phase == CommandStage /\ OpenStage /\ Unwritten

\* The user's latest version of a surface has a copy, or was given up.
Preserved(s) == <<s, last[s]>> \in forgone \cup exposed \/ \E id \in Run : snaps[id][s] = last[s]

\* The run the current command is for, or the open one.
Working == IF cmd.pc = "idle" THEN open.run ELSE cmd.run

\* The same, and the copy is not in the snapshot of the current run.
Elsewhere(s) ==
  \/ <<s, last[s]>> \in forgone \cup exposed
  \/ \E id \in Run : id # Working /\ snaps[id][s] = last[s]

\* A content is the user's latest version of the surface, or that one has a copy.
Kept(s, c) == c = last[s] \/ Preserved(s)

\* What a run that has not begun may write has a copy, or is about to.
StartCovered ==
  cmd.pc \in Starting =>
    \A s \in Surface :
      /\ cmd.plan.target[s] = last[s] => Elsewhere(s)
      /\ cmd.pc \in {"revision", "rows", "start"} /\ s \in cmd.plan.forced => Preserved(s)
      /\ cmd.pc = "capture" /\ s \in cmd.plan.forced => Preserved(s) \/ s \in cmd.capture

\* What an open run may write has a copy, unless an abandonment dropped it.
OpenCovered ==
  open # Closed =>
    \A s \in Surface :
      /\ open.target[s] = last[s] => Elsewhere(s)
      /\ open.record[s] = last[s] => Elsewhere(s)
      /\ Kept(s, open.file[s])
      /\ s \in open.forced \cap Planned(open) /\ ~open.cleaned => Preserved(s)
      /\ s \in started => Preserved(s)
      /\ snaps[runs][s] \in {NoEntry, open.file[s]}

\* The surfaces whose entries the command may drop from its snapshot.
Droppable ==
  IF cmd.pc \in Starting \cup {"forget", "delete"} THEN Surface
  ELSE IF cmd.pc \in {"release restored part", "drop"} THEN cmd.drop
  ELSE IF cmd.pc = "release" THEN Surface \ started
  ELSE {}

\* These surfaces hold what their entries do.
CopiesMatch ==
  /\ \A s \in Droppable : snaps[runs][s] \in {NoEntry, file[s]}
  /\ cmd.pc = "drop" /\ open # Closed => cmd.drop \cap started = {}

\* What a surface holds is the latest version, or that one is kept.
FileKept == \A s \in Surface : Kept(s, file[s])

\* A record of the latest version has a copy that the current run cannot drop.
RecordKept == \A s \in Surface : record[s] = last[s] => Elsewhere(s)

\* The strengthening of LastVersionKept.
Saved == FileKept /\ RecordKept /\ StartCovered /\ OpenCovered /\ CopiesMatch

\* What a row can name.
RowsShape ==
  \A s \in Surface :
    /\ row[s].run <= runs
    /\ row[s].snapshot \in {0, row[s].run}
    /\ s \in Folder => row[s] = NoRow

\* Rows are recorded after their snapshot is written, and released before an
\* entry of it is dropped.
RowsReleased ==
  /\ cmd.pc \in {"revision", "rows"} /\ cmd.backed => cmd.capture \subseteq Captured(cmd.run)
  /\ cmd.pc \in {"undo snapshot", "delete"} => \A s \in Surface : row[s].run # cmd.run
  /\ cmd.pc = "drop" => \A s \in cmd.drop : row[s].run # cmd.run

\* The strengthening of RowsResolve.
RowsKept == RowsShape /\ RowsReleased /\ RowsResolve

\* A row that may stay, when the record of its surface is c.
Settled(s, c) ==
  \/ row[s] = NoRow
  \/ c # None
  \/ s \in left
  \/ row[s].run \in partial
  \/ \E r \in halted : r >= row[s].run

\* While the rows of the current run are still to be released, or to be applied.
Pending ==
  \/ cmd.pc \in (Starting \ {"undo snapshot"}) \cup {"engine", "forget", "release"}
  \/ cmd.pc = "idle" /\ open # Closed

\* Why a row is there.
RowSettled(s) ==
  \/ Settled(s, record[s])
  \/ Pending /\ row[s].run = runs
  \/ cmd.pc = "release restored" /\ s \in Planned(cmd.plan) \cap Harness

\* Every row is there for a reason.
AllSettled == \A s \in Surface : RowSettled(s)

\* The rows of the current run are of surfaces it plans to project.
RowPlan(p) ==
  \A s \in Surface : row[s].run = runs => p.kind = "sync" /\ s \in Planned(p)

\* What the current run knows of the rows.
RunRows ==
  /\ cmd.pc \in Starting =>
       /\ cmd.capture \subseteq Planned(cmd.plan)
       /\ cmd.plan.kind = "sync" => cmd.capture \subseteq Harness
       /\ RowPlan(cmd.plan)
  /\ open # Closed =>
       /\ RowPlan(open)
       /\ \A s \in Surface : Settled(s, open.record[s]) \/ row[s].run = runs
       /\ \A s \in open.done : open.target[s] # NoEntry /\ (open.target[s] = Absent => s \in left)
  /\ cmd.pc = "release restored part" => runs \in partial

\* The strengthening of RowsAreApplied.
Applied == AllSettled /\ RunRows

\* The inductive invariant.
Inv == TypeOK /\ Phase /\ Saved /\ RowsKept /\ Applied

-----------------------------------------------------------------------------
(* What the operators of the model do to commands and plans.               *)

\* The contents there are, and what is none of them.
LEMMA Contents ==
  ASSUME edits \in 0..MaxEdits
  PROVE  /\ Known(edits) \subseteq Content /\ Content \subseteq Nat
         /\ NoEntry \notin Known(edits) /\ None = NoEntry /\ NoEntry \notin Content
         /\ {Projected, Absent, Original} \subseteq Known(edits)
         /\ Original..(Original + edits) \subseteq Known(edits)
         /\ \A c \in Original..(Original + edits) : c \notin {Projected, Absent, NoEntry}
  BY ConstantsAssumption DEF Known, Content, NoEntry, None, Projected, Absent, Original

\* 0 stands for no run.
LEMMA RunsArePositive == 0 \notin Run
  BY DEF Run

\* No run, and no command.
LEMMA ClosedFields ==
  /\ Closed.run = 0 /\ Closed.kind = "none" /\ Closed.target = [s \in Surface |-> NoEntry]
  /\ Closed.forced = {} /\ Closed.ends = {} /\ Closed.file = [s \in Surface |-> Absent]
  /\ Closed.record = [s \in Surface |-> None] /\ Closed.done = {} /\ Closed.wrote = {}
  /\ Closed.cleaned = FALSE
  BY Zenon DEF Closed

\* What the process is when no command is in progress.
LEMMA IdleFields ==
  /\ Idle.pc = "idle" /\ Idle.run = 0 /\ Idle.plan = Closed /\ Idle.capture = {}
  /\ Idle.backed = FALSE /\ Idle.drop = {}
  BY Zenon DEF Idle

\* No run is a plan.
LEMMA ClosedType ==
  ASSUME edits \in 0..MaxEdits
  PROVE  Closed \in Plans(edits)
<1>1. /\ [s \in Surface |-> NoEntry] \in [Surface -> Known(edits) \cup {NoEntry}]
      /\ [s \in Surface |-> Absent] \in [Surface -> Known(edits)]
      /\ [s \in Surface |-> None] \in [Surface -> Known(edits) \cup {None}]
  BY Contents
<1>2. 0 \in 0..MaxRuns /\ "none" \in Kinds
  BY ConstantsAssumption DEF Kinds
<1> QED
  BY <1>1, <1>2 DEF Closed, Plans

\* No command is a command.
LEMMA IdleType ==
  ASSUME edits \in 0..MaxEdits
  PROVE  Idle \in Commands(edits)
<1>1. 0 \in 0..MaxRuns /\ "idle" \in Stages
  BY ConstantsAssumption DEF Stages
<1> QED
  BY <1>1, ClosedType DEF Idle, Commands

\* The fields of a plan and of a command.
LEMMA PlanParts ==
  ASSUME NEW n, NEW p \in Plans(n)
  PROVE  /\ p.run \in 0..MaxRuns /\ p.kind \in Kinds
         /\ p.target \in [Surface -> Known(n) \cup {NoEntry}]
         /\ p.forced \in SUBSET Surface /\ p.ends \in SUBSET Surface
         /\ p.file \in [Surface -> Known(n)]
         /\ p.record \in [Surface -> Known(n) \cup {None}]
         /\ p.done \in SUBSET Surface /\ p.wrote \in SUBSET Surface /\ p.cleaned \in BOOLEAN
  BY DEF Plans

\* The fields of a command that is in progress.
LEMMA CommandParts ==
  ASSUME NEW n, NEW c \in Commands(n)
  PROVE  /\ c.pc \in Stages /\ c.run \in 0..MaxRuns /\ c.plan \in Plans(n)
         /\ c.capture \in SUBSET Surface /\ c.backed \in BOOLEAN /\ c.drop \in SUBSET Surface
  BY DEF Commands

\* A command that goes on.
LEMMA GotoParts ==
  ASSUME CommandType, edits' = edits, NEW to \in Stages, Goto(to)
  PROVE  /\ CommandType'
         /\ cmd'.pc = to /\ cmd'.run = cmd.run /\ cmd'.plan = cmd.plan
         /\ cmd'.capture = cmd.capture /\ cmd'.backed = cmd.backed /\ cmd'.drop = cmd.drop
  BY DEF CommandType, Commands, Goto

\* The same when what is to be dropped changes.
LEMMA DropParts ==
  ASSUME CommandType, edits' = edits, NEW to \in Stages, NEW drop \in SUBSET Surface,
         cmd' = [cmd EXCEPT !.pc = to, !.drop = drop]
  PROVE  /\ CommandType'
         /\ cmd'.pc = to /\ cmd'.run = cmd.run /\ cmd'.plan = cmd.plan
         /\ cmd'.capture = cmd.capture /\ cmd'.backed = cmd.backed /\ cmd'.drop = drop
  BY DEF CommandType, Commands

\* A step that fails, or is stopped.
LEMMA FailingParts ==
  ASSUME TypeOK, edits' = edits, Failing
  PROVE  /\ CommandType' /\ cmd' = Idle
         /\ faults' \in 0..MaxFaults
         /\ halted' = halted \cup {cmd.run} /\ halted' \in SUBSET (0..MaxRuns)
<1>1. faults' \in 0..MaxFaults
  BY ConstantsAssumption DEF TypeOK, CountType, Failing, Fault
<1>2. CommandType'
  BY IdleType DEF TypeOK, CountType, CommandType, Failing
<1>3. cmd.run \in 0..MaxRuns
  BY DEF TypeOK, CommandType, Commands
<1> QED
  BY <1>1, <1>2, <1>3 DEF TypeOK, HistoryType, Failing

\* What the engine, or an abandonment, notes in the open run.
LEMMA WroteParts ==
  ASSUME NEW n, NEW p \in Plans(n), NEW S \in SUBSET Surface, NEW q, q = [p EXCEPT !.wrote = S]
  PROVE  /\ q \in Plans(n) /\ q.run = p.run /\ q.kind = p.kind /\ q.target = p.target
         /\ q.forced = p.forced /\ q.ends = p.ends /\ q.file = p.file /\ q.record = p.record
         /\ q.done = p.done /\ q.cleaned = p.cleaned /\ q.wrote = S
  BY DEF Plans

\* What the commit of a surface changes of the plan.
LEMMA DoneParts ==
  ASSUME NEW n, NEW p \in Plans(n), NEW S \in SUBSET Surface, NEW q, q = [p EXCEPT !.done = S]
  PROVE  /\ q \in Plans(n) /\ q.run = p.run /\ q.kind = p.kind /\ q.target = p.target
         /\ q.forced = p.forced /\ q.ends = p.ends /\ q.file = p.file /\ q.record = p.record
         /\ q.wrote = p.wrote /\ q.cleaned = p.cleaned /\ q.done = S
  BY DEF Plans

\* What an abandonment, and a recovery after it, change of the plan.
LEMMA CleanedParts ==
  ASSUME NEW n, NEW p \in Plans(n), NEW b \in BOOLEAN, NEW q, q = [p EXCEPT !.cleaned = b]
  PROVE  /\ q \in Plans(n) /\ q.run = p.run /\ q.kind = p.kind /\ q.target = p.target
         /\ q.forced = p.forced /\ q.ends = p.ends /\ q.file = p.file /\ q.record = p.record
         /\ q.done = p.done /\ q.wrote = p.wrote /\ q.cleaned = b
  BY DEF Plans

\* What a command knows of the plan it begins with, as planFolder, planRestore and
\* the import make it.
LEMMA PlanFields ==
  ASSUME NEW kind, NEW target, NEW forced, NEW ends, NEW p, p = Plan(kind, target, forced, ends)
  PROVE  /\ p = [run |-> runs + 1, kind |-> kind, target |-> target, forced |-> forced,
                 ends |-> ends, file |-> file, record |-> record, done |-> {}, wrote |-> {},
                 cleaned |-> FALSE]
         /\ p.run = runs + 1 /\ p.kind = kind /\ p.target = target
         /\ p.forced = forced /\ p.ends = ends /\ p.file = file /\ p.record = record
         /\ p.done = {} /\ p.wrote = {} /\ ~p.cleaned
<1> DEFINE closed == Closed
<1> DEFINE next == runs + 1
<1> DEFINE target0 == [s \in Surface |-> NoEntry]
<1> DEFINE file0 == [s \in Surface |-> Absent]
<1> DEFINE record0 == [s \in Surface |-> None]
<1>1. closed = [run |-> 0, kind |-> "none", target |-> target0, forced |-> {}, ends |-> {},
                file |-> file0, record |-> record0, done |-> {}, wrote |-> {},
                cleaned |-> FALSE]
  BY Zenon DEF Closed
<1>2. p = [closed EXCEPT !.run = next, !.kind = kind, !.target = target, !.forced = forced,
                         !.ends = ends, !.file = file, !.record = record]
  BY Zenon DEF Plan
<1> HIDE DEF closed, next, target0, file0, record0
<1>3. p = [run |-> next, kind |-> kind, target |-> target, forced |-> forced,
           ends |-> ends, file |-> file, record |-> record, done |-> {}, wrote |-> {},
           cleaned |-> FALSE]
  BY <1>1, <1>2, Zenon
<1>4. p = [run |-> runs + 1, kind |-> kind, target |-> target, forced |-> forced,
           ends |-> ends, file |-> file, record |-> record, done |-> {}, wrote |-> {},
           cleaned |-> FALSE]
  BY <1>3 DEF next
<1>5. /\ p.kind = kind /\ p.target = target /\ p.forced = forced /\ p.ends = ends
      /\ p.file = file /\ p.record = record /\ p.done = {} /\ p.wrote = {}
  BY ONLY <1>4, Zenon
<1>6. p.run = runs + 1 /\ ~p.cleaned
  BY <1>4
<1> QED
  BY <1>4, <1>5, <1>6

\* A command that begins, and the plan it begins with.
Begun(p, kind, target, forced, ends, capture, backed) ==
  /\ p \in Plans(edits)
  /\ p.run = runs + 1 /\ p.kind = kind /\ p.target = target
  /\ p.forced = forced /\ p.ends = ends /\ p.file = file /\ p.record = record
  /\ p.done = {} /\ p.wrote = {} /\ ~p.cleaned
  /\ runs \in Nat /\ runs' = runs + 1 /\ runs' \in Run /\ runs' \in 0..MaxRuns
  /\ cmd.pc = "idle" /\ open = Closed /\ CommandType'
  /\ (capture # {} /\ backed => cmd'.pc = "capture")
  /\ (capture = {} \/ ~backed => cmd'.pc = "revision")
  /\ cmd'.run = runs + 1 /\ cmd'.plan = p /\ cmd'.capture = capture
  /\ (cmd'.backed <=> capture # {} /\ backed) /\ cmd'.drop = {}

\* The command and the plan of a run that begins.
LEMMA BeginFacts ==
  ASSUME TypeOK, NEW kind \in Kinds, NEW target \in [Surface -> Known(edits) \cup {NoEntry}],
         NEW forced \in SUBSET Surface, NEW ends \in SUBSET Surface,
         NEW capture \in SUBSET Surface, NEW backed \in BOOLEAN,
         Begin(Plan(kind, target, forced, ends), capture, backed)
  PROVE  \E p : Begun(p, kind, target, forced, ends, capture, backed)
<1>1. PICK p : p = Plan(kind, target, forced, ends)
  OBVIOUS
<1>2. Begin(p, capture, backed)
  BY <1>1
<1>3. runs + 1 \in 0..MaxRuns /\ file \in [Surface -> Known(edits)]
      /\ record \in [Surface -> Known(edits) \cup {None}]
  BY ConstantsAssumption DEF TypeOK, CountType, DiskType, TableType, Begin
<1>4. p \in Plans(edits)
  <2>1. p = [run |-> runs + 1, kind |-> kind, target |-> target, forced |-> forced,
             ends |-> ends, file |-> file, record |-> record, done |-> {}, wrote |-> {},
             cleaned |-> FALSE]
    BY <1>1, PlanFields
  <2> QED
    BY <1>3, <2>1 DEF Plans
<1>5. /\ p.run = runs + 1 /\ p.kind = kind /\ p.target = target
      /\ p.forced = forced /\ p.ends = ends /\ p.file = file /\ p.record = record
      /\ p.done = {} /\ p.wrote = {} /\ ~p.cleaned
  BY <1>1, PlanFields
<1> DEFINE at == IF capture # {} /\ backed THEN "capture" ELSE "revision"
<1> DEFINE saved == (capture # {} /\ backed)
<1>6. cmd' = [Idle EXCEPT !.pc = at, !.run = runs + 1, !.plan = p, !.capture = capture,
                          !.backed = saved]
  BY <1>2, Zenon DEF Begin
<1>7. cmd' = [pc |-> at, run |-> runs + 1, plan |-> p, capture |-> capture, backed |-> saved,
              drop |-> {}]
  BY <1>6, Zenon DEF Idle
<1>8. runs \in Nat /\ runs' = runs + 1 /\ runs' \in Run /\ runs' \in 0..MaxRuns
      /\ cmd.pc = "idle" /\ open = Closed /\ edits' = edits
  BY <1>2, ConstantsAssumption DEF TypeOK, CountType, Begin, Run
<1>9. at \in Stages /\ saved \in BOOLEAN
  BY DEF Stages, Starting
<1>10. /\ cmd'.pc = at /\ cmd'.run = runs + 1 /\ cmd'.plan = p /\ cmd'.capture = capture
       /\ cmd'.backed = saved /\ cmd'.drop = {}
  BY <1>7, Zenon
<1> HIDE DEF at, saved
<1>11. cmd' \in Commands(edits)
  BY <1>4, <1>7, <1>8, <1>9 DEF Commands
<1>12. CommandType'
  BY <1>8, <1>11 DEF CommandType
<1> QED
  BY <1>4, <1>5, <1>8, <1>10, <1>12 DEF Begun, at, saved

-----------------------------------------------------------------------------
(* Types.                                                                  *)

\* What `sync --apply` plans.
LEMMA SynchronizeParts ==
  ASSUME TypeOK, NEW listed \in SUBSET Harness, NEW backup \in BOOLEAN,
         SynchronizeLocal(listed, backup)
  PROVE  \E wanted \in SUBSET Harness, target \in [Surface -> Known(edits) \cup {NoEntry}],
            pending \in SUBSET Harness, retired \in SUBSET Harness :
           /\ pending = {s \in wanted : row[s] = NoRow} /\ pending \subseteq wanted
           /\ wanted \cap retired = {} /\ \A s \in retired : record[s] # None
           /\ target = [s \in Surface |-> IF s \in wanted THEN Projected
                                          ELSE IF s \in retired THEN Absent ELSE NoEntry]
           /\ Begin(Plan("sync", target, pending, retired), pending, backup)
           /\ forgone' = forgone \cup {<<s, file[s]>> : s \in IF backup THEN {} ELSE pending}
<1> DEFINE wanted == listed \ excluded
<1> DEFINE retired == {s \in Harness \ (wanted \cup excluded) :
                         record[s] # None /\ file[s] \in {record[s], Absent}}
<1> DEFINE pending == {s \in wanted : row[s] = NoRow}
<1> DEFINE target == [s \in Surface |-> IF s \in wanted THEN Projected
                                        ELSE IF s \in retired THEN Absent ELSE NoEntry]
<1>1. /\ Begin(Plan("sync", target, pending, retired), pending, backup)
      /\ forgone' = forgone \cup {<<s, file[s]>> : s \in IF backup THEN {} ELSE pending}
  BY DEF SynchronizeLocal
<1>2. wanted \in SUBSET Harness /\ retired \in SUBSET Harness /\ pending \in SUBSET Harness
  OBVIOUS
<1>3. target \in [Surface -> Known(edits) \cup {NoEntry}]
  <2> HIDE DEF wanted, retired
  <2>1. {Projected, Absent} \subseteq Known(edits)
    BY Contents DEF TypeOK, CountType
  <2> QED
    BY <2>1
<1>4. /\ pending \subseteq wanted /\ wanted \cap retired = {}
      /\ \A s \in retired : record[s] # None
  OBVIOUS
<1> QED
  BY <1>1, <1>2, <1>3, <1>4

\* What the other commands that begin a run plan.
LEMMA RestoreParts ==
  ASSUME TypeOK, NEW id \in Run, RestoreLocal(id)
  PROVE  /\ snaps[id] \in [Surface -> Known(edits) \cup {NoEntry}]
         /\ Captured(id) \in SUBSET Surface
         /\ {s \in Captured(id) \cap Folder : file[s] # Absent} \in SUBSET Surface
         /\ Restorable(id)
         /\ Begin(Plan("restore", snaps[id], Captured(id), Captured(id)),
                  {s \in Captured(id) \cap Folder : file[s] # Absent}, TRUE)
         /\ forgone' = forgone
  BY DEF RestoreLocal, TypeOK, DiskType, Captured

\* What `import --replace` plans.
LEMMA ImportParts ==
  ASSUME TypeOK, NEW entries \in SUBSET Folder, ImportLocal(entries)
  PROVE  \E target \in [Surface -> Known(edits) \cup {NoEntry}] :
           /\ target = [s \in Surface |-> IF s \in entries THEN Projected ELSE NoEntry]
           /\ entries \in SUBSET Surface /\ {s \in entries : file[s] # Absent} \in SUBSET Surface
           /\ Begin(Plan("import", target, entries, entries),
                    {s \in entries : file[s] # Absent}, TRUE)
           /\ forgone' = forgone
<1> DEFINE target == [s \in Surface |-> IF s \in entries THEN Projected ELSE NoEntry]
<1>1. target \in [Surface -> Known(edits) \cup {NoEntry}]
  BY Contents DEF TypeOK, CountType
<1>2. entries \in SUBSET Surface
  BY DEF Surface
<1> QED
  BY <1>1, <1>2 DEF ImportLocal

\* A run that begins has a plan and a command of the right types.
LEMMA BeginType ==
  ASSUME TypeOK, NEW kind \in Kinds, NEW target \in [Surface -> Known(edits) \cup {NoEntry}],
         NEW forced \in SUBSET Surface, NEW ends \in SUBSET Surface,
         NEW capture \in SUBSET Surface, NEW backed \in BOOLEAN,
         Begin(Plan(kind, target, forced, ends), capture, backed),
         forgone' \in SUBSET (Surface \X (Content \cup {NoEntry}))
  PROVE  TypeOK'
<1>2. PICK p : Begun(p, kind, target, forced, ends, capture, backed)
  BY BeginFacts
<1>3. CommandType' /\ runs' \in 0..MaxRuns
  BY <1>2 DEF Begun
<1>4. UNCHANGED <<disk, tables, edits, faults, last, exposed, left, partial, halted>>
  BY DEF Begin
<1>5. DiskType' /\ TableType' /\ CountType'
  BY <1>3, <1>4 DEF TypeOK, DiskType, TableType, CountType, disk, tables
<1>6. HistoryType'
  BY <1>4 DEF TypeOK, HistoryType
<1> QED
  BY <1>3, <1>5, <1>6 DEF TypeOK

\* What `sync --apply` gives up with backups off has the type of what is given up.
LEMMA SynchronizeForgoes ==
  ASSUME TypeOK, NEW listed \in SUBSET Harness, NEW backup \in BOOLEAN,
         SynchronizeLocal(listed, backup)
  PROVE  forgone' \in SUBSET (Surface \X (Content \cup {NoEntry}))
<1>1. PICK taken \in SUBSET Harness : forgone' = forgone \cup {<<s, file[s]>> : s \in taken}
  <2> DEFINE pending == {s \in listed \ excluded : row[s] = NoRow}
  <2> DEFINE taken == IF backup THEN {} ELSE pending
  <2>1. forgone' = forgone \cup {<<s, file[s]>> : s \in taken}
    BY Zenon DEF SynchronizeLocal
  <2>2. taken \in SUBSET Harness
    OBVIOUS
  <2> HIDE DEF taken
  <2> QED
    BY <2>1, <2>2
<1>2. taken \subseteq Surface
  BY DEF Surface
<1>3. \A s \in Surface : file[s] \in Content
  BY Contents DEF TypeOK, DiskType, CountType
<1>4. {<<s, file[s]>> : s \in taken} \subseteq Surface \X (Content \cup {NoEntry})
  BY <1>2, <1>3
<1>5. forgone \in SUBSET (Surface \X (Content \cup {NoEntry}))
  BY DEF TypeOK, HistoryType
<1> QED
  BY <1>1, <1>4, <1>5

\* The types when `sync --apply` begins a run.
LEMMA SynchronizeType ==
  ASSUME TypeOK, NEW listed \in SUBSET Harness, NEW backup \in BOOLEAN,
         SynchronizeLocal(listed, backup)
  PROVE  TypeOK'
<1>1. PICK target \in [Surface -> Known(edits) \cup {NoEntry}], pending \in SUBSET Harness,
           retired \in SUBSET Harness :
        Begin(Plan("sync", target, pending, retired), pending, backup)
  BY SynchronizeParts
<1>2. Harness \subseteq Surface /\ "sync" \in Kinds
  BY DEF Surface, Kinds
<1>3. forgone' \in SUBSET (Surface \X (Content \cup {NoEntry}))
  BY SynchronizeForgoes
<1> QED
  BY <1>1, <1>2, <1>3, BeginType

\* The types when `restore` begins a run.
LEMMA RestoreType ==
  ASSUME TypeOK, NEW id \in Run, RestoreLocal(id)
  PROVE  TypeOK'
<1>1. forgone' \in SUBSET (Surface \X (Content \cup {NoEntry})) /\ "restore" \in Kinds
  BY RestoreParts DEF TypeOK, HistoryType, Kinds
<1> QED
  BY <1>1, RestoreParts, BeginType

\* The types when `import --replace` begins a run.
LEMMA ImportType ==
  ASSUME TypeOK, NEW entries \in SUBSET Folder, ImportLocal(entries)
  PROVE  TypeOK'
<1>1. PICK target \in [Surface -> Known(edits) \cup {NoEntry}] :
        /\ entries \in SUBSET Surface /\ {s \in entries : file[s] # Absent} \in SUBSET Surface
        /\ Begin(Plan("import", target, entries, entries),
                 {s \in entries : file[s] # Absent}, TRUE)
        /\ forgone' = forgone
  BY ImportParts
<1>2. forgone' \in SUBSET (Surface \X (Content \cup {NoEntry})) /\ "import" \in Kinds
  BY <1>1 DEF TypeOK, HistoryType, Kinds
<1> QED
  BY <1>1, <1>2, BeginType

\* A step that only moves the command on, or ends it.
LEMMA MoveType ==
  ASSUME TypeOK, UNCHANGED <<disk, tables, runs, edits>>,
         UNCHANGED <<last, forgone, exposed, left, partial>>,
         CommandType', faults' \in 0..MaxFaults, halted' \in SUBSET (0..MaxRuns)
  PROVE  TypeOK'
<1>1. DiskType' /\ TableType'
  BY DEF TypeOK, DiskType, TableType, disk, tables
<1>2. CountType' /\ HistoryType'
  BY DEF TypeOK, CountType, HistoryType
<1> QED
  BY <1>1, <1>2 DEF TypeOK

\* Where a step of a command leaves it: at one of these stages, or failed.
LEMMA Onward ==
  ASSUME TypeOK, edits' = edits, NEW to \in Stages,
         \/ Goto(to) /\ UNCHANGED <<faults, halted>>
         \/ Failing
  PROVE  CommandType' /\ faults' \in 0..MaxFaults /\ halted' \in SUBSET (0..MaxRuns)
<1>1. CASE Goto(to) /\ UNCHANGED <<faults, halted>>
  BY <1>1, GotoParts DEF TypeOK, CountType, HistoryType
<1>2. CASE Failing
  BY <1>2, FailingParts
<1> QED
  BY <1>1, <1>2

\* The same of the steps whose error leads to the undoing of the start.
LEMMA OrUndone ==
  ASSUME TypeOK, UNCHANGED <<edits, halted>>, NEW to \in Stages,
         \/ Goto(to) /\ UNCHANGED faults
         \/ Fault /\ Goto("undo")
  PROVE  CommandType' /\ faults' \in 0..MaxFaults /\ halted' \in SUBSET (0..MaxRuns)
<1>1. "undo" \in Stages
  BY DEF Stages, Starting
<1>2. CommandType'
  BY <1>1, GotoParts DEF TypeOK
<1>3. faults' \in 0..MaxFaults
  BY ConstantsAssumption DEF TypeOK, CountType, Fault
<1> QED
  BY <1>2, <1>3 DEF TypeOK, HistoryType

\* The steps up to the run.
LEMMA StartType ==
  ASSUME TypeOK, Phase,
         \/ WriteTakeoverSnapshot \/ RecordLocalRevision \/ RecordHarnessTakeovers
         \/ StartRun \/ Undo
  PROVE  TypeOK'
<1>1. CASE WriteTakeoverSnapshot
  <2>1. cmd.run \in Run /\ "revision" \in Stages
    BY <1>1 DEF WriteTakeoverSnapshot, Phase, CommandStage, Stages, Starting
  <2>2. snaps' \in [Run -> [Surface -> Known(edits) \cup {NoEntry}]]
    <3> DEFINE copy == [s \in Surface |-> IF s \in cmd.capture THEN file[s] ELSE NoEntry]
    <3>1. copy \in [Surface -> Known(edits) \cup {NoEntry}]
      BY DEF TypeOK, DiskType
    <3>2. snaps' = [snaps EXCEPT ![cmd.run] = copy] \/ snaps' = snaps
      BY <1>1 DEF WriteTakeoverSnapshot
    <3> HIDE DEF copy
    <3> QED
      BY <2>1, <3>1, <3>2 DEF TypeOK, DiskType
  <2>3. CommandType' /\ faults' \in 0..MaxFaults /\ halted' \in SUBSET (0..MaxRuns)
    BY <1>1, <2>1, Onward DEF WriteTakeoverSnapshot
  <2>4. UNCHANGED <<file, excluded, tables, runs, edits, last, forgone, exposed, left, partial>>
    BY <1>1 DEF WriteTakeoverSnapshot
  <2>5. DiskType' /\ TableType'
    BY <2>2, <2>4 DEF TypeOK, DiskType, TableType, tables
  <2>6. CountType' /\ HistoryType'
    BY <2>3, <2>4 DEF TypeOK, CountType, HistoryType
  <2> QED
    BY <2>3, <2>5, <2>6 DEF TypeOK
<1>2. CASE RecordLocalRevision
  <2>1. "rows" \in Stages /\ UNCHANGED halted
    BY <1>2 DEF Stages, Starting, RecordLocalRevision, history
  <2>2. CommandType' /\ faults' \in 0..MaxFaults /\ halted' \in SUBSET (0..MaxRuns)
    BY <1>2, <2>1, OrUndone DEF RecordLocalRevision
  <2> QED
    BY <1>2, <2>2, MoveType DEF RecordLocalRevision, history
<1>3. CASE RecordHarnessTakeovers
  <2>1. "start" \in Stages /\ UNCHANGED <<edits, halted>>
    BY <1>3 DEF Stages, Starting, RecordHarnessTakeovers, history
  <2>2. CommandType' /\ faults' \in 0..MaxFaults /\ halted' \in SUBSET (0..MaxRuns)
    <3>1. \/ Goto("start") /\ UNCHANGED faults
          \/ Fault /\ Goto("undo")
      BY <1>3 DEF RecordHarnessTakeovers
    <3> QED
      BY <2>1, <3>1, OrUndone
  <2>3. row' \in [Surface -> [run : 0..MaxRuns, snapshot : 0..MaxRuns]]
    <3>1. cmd.run \in 0..MaxRuns
      BY DEF TypeOK, CommandType, Commands
    <3>2. [run |-> cmd.run, snapshot |-> IF cmd.backed THEN cmd.run ELSE 0]
            \in [run : 0..MaxRuns, snapshot : 0..MaxRuns]
      BY <3>1, ConstantsAssumption
    <3>3. row \in [Surface -> [run : 0..MaxRuns, snapshot : 0..MaxRuns]]
      BY DEF TypeOK, TableType
    <3> QED
      BY <1>3, <3>2, <3>3 DEF RecordHarnessTakeovers
  <2>4. UNCHANGED <<disk, record, open, started, recorded, runs, edits, history>>
    BY <1>3 DEF RecordHarnessTakeovers
  <2>5. DiskType' /\ TableType'
    BY <2>3, <2>4 DEF TypeOK, DiskType, TableType, disk
  <2>6. CountType' /\ HistoryType'
    BY <2>2, <2>4 DEF TypeOK, CountType, HistoryType, history
  <2> QED
    BY <2>2, <2>5, <2>6 DEF TypeOK
<1>4. CASE StartRun
  <2>1. "engine" \in Stages /\ UNCHANGED <<edits, halted>>
    BY <1>4 DEF Stages, StartRun, history
  <2>2. CommandType' /\ faults' \in 0..MaxFaults /\ halted' \in SUBSET (0..MaxRuns)
    <3>1. \/ Goto("engine") /\ UNCHANGED faults
          \/ Fault /\ Goto("undo")
      BY <1>4 DEF StartRun
    <3> QED
      BY <2>1, <3>1, OrUndone
  <2>3. cmd.run \in 0..MaxRuns /\ cmd.plan \in Plans(edits)
    BY DEF TypeOK, CommandType, Commands
  <2>4. UNCHANGED <<disk, record, row, runs, edits, history>>
    BY <1>4 DEF StartRun
  <2>5. open' \in Plans(edits) /\ started' \in SUBSET Surface
        /\ recorded' \in SUBSET (0..MaxRuns)
    BY <1>4, <2>3 DEF TypeOK, TableType, StartRun
  <2>6. DiskType' /\ TableType'
    BY <2>4, <2>5 DEF TypeOK, DiskType, TableType, disk
  <2>7. CountType' /\ HistoryType'
    BY <2>2, <2>4 DEF TypeOK, CountType, HistoryType, history
  <2> QED
    BY <2>2, <2>6, <2>7 DEF TypeOK
<1>5. CASE Undo
  <2>1. "undo snapshot" \in Stages
    BY DEF Stages, Starting
  <2>2. CommandType' /\ faults' \in 0..MaxFaults /\ halted' \in SUBSET (0..MaxRuns)
    <3>1. \/ Goto("undo snapshot") /\ UNCHANGED <<faults, halted>>
          \/ Failing
      BY <1>5 DEF Undo
    <3>2. edits' = edits
      BY <1>5 DEF Undo
    <3> QED
      BY <2>1, <3>1, <3>2, Onward
  <2>3. row' \in [Surface -> [run : 0..MaxRuns, snapshot : 0..MaxRuns]]
    <3>1. NoRow \in [run : 0..MaxRuns, snapshot : 0..MaxRuns]
      BY ConstantsAssumption DEF NoRow
    <3>2. row \in [Surface -> [run : 0..MaxRuns, snapshot : 0..MaxRuns]]
      BY DEF TypeOK, TableType
    <3> QED
      BY <1>5, <3>1, <3>2 DEF Undo
  <2>4. UNCHANGED <<disk, record, open, started, recorded, runs, edits, last, forgone, exposed,
                    left, partial>>
    BY <1>5 DEF Undo
  <2>5. DiskType' /\ TableType'
    BY <2>3, <2>4 DEF TypeOK, DiskType, TableType, disk
  <2>6. CountType' /\ HistoryType'
    BY <2>2, <2>4 DEF TypeOK, CountType, HistoryType
  <2> QED
    BY <2>2, <2>5, <2>6 DEF TypeOK
<1> QED
  BY <1>1, <1>2, <1>3, <1>4, <1>5

\* The records that a run leaves, and what it restores, are contents.
LEMMA MixedType ==
  ASSUME NEW T, NEW f \in [Surface -> T], NEW g \in [Surface -> T], NEW S
  PROVE  [s \in Surface |-> IF s \in S THEN g[s] ELSE f[s]] \in [Surface -> T]
  OBVIOUS

\* The engine's steps.
LEMMA EngineType ==
  ASSUME TypeOK, Phase, EngineStep
  PROVE  TypeOK'
<1> USE DEF TypeOK
<1>0. /\ open.target \in [Surface -> Known(edits) \cup {NoEntry}]
      /\ open.file \in [Surface -> Known(edits)] /\ open.done \in SUBSET Surface
      /\ open.record \in [Surface -> Known(edits) \cup {None}]
      /\ open.wrote \in SUBSET Surface /\ None = NoEntry /\ Closed \in Plans(edits)
  BY PlanParts, Contents, ClosedType DEF TableType, CountType
<1>1. ASSUME NEW s \in Surface, BeginAction(s)
      PROVE  TypeOK'
  <2>1. "engine" \in Stages /\ edits' = edits
    BY <1>1 DEF Stages, BeginAction
  <2>2. CommandType'
    BY <1>1, <2>1, GotoParts DEF BeginAction
  <2>3. DiskType' /\ TableType'
    BY <1>1 DEF BeginAction, DiskType, TableType, disk
  <2>4. CountType' /\ HistoryType'
    BY <1>1 DEF BeginAction, CountType, HistoryType, history
  <2> QED
    BY <2>2, <2>3, <2>4
<1>2. ASSUME NEW s \in Surface, Write(s)
      PROVE  TypeOK'
  <2>1. s \in Planned(open)
    BY <1>2 DEF Write, InEngine
  <2>2. file' \in [Surface -> Known(edits)]
    BY <1>0, <1>2, <2>1 DEF Write, Planned, DiskType
  <2>3. open' \in Plans(edits)
    <3>1. open.wrote \cup {s} \in SUBSET Surface
      BY <1>0
    <3>2. open' = [open EXCEPT !.wrote = open.wrote \cup {s}]
      BY <1>2 DEF Write
    <3>3. open \in Plans(edits)
      BY DEF TableType
    <3> QED
      BY <3>1, <3>2, <3>3, WroteParts
  <2>4. DiskType' /\ TableType'
    BY <1>2, <2>2, <2>3 DEF Write, DiskType, TableType
  <2>5. CommandType' /\ CountType' /\ HistoryType'
    BY <1>2 DEF Write, CommandType, CountType, HistoryType, history
  <2> QED
    BY <2>4, <2>5
<1>3. ASSUME NEW s \in Surface, Commit(s)
      PROVE  TypeOK'
  <2>1. open.target[s] \in Known(edits) \cup {None} /\ None \in Known(edits) \cup {None}
    BY <1>0
  <2>2. record' \in [Surface -> Known(edits) \cup {None}]
    BY <1>3, <2>1 DEF Commit, TableType
  <2>3. open' \in Plans(edits)
    <3>1. open.done \cup {s} \in SUBSET Surface
      BY <1>0
    <3>2. open' = [open EXCEPT !.done = open.done \cup {s}]
      BY <1>3 DEF Commit
    <3>3. open \in Plans(edits)
      BY DEF TableType
    <3> QED
      BY <3>1, <3>2, <3>3, DoneParts
  <2>4. DiskType' /\ TableType'
    BY <1>3, <2>2, <2>3 DEF Commit, DiskType, TableType, disk
  <2>5. CommandType' /\ CountType' /\ HistoryType'
    BY <1>3 DEF Commit, CommandType, CountType, HistoryType
  <2> QED
    BY <2>4, <2>5
<1>4. ASSUME NEW s \in Surface, StopEarly(s)
      PROVE  TypeOK'
  <2>1. "release" \in Stages /\ edits' = edits
    BY <1>4 DEF Stages, Closing, StopEarly
  <2>2. CommandType' /\ faults' \in 0..MaxFaults /\ halted' \in SUBSET (0..MaxRuns)
    BY <1>4, <2>1, Onward DEF StopEarly, Close
  <2>3. open' \in Plans(edits)
    BY <1>0, <1>4 DEF StopEarly, Close
  <2>4. DiskType' /\ TableType'
    BY <1>4, <2>3 DEF StopEarly, DiskType, TableType, disk
  <2>5. CountType' /\ HistoryType'
    BY <1>4, <2>2 DEF StopEarly, CountType, HistoryType
  <2> QED
    BY <2>2, <2>4, <2>5
<1>5. ASSUME NEW kept \in SUBSET open.wrote, Fail(kept)
      PROVE  TypeOK'
  <2>1. file' \in [Surface -> Known(edits)]
    BY <1>0, <1>5, MixedType DEF Fail, DiskType
  <2>2. record' \in [Surface -> Known(edits) \cup {None}]
    BY <1>0, <1>5, MixedType DEF Fail, TableType
  <2>3. open' \in Plans(edits)
    BY <1>0, <1>5 DEF Fail
  <2>4. {"forget", "release restored part"} \subseteq Stages /\ edits' = edits
    BY <1>5 DEF Stages, Finishing, Fail
  <2>5. CommandType' /\ faults' \in 0..MaxFaults /\ halted' \in SUBSET (0..MaxRuns)
    <3>1. CASE Failing
      BY <2>4, <3>1, FailingParts
    <3>2. ASSUME kept = {}, cmd' = [cmd EXCEPT !.pc = "forget"], UNCHANGED <<faults, halted>>
          PROVE  CommandType' /\ faults' \in 0..MaxFaults /\ halted' \in SUBSET (0..MaxRuns)
      BY <2>4, <3>2, GotoParts DEF Goto, CountType, HistoryType
    <3>3. ASSUME NEW drop \in SUBSET Surface,
                 cmd' = [cmd EXCEPT !.pc = "release restored part", !.drop = drop],
                 UNCHANGED <<faults, halted>>
          PROVE  CommandType' /\ faults' \in 0..MaxFaults /\ halted' \in SUBSET (0..MaxRuns)
      BY <2>4, <3>3, DropParts DEF CountType, HistoryType
    <3>4. {s \in Surface : row[s].run = cmd.run} \ kept \in SUBSET Surface
      OBVIOUS
    <3> QED
      BY <1>5, <3>1, <3>2, <3>3, <3>4 DEF Fail
  <2>6. DiskType' /\ TableType'
    BY <1>5, <2>1, <2>2, <2>3 DEF Fail, DiskType, TableType
  <2>7. partial' \in SUBSET (0..MaxRuns)
    BY <1>5 DEF Fail, CommandType, Commands, HistoryType
  <2>8. CountType' /\ HistoryType'
    BY <1>5, <2>5, <2>7 DEF Fail, CountType, HistoryType
  <2> QED
    BY <2>5, <2>6, <2>8
<1>6. CASE GiveUp
  <2>1. CommandType' /\ open' \in Plans(edits)
    BY <1>0, <1>6, IdleType DEF GiveUp, CommandType, CountType
  <2>2. DiskType' /\ TableType'
    BY <1>6, <2>1 DEF GiveUp, DiskType, TableType, disk
  <2>3. faults' \in 0..MaxFaults
    BY <1>6, ConstantsAssumption DEF GiveUp, Fault, CountType
  <2>4. partial' \in SUBSET (0..MaxRuns)
    BY <1>6 DEF GiveUp, CommandType, Commands, HistoryType
  <2>5. CountType' /\ HistoryType'
    BY <1>6, <2>3, <2>4 DEF GiveUp, CountType, HistoryType
  <2> QED
    BY <2>1, <2>2, <2>5
<1>7. CASE Converge
  <2>1. {"release restored", "prune"} \subseteq Stages /\ edits' = edits
    BY <1>7 DEF Stages, Finishing, Converge
  <2>2. CommandType' /\ faults' \in 0..MaxFaults /\ halted' \in SUBSET (0..MaxRuns)
    <3>1. PICK to \in Stages : Close(to)
      BY <1>7, <2>1 DEF Converge
    <3> QED
      BY <2>1, <3>1, Onward DEF Close
  <2>3. open' \in Plans(edits)
    BY <1>0, <1>7 DEF Converge, Close
  <2>4. record' \in [Surface -> Known(edits) \cup {None}]
    BY <1>0, <1>7 DEF Converge, TableType
  <2>5. DiskType' /\ TableType'
    BY <1>7, <2>3, <2>4 DEF Converge, DiskType, TableType, disk
  <2>6. CountType' /\ HistoryType'
    BY <1>7, <2>2 DEF Converge, CountType, HistoryType
  <2> QED
    BY <2>2, <2>5, <2>6
<1> QED
  BY <1>1, <1>2, <1>3, <1>4, <1>5, <1>6, <1>7 DEF EngineStep

\* A command that ends a step with changed rows.
LEMMA RowsType ==
  ASSUME TypeOK, NEW to \in Stages,
         \/ Goto(to) /\ UNCHANGED <<faults, halted>>
         \/ Failing,
         NEW S \in SUBSET Surface, row' = row \/ row' = Without(S),
         UNCHANGED <<disk, record, open, started, recorded, runs, edits, last, forgone, exposed,
                     left, partial>>
  PROVE  TypeOK'
<1>1. CommandType' /\ faults' \in 0..MaxFaults /\ halted' \in SUBSET (0..MaxRuns)
  BY Onward
<1>2. row' \in [Surface -> [run : 0..MaxRuns, snapshot : 0..MaxRuns]]
  <2>1. NoRow \in [run : 0..MaxRuns, snapshot : 0..MaxRuns]
    BY ConstantsAssumption DEF NoRow
  <2>2. row \in [Surface -> [run : 0..MaxRuns, snapshot : 0..MaxRuns]]
    BY DEF TypeOK, TableType
  <2> QED
    BY <2>1, <2>2 DEF Without
<1>3. DiskType' /\ TableType'
  BY <1>2 DEF TypeOK, DiskType, TableType, disk
<1>4. CountType' /\ HistoryType'
  BY <1>1 DEF TypeOK, CountType, HistoryType
<1> QED
  BY <1>1, <1>3, <1>4 DEF TypeOK

\* A command that changes its snapshot.
LEMMA SnapshotType ==
  ASSUME TypeOK, CommandType', faults' \in 0..MaxFaults, halted' \in SUBSET (0..MaxRuns),
         snaps' \in [Run -> [Surface -> Known(edits) \cup {NoEntry}]],
         UNCHANGED <<file, excluded, tables, runs, edits, last, forgone, exposed, left, partial>>
  PROVE  TypeOK'
<1>1. DiskType' /\ TableType'
  BY DEF TypeOK, DiskType, TableType, tables
<1>2. CountType' /\ HistoryType'
  BY DEF TypeOK, CountType, HistoryType
<1> QED
  BY <1>1, <1>2 DEF TypeOK

\* The steps once the run has ended, and of an abandonment.
LEMMA FinishType ==
  ASSUME TypeOK, Phase,
         \/ Forget \/ DeleteSnapshot \/ ReleaseRestored \/ ReleaseUnapplied
         \/ DropSnapshotEntries \/ ReleaseRestoredRows \/ EditLocalList \/ PruneSnapshots
  PROVE  TypeOK'
<1>0. /\ {"delete", "drop", "exclude", "prune", "close", "idle"} \subseteq Stages
      /\ NoSnapshot \in [Surface -> Known(edits) \cup {NoEntry}]
      /\ snaps \in [Run -> [Surface -> Known(edits) \cup {NoEntry}]]
  BY DEF Stages, Finishing, Closing, NoSnapshot, TypeOK, DiskType
<1>1. CASE Forget
  BY <1>0, <1>1, RowsType DEF Forget
<1>2. CASE DeleteSnapshot
  <2>1. CommandType' /\ faults' \in 0..MaxFaults /\ halted' \in SUBSET (0..MaxRuns)
    <3>1. CASE Failing
      BY <1>2, <3>1, FailingParts DEF DeleteSnapshot
    <3>2. CASE cmd' = Idle /\ UNCHANGED <<faults, halted>>
      BY <1>2, <3>2, IdleType DEF DeleteSnapshot, TypeOK, CommandType, CountType, HistoryType
    <3> QED
      BY <1>2, <3>1, <3>2 DEF DeleteSnapshot
  <2>2. snaps' \in [Run -> [Surface -> Known(edits) \cup {NoEntry}]]
    BY <1>0, <1>2 DEF DeleteSnapshot
  <2> QED
    BY <1>2, <2>1, <2>2, SnapshotType DEF DeleteSnapshot
<1>3. CASE ReleaseRestored
  <2>1. cmd.drop \in SUBSET Surface
    BY DEF TypeOK, CommandType, Commands
  <2> QED
    BY <1>0, <1>3, <2>1, RowsType DEF ReleaseRestored
<1>4. CASE ReleaseUnapplied
  <2>1. NeverStarted \in SUBSET Surface /\ Unapplied \in SUBSET Surface
    BY DEF NeverStarted, Unapplied
  <2>2. edits' = edits
    BY <1>4 DEF ReleaseUnapplied
  <2>3. CommandType' /\ faults' \in 0..MaxFaults /\ halted' \in SUBSET (0..MaxRuns)
    <3>1. CASE Failing
      BY <2>2, <3>1, FailingParts
    <3>2. CASE cmd' = [cmd EXCEPT !.pc = "drop", !.drop = NeverStarted]
               /\ UNCHANGED <<faults, halted>>
      BY <1>0, <2>1, <2>2, <3>2, DropParts DEF TypeOK, CountType, HistoryType
    <3> QED
      BY <1>4, <3>1, <3>2 DEF ReleaseUnapplied
  <2>4. row' \in [Surface -> [run : 0..MaxRuns, snapshot : 0..MaxRuns]]
    <3>1. NoRow \in [run : 0..MaxRuns, snapshot : 0..MaxRuns]
      BY ConstantsAssumption DEF NoRow
    <3>2. row \in [Surface -> [run : 0..MaxRuns, snapshot : 0..MaxRuns]]
      BY DEF TypeOK, TableType
    <3> QED
      BY <1>4, <3>1, <3>2 DEF ReleaseUnapplied, Without
  <2>5. DiskType' /\ TableType'
    BY <1>4, <2>4 DEF TypeOK, DiskType, TableType, disk, ReleaseUnapplied
  <2>6. CountType' /\ HistoryType'
    BY <1>4, <2>3 DEF TypeOK, CountType, HistoryType, ReleaseUnapplied
  <2> QED
    BY <2>3, <2>5, <2>6 DEF TypeOK
<1>5. CASE DropSnapshotEntries
  <2>1. edits' = edits /\ cmd.run \in Run
    BY <1>5 DEF DropSnapshotEntries, Phase, CommandStage
  <2>2. CommandType' /\ faults' \in 0..MaxFaults /\ halted' \in SUBSET (0..MaxRuns)
    <3>1. CASE Failing
      BY <2>1, <3>1, FailingParts
    <3>2. CASE cmd' = Idle /\ UNCHANGED <<faults, halted>>
      BY <2>1, <3>2, IdleType DEF TypeOK, CommandType, CountType, HistoryType
    <3>3. CASE Goto(AfterDrop) /\ UNCHANGED <<faults, halted>>
      BY <1>0, <2>1, <3>3, Onward DEF AfterDrop
    <3> QED
      BY <1>5, <3>1, <3>2, <3>3 DEF DropSnapshotEntries
  <2>3. snaps' \in [Run -> [Surface -> Known(edits) \cup {NoEntry}]]
    <3>1. snaps[cmd.run] \in [Surface -> Known(edits) \cup {NoEntry}]
      BY <1>0, <2>1
    <3>2. [s \in Surface |-> IF s \in cmd.drop THEN NoEntry ELSE snaps[cmd.run][s]]
            \in [Surface -> Known(edits) \cup {NoEntry}]
      BY <3>1
    <3>3. \/ snaps' = [snaps EXCEPT ![cmd.run] =
               [s \in Surface |-> IF s \in cmd.drop THEN NoEntry ELSE snaps[cmd.run][s]]]
          \/ snaps' = snaps
      BY <1>5 DEF DropSnapshotEntries
    <3> QED
      BY <1>0, <3>2, <3>3
  <2> QED
    BY <1>5, <2>2, <2>3, SnapshotType DEF DropSnapshotEntries
<1>6. CASE ReleaseRestoredRows
  <2>1. Planned(cmd.plan) \cap Harness \in SUBSET Surface
    BY DEF Planned
  <2> QED
    BY <1>0, <1>6, <2>1, RowsType DEF ReleaseRestoredRows
<1>7. CASE EditLocalList
  <2>1. edits' = edits
    BY <1>7 DEF EditLocalList
  <2>2. CommandType' /\ faults' \in 0..MaxFaults /\ halted' \in SUBSET (0..MaxRuns)
    <3>1. \/ Goto("prune") /\ UNCHANGED <<faults, halted>>
          \/ Failing
      BY <1>7 DEF EditLocalList
    <3> QED
      BY <1>0, <2>1, <3>1, Onward
  <2>3. excluded' \in SUBSET Surface
    BY <1>7 DEF EditLocalList, TypeOK, DiskType, Surface
  <2>4. DiskType' /\ TableType'
    BY <1>7, <2>3 DEF TypeOK, DiskType, TableType, tables, EditLocalList
  <2>5. CountType' /\ HistoryType'
    BY <1>7, <2>2 DEF TypeOK, CountType, HistoryType, EditLocalList
  <2> QED
    BY <2>2, <2>4, <2>5 DEF TypeOK
<1>8. CASE PruneSnapshots
  <2>1. CommandType'
    BY <1>8, IdleType DEF PruneSnapshots, TypeOK, CommandType, CountType
  <2>2. snaps' \in [Run -> [Surface -> Known(edits) \cup {NoEntry}]]
    BY <1>0, <1>8 DEF PruneSnapshots
  <2>3. forgone' \in SUBSET (Surface \X (Content \cup {NoEntry}))
    <3>1. Pruned \subseteq Run
      BY DEF Pruned, Snapshots
    <3>2. \A s \in Surface, id \in Pruned : snaps[id][s] \in Content \cup {NoEntry}
      BY <1>0, <3>1, Contents DEF TypeOK, CountType
    <3> QED
      BY <1>8, <3>2 DEF PruneSnapshots, TypeOK, HistoryType
  <2>4. UNCHANGED <<file, excluded, tables, runs, edits, faults, last, exposed, left, partial,
                    halted>>
    BY <1>8 DEF PruneSnapshots
  <2>5. DiskType' /\ TableType'
    BY <2>2, <2>4 DEF TypeOK, DiskType, TableType, tables
  <2>6. CountType' /\ HistoryType'
    BY <2>3, <2>4 DEF TypeOK, CountType, HistoryType
  <2> QED
    BY <2>1, <2>5, <2>6 DEF TypeOK
<1> QED
  BY <1>1, <1>2, <1>3, <1>4, <1>5, <1>6, <1>7, <1>8

\* A command that has just been given its stage, its run and its plan.
LEMMA NewCommand ==
  ASSUME NEW n, NEW to \in Stages, NEW run \in 0..MaxRuns, NEW plan \in Plans(n), NEW c,
         c = [pc |-> to, run |-> run, plan |-> plan, capture |-> {}, backed |-> FALSE,
              drop |-> {}]
  PROVE  /\ c \in Commands(n)
         /\ c.pc = to /\ c.run = run /\ c.plan = plan /\ c.capture = {}
         /\ ~c.backed /\ c.drop = {}
  BY DEF Commands

\* What another command takes up of the open run.
LEMMA TakenUp ==
  ASSUME TypeOK, edits' = edits, NEW to \in Stages,
         cmd' = [Idle EXCEPT !.pc = to, !.run = open.run, !.plan = open]
  PROVE  /\ CommandType'
         /\ cmd'.pc = to /\ cmd'.run = open.run /\ cmd'.plan = open /\ cmd'.capture = {}
         /\ ~cmd'.backed /\ cmd'.drop = {}
<1>1. open \in Plans(edits) /\ open.run \in 0..MaxRuns
  BY DEF TypeOK, TableType, Plans
<1>2. cmd' = [pc |-> to, run |-> open.run, plan |-> open, capture |-> {}, backed |-> FALSE,
              drop |-> {}]
  BY Zenon DEF Idle
<1>3. ASSUME NEW c,
             c = [pc |-> to, run |-> open.run, plan |-> open, capture |-> {}, backed |-> FALSE,
                  drop |-> {}]
      PROVE  /\ c \in Commands(edits)
             /\ c.pc = to /\ c.run = open.run /\ c.plan = open /\ c.capture = {}
             /\ ~c.backed /\ c.drop = {}
  BY <1>1, <1>3, NewCommand
<1>4. /\ cmd' \in Commands(edits)
      /\ cmd'.pc = to /\ cmd'.run = open.run /\ cmd'.plan = open /\ cmd'.capture = {}
      /\ ~cmd'.backed /\ cmd'.drop = {}
  BY ONLY <1>2, <1>3
<1> QED
  BY <1>4 DEF CommandType

\* The contents known before an edit are known after it.
LEMMA KnownGrows ==
  ASSUME NEW n \in Nat
  PROVE  Known(n) \subseteq Known(n + 1) /\ Plans(n) \subseteq Plans(n + 1)
         /\ Commands(n) \subseteq Commands(n + 1)
<1>1. Known(n) \subseteq Known(n + 1)
  BY DEF Known, Original
<1>2. /\ [Surface -> Known(n)] \subseteq [Surface -> Known(n + 1)]
      /\ [Surface -> Known(n) \cup {NoEntry}] \subseteq [Surface -> Known(n + 1) \cup {NoEntry}]
      /\ [Surface -> Known(n) \cup {None}] \subseteq [Surface -> Known(n + 1) \cup {None}]
  BY <1>1
<1>3. Plans(n) \subseteq Plans(n + 1)
  BY <1>2 DEF Plans
<1>4. Commands(n) \subseteq Commands(n + 1)
  BY <1>3 DEF Commands
<1> QED
  BY <1>1, <1>3, <1>4

\* The other commands, the end of a process, and the user.
LEMMA OtherType ==
  ASSUME TypeOK, Phase,
         \/ RecoverLocal \/ AbandonLocal \/ CloseAbandoned \/ Stop
         \/ \E s \in Surface : UserEdit(s) \/ Include(s)
  PROVE  TypeOK'
<1>0. {"engine", "release"} \subseteq Stages
  BY DEF Stages, Closing
<1>1. CASE RecoverLocal
  <2>1. CommandType'
    BY <1>0, <1>1, TakenUp DEF RecoverLocal
  <2>2. open' \in Plans(edits)
    BY <1>1, CleanedParts DEF RecoverLocal, TypeOK, TableType
  <2>3. exposed' \in SUBSET (Surface \X (Content \cup {NoEntry}))
    <3>1. Uncaptured \subseteq Surface \X Content
      BY Contents DEF Uncaptured, Planned, TypeOK, DiskType, CountType
    <3> QED
      BY <1>1, <3>1 DEF RecoverLocal, TypeOK, HistoryType
  <2>4. DiskType' /\ TableType'
    BY <1>1, <2>2 DEF RecoverLocal, TypeOK, DiskType, TableType, disk
  <2>5. CountType' /\ HistoryType'
    BY <1>1, <2>3 DEF RecoverLocal, TypeOK, CountType, HistoryType
  <2> QED
    BY <2>1, <2>4, <2>5 DEF TypeOK
<1>2. CASE AbandonLocal
  <2>1. CommandType'
    BY <1>0, <1>2, TakenUp DEF AbandonLocal
  <2>2. open' \in Plans(edits)
    BY <1>2, CleanedParts DEF AbandonLocal, TypeOK, TableType
  <2>3. DiskType' /\ TableType'
    BY <1>2, <2>2 DEF AbandonLocal, TypeOK, DiskType, TableType, disk
  <2>4. CountType' /\ HistoryType'
    BY <1>2 DEF AbandonLocal, TypeOK, CountType, HistoryType, history
  <2> QED
    BY <2>1, <2>3, <2>4 DEF TypeOK
<1>3. CASE CloseAbandoned
  <2>1. CommandType' /\ open' \in Plans(edits)
    BY <1>3, IdleType, ClosedType DEF CloseAbandoned, TypeOK, CommandType, CountType
  <2>2. DiskType' /\ TableType'
    BY <1>3, <2>1 DEF CloseAbandoned, TypeOK, DiskType, TableType, disk
  <2>3. CountType' /\ HistoryType'
    BY <1>3 DEF CloseAbandoned, TypeOK, CountType, HistoryType, history
  <2> QED
    BY <2>1, <2>2, <2>3 DEF TypeOK
<1>4. CASE Stop
  <2>1. CommandType' /\ faults' \in 0..MaxFaults /\ halted' \in SUBSET (0..MaxRuns)
    BY <1>4, FailingParts DEF Stop
  <2> QED
    BY <1>4, <2>1, MoveType DEF Stop
<1>5. ASSUME NEW s \in Surface, UserEdit(s)
      PROVE  TypeOK'
  <2>1. edits' = edits + 1 /\ edits \in Nat /\ edits' \in 0..MaxEdits
    BY <1>5, ConstantsAssumption DEF UserEdit, TypeOK, CountType
  <2>2. Known(edits) \subseteq Known(edits') /\ Plans(edits) \subseteq Plans(edits')
        /\ Commands(edits) \subseteq Commands(edits')
    BY <2>1, KnownGrows
  <2>3. Original + edits + 1 \in Known(edits')
        /\ Original + edits + 1 \in Original..(Original + edits')
        /\ Original..(Original + edits) \subseteq Original..(Original + edits')
    BY <2>1 DEF Known, Original
  <2>4. file' \in [Surface -> Known(edits')] /\ last' \in [Surface -> Original..(Original + edits')]
    BY <1>5, <2>2, <2>3 DEF UserEdit, TypeOK, DiskType, HistoryType
  <2>5. /\ snaps' \in [Run -> [Surface -> Known(edits') \cup {NoEntry}]]
        /\ record' \in [Surface -> Known(edits') \cup {None}]
        /\ open' \in Plans(edits') /\ cmd' \in Commands(edits')
    BY <1>5, <2>2 DEF UserEdit, TypeOK, DiskType, TableType, CommandType, tables
  <2>6. DiskType' /\ TableType' /\ CommandType'
    BY <1>5, <2>4, <2>5 DEF UserEdit, TypeOK, DiskType, TableType, CommandType, tables
  <2>7. CountType' /\ HistoryType'
    BY <1>5, <2>1, <2>4 DEF UserEdit, TypeOK, CountType, HistoryType
  <2> QED
    BY <2>6, <2>7 DEF TypeOK
<1>6. ASSUME NEW s \in Surface, Include(s)
      PROVE  TypeOK'
  <2>1. DiskType' /\ TableType' /\ CommandType'
    BY <1>6 DEF Include, TypeOK, DiskType, TableType, CommandType, tables
  <2>2. CountType' /\ HistoryType'
    BY <1>6 DEF Include, TypeOK, CountType, HistoryType, history
  <2> QED
    BY <2>1, <2>2 DEF TypeOK
<1> QED
  BY <1>1, <1>2, <1>3, <1>4, <1>5, <1>6

\* Every step keeps the types.
LEMMA TypeNext ==
  ASSUME TypeOK, Phase, [Next]_vars
  PROVE  TypeOK'
<1>1. CASE UNCHANGED vars
  <2>1. DiskType' /\ TableType' /\ CommandType'
    BY <1>1 DEF TypeOK, DiskType, TableType, CommandType, vars, disk, tables
  <2>2. CountType' /\ HistoryType'
    BY <1>1 DEF TypeOK, CountType, HistoryType, vars, history
  <2> QED
    BY <2>1, <2>2 DEF TypeOK
<1>2. CASE Next
  BY <1>2, SynchronizeType, RestoreType, ImportType, StartType, EngineType, FinishType, OtherType
     DEF Next
<1> QED
  BY <1>1, <1>2

-----------------------------------------------------------------------------
(* Where a command and its run can be.                                     *)

\* A command that has ended, or has not begun.
LEMMA IdleStage ==
  ASSUME cmd' = Idle
  PROVE  CommandStage' /\ cmd'.pc = "idle" /\ cmd'.pc \notin Starting \cup Closing
         /\ (open' = Closed => OpenStage')
         /\ (UNCHANGED <<snaps, runs>> /\ Unwritten => Unwritten')
  BY IdleFields DEF CommandStage, OpenStage, Unwritten, Starting, Closing

\* An open run that a step leaves alone.
LEMMA OpenStays ==
  ASSUME OpenStage, UNCHANGED <<open, started, file, runs>>,
         open # Closed => cmd'.pc \in {"idle", "engine"} \cup Closing,
         open # Closed /\ cmd'.pc \in Closing => open.cleaned
  PROVE  OpenStage'
  BY DEF OpenStage, PlanShape, Planned

\* A command that goes on to a stage after its start.
LEMMA LaterStage ==
  ASSUME CommandStage, cmd.pc # "idle", UNCHANGED runs, cmd'.run = cmd.run,
         cmd'.pc \in Closing \cup Finishing, cmd'.pc = "close" => open' # Closed
  PROVE  CommandStage' /\ cmd'.pc # "capture" /\ cmd'.pc \notin Starting
  BY DEF CommandStage, Closing, Finishing, Starting

\* A command that stays before its run, with nothing it planned from changed.
LEMMA StartingStage ==
  ASSUME CommandStage, cmd.pc \in Starting, UNCHANGED <<runs, open, file, record>>,
         cmd'.run = cmd.run, cmd'.plan = cmd.plan,
         cmd'.pc \in Starting
  PROVE  CommandStage'
  BY DEF CommandStage, Starting, PlanShape, Planned

\* A snapshot that is already written, or of no run.
LEMMA UnwrittenStays ==
  ASSUME Unwritten, runs' = runs, cmd'.pc # "capture",
         \/ snaps' = snaps
         \/ \E new : snaps' = [snaps EXCEPT ![runs] = new]
  PROVE  Unwritten'
<1>1. CASE snaps' = snaps
  BY <1>1 DEF Unwritten
<1>2. CASE \E new : snaps' = [snaps EXCEPT ![runs] = new]
  <2>1. PICK new : snaps' = [snaps EXCEPT ![runs] = new]
    BY <1>2
  <2>2. ASSUME NEW id \in Run, id > runs'
        PROVE  snaps'[id] = NoSnapshot
    <3>1. id # runs
      BY <2>2 DEF Run
    <3> QED
      BY <2>1, <2>2, <3>1 DEF Unwritten
  <2> QED
    BY <2>2 DEF Unwritten
<1> QED
  BY <1>1, <1>2

\* A run begins.
LEMMA BeginPhase ==
  ASSUME TypeOK, Phase, NEW kind \in Kinds, kind # "none",
         NEW target \in [Surface -> Known(edits) \cup {NoEntry}],
         NEW forced \in SUBSET Surface, NEW ends \in SUBSET Surface,
         NEW capture \in SUBSET Surface, NEW backed \in BOOLEAN,
         Begin(Plan(kind, target, forced, ends), capture, backed),
         kind = "sync" => \A s \in ends : target[s] = Absent,
         kind = "restore" => ends = {s \in Surface : target[s] # NoEntry},
         kind = "import" => ends \subseteq Folder
  PROVE  Phase'
<1>0. PICK p : Begun(p, kind, target, forced, ends, capture, backed)
  BY BeginFacts
<1>1. /\ p.run = runs + 1 /\ p.kind = kind /\ p.target = target
      /\ p.ends = ends /\ p.file = file /\ p.record = record
      /\ p.done = {} /\ p.wrote = {} /\ ~p.cleaned
  BY <1>0 DEF Begun
<1>3. /\ runs \in Nat /\ runs' = runs + 1 /\ runs' \in Run
      /\ (capture # {} /\ backed => cmd'.pc = "capture")
      /\ (capture = {} \/ ~backed => cmd'.pc = "revision")
      /\ cmd'.run = runs + 1 /\ cmd'.plan = p /\ open = Closed
  BY <1>0 DEF Begun
<1>4. UNCHANGED <<file, snaps, record, open>>
  BY DEF Begin, disk, tables
<1>5. PlanShape(cmd.plan)'
  BY <1>1, <1>3 DEF PlanShape, Planned
<1>6. CommandStage'
  BY <1>1, <1>3, <1>4, <1>5 DEF CommandStage, Starting
<1>7. OpenStage'
  BY <1>3, <1>4 DEF OpenStage
<1>8. Unwritten'
  <2>1. ASSUME NEW id \in Run, id > runs
        PROVE  snaps'[id] = NoSnapshot
    BY <1>4, <2>1 DEF Phase, Unwritten
  <2>2. \A id \in Run : id > runs' => id > runs
    BY <1>3 DEF Run
  <2>3. runs' > runs
    BY <1>3
  <2> QED
    BY <1>3, <2>1, <2>2, <2>3 DEF Unwritten
<1> QED
  BY <1>6, <1>7, <1>8 DEF Phase

\* Each of the three commands begins where a run is being prepared.
LEMMA CommandsPhase ==
  ASSUME TypeOK, Phase,
         \/ \E listed \in SUBSET Harness, backup \in BOOLEAN : SynchronizeLocal(listed, backup)
         \/ \E id \in Run : RestoreLocal(id)
         \/ \E entries \in SUBSET Folder : ImportLocal(entries)
  PROVE  Phase'
<1>1. ASSUME NEW listed \in SUBSET Harness, NEW backup \in BOOLEAN,
             SynchronizeLocal(listed, backup)
      PROVE  Phase'
  <2>1. PICK wanted \in SUBSET Harness, target \in [Surface -> Known(edits) \cup {NoEntry}],
             pending \in SUBSET Harness, retired \in SUBSET Harness :
          /\ wanted \cap retired = {}
          /\ target = [s \in Surface |-> IF s \in wanted THEN Projected
                                         ELSE IF s \in retired THEN Absent ELSE NoEntry]
          /\ Begin(Plan("sync", target, pending, retired), pending, backup)
    BY <1>1, SynchronizeParts
  <2>2. Harness \subseteq Surface /\ "sync" \in Kinds
    BY DEF Surface, Kinds
  <2>3. \A s \in retired : target[s] = Absent
    BY <2>1, <2>2
  <2> QED
    BY <2>1, <2>2, <2>3, BeginPhase
<1>2. ASSUME NEW id \in Run, RestoreLocal(id)
      PROVE  Phase'
  <2>1. "restore" \in Kinds
    BY DEF Kinds
  <2>2. Captured(id) = {s \in Surface : snaps[id][s] # NoEntry}
    BY DEF Captured
  <2> QED
    BY <1>2, <2>1, <2>2, RestoreParts, BeginPhase
<1>3. ASSUME NEW entries \in SUBSET Folder, ImportLocal(entries)
      PROVE  Phase'
  <2>1. PICK target \in [Surface -> Known(edits) \cup {NoEntry}] :
          /\ entries \in SUBSET Surface /\ {s \in entries : file[s] # Absent} \in SUBSET Surface
          /\ Begin(Plan("import", target, entries, entries),
                   {s \in entries : file[s] # Absent}, TRUE)
    BY <1>3, ImportParts
  <2>2. "import" \in Kinds
    BY DEF Kinds
  <2> QED
    BY <2>1, <2>2, BeginPhase
<1> QED
  BY <1>1, <1>2, <1>3

\* The steps up to the run.
LEMMA StartPhase ==
  ASSUME TypeOK, Phase,
         \/ WriteTakeoverSnapshot \/ RecordLocalRevision \/ RecordHarnessTakeovers
         \/ StartRun \/ Undo
  PROVE  Phase'
<1> USE DEF Phase
<1>0. {"revision", "rows", "start", "undo", "undo snapshot", "engine"} \subseteq Stages
      /\ CommandType /\ ("engine" \notin Starting)
      /\ {"revision", "rows", "start", "undo", "undo snapshot"} \subseteq Starting
  BY DEF Stages, Starting, TypeOK
<1>1. CASE WriteTakeoverSnapshot
  <2>1. cmd.pc \in Starting /\ cmd.run = runs /\ open = Closed /\ edits' = edits
        /\ UNCHANGED <<runs, open, file, record>>
    BY <1>1 DEF WriteTakeoverSnapshot, Starting, CommandStage, tables
  <2>2. \/ snaps' = snaps
        \/ \E new : snaps' = [snaps EXCEPT ![runs] = new]
    BY <1>1, <2>1 DEF WriteTakeoverSnapshot
  <2>3. CASE Goto("revision")
    <3>1. CommandStage' /\ cmd'.pc = "revision"
      BY <1>0, <2>1, <2>3, GotoParts, StartingStage
    <3>2. Unwritten'
      BY <2>1, <2>2, <3>1, UnwrittenStays
    <3> QED
      BY <2>1, <3>1, <3>2 DEF OpenStage
  <2>4. CASE Failing /\ UNCHANGED snaps
    BY <2>1, <2>4, FailingParts, IdleStage
  <2> QED
    BY <1>1, <2>3, <2>4 DEF WriteTakeoverSnapshot
<1>2. ASSUME cmd.pc \in {"revision", "rows"}, NEW to \in {"rows", "start", "undo"}, Goto(to),
             UNCHANGED <<disk, record, open, started, runs, edits>>
      PROVE  Phase'
  <2>1. cmd.pc \in Starting /\ open = Closed /\ UNCHANGED <<runs, open, file, record, snaps>>
    BY <1>2 DEF Starting, CommandStage, disk
  <2>2. CommandStage' /\ cmd'.pc # "capture"
    BY <1>0, <1>2, <2>1, GotoParts, StartingStage
  <2> QED
    BY <1>2, <2>1, <2>2, UnwrittenStays DEF OpenStage
<1>3. CASE RecordLocalRevision
  BY <1>2, <1>3 DEF RecordLocalRevision, tables
<1>4. CASE RecordHarnessTakeovers
  BY <1>2, <1>4 DEF RecordHarnessTakeovers
<1>5. CASE StartRun
  <2>1. cmd.pc \in Starting /\ open = Closed /\ edits' = edits /\ cmd.pc # "idle"
        /\ UNCHANGED <<runs, file, record, snaps>>
    BY <1>5 DEF StartRun, Starting, CommandStage, disk
  <2>2. CASE Goto("undo") /\ UNCHANGED open
    <3>1. CommandStage' /\ cmd'.pc # "capture"
      BY <1>0, <2>1, <2>2, GotoParts, StartingStage
    <3> QED
      BY <2>1, <2>2, <3>1, UnwrittenStays DEF OpenStage
  <2>3. CASE Goto("engine") /\ open' = cmd.plan /\ started' = {}
    <3>1. /\ cmd'.pc = "engine" /\ cmd'.run = cmd.run /\ cmd'.plan = cmd.plan
      BY <1>0, <2>1, <2>3, GotoParts
    <3>2. /\ PlanShape(cmd.plan) /\ cmd.plan.file = file
          /\ cmd.plan.wrote = {} /\ ~cmd.plan.cleaned /\ cmd.run = runs /\ runs \in Run
      BY <2>1 DEF CommandStage
    <3>3. PlanShape(open)'
      BY <2>1, <2>3, <3>2 DEF PlanShape, Planned
    <3>4. open' # Closed
      BY <2>3, <3>2, ClosedFields DEF PlanShape, Run
    <3>5. CommandStage'
      BY <1>0, <2>1, <2>3, <3>1, <3>2, <3>4 DEF CommandStage
    <3>6. OpenStage'
      BY <2>1, <2>3, <3>1, <3>2, <3>3 DEF OpenStage, Closing
    <3> QED
      BY <2>1, <3>1, <3>5, <3>6, UnwrittenStays
  <2> QED
    BY <1>5, <2>2, <2>3 DEF StartRun
<1>6. CASE Undo
  <2>1. cmd.pc \in Starting /\ open = Closed /\ edits' = edits
        /\ UNCHANGED <<runs, file, record, open, snaps>>
    BY <1>6 DEF Undo, Starting, CommandStage, disk
  <2>2. CASE Goto("undo snapshot")
    <3>1. CommandStage' /\ cmd'.pc # "capture"
      BY <1>0, <2>1, <2>2, GotoParts, StartingStage
    <3> QED
      BY <2>1, <3>1, UnwrittenStays DEF OpenStage
  <2>3. CASE Failing
    BY <2>1, <2>3, FailingParts, IdleStage
  <2> QED
    BY <1>6, <2>2, <2>3 DEF Undo
<1> QED
  BY <1>1, <1>3, <1>4, <1>5, <1>6

\* The engine's steps: the ones that leave the run open, and the ones that
\* close it.
LEMMA EnginePhase ==
  ASSUME TypeOK, Phase, EngineStep
  PROVE  Phase'
<1> USE DEF Phase
<1>0. /\ cmd.pc = "engine" /\ open # Closed /\ cmd.run = runs /\ runs \in Run
      /\ CommandType /\ open \in Plans(edits)
      /\ PlanShape(open) /\ open.wrote \subseteq started /\ started \in SUBSET Surface
      /\ \A s \in Surface \ open.wrote : file[s] = open.file[s]
      /\ cmd.plan.target = open.target /\ ~open.cleaned
  BY DEF EngineStep, BeginAction, Write, Commit, StopEarly, InEngine, Fail, GiveUp, Converge,
         CommandStage, OpenStage, TypeOK, TableType
<1>1. ASSUME open'.run = open.run, open'.kind = open.kind, open'.target = open.target,
             open'.ends = open.ends, open'.wrote \subseteq started',
             \A s \in Surface \ open'.wrote : file'[s] = open'.file[s],
             cmd'.pc = "engine", cmd'.run = cmd.run, cmd'.plan = cmd.plan,
             open'.cleaned = open.cleaned, UNCHANGED <<runs, snaps>>
      PROVE  Phase'
  <2>1. PlanShape(open)'
    BY <1>0, <1>1 DEF PlanShape, Planned
  <2>2. open' # Closed
    BY <1>0, <1>1, ClosedFields DEF PlanShape, Run
  <2>3. CommandStage'
    BY <1>0, <1>1, <2>2 DEF CommandStage, Starting
  <2>4. OpenStage'
    BY <1>1, <2>1 DEF OpenStage, Closing
  <2> QED
    BY <1>1, <2>3, <2>4, UnwrittenStays
<1>2. ASSUME NEW s \in Surface, BeginAction(s)
      PROVE  Phase'
  <2>1. cmd'.pc = "engine" /\ cmd'.run = cmd.run /\ cmd'.plan = cmd.plan
    BY <1>0, <1>2, GotoParts DEF BeginAction, Stages
  <2> QED
    BY <1>0, <1>1, <1>2, <2>1 DEF BeginAction, disk
<1>3. ASSUME NEW s \in Surface, Write(s)
      PROVE  Phase'
  <2>1. open.wrote \cup {s} \in SUBSET Surface
    BY <1>0
  <2>2. open' = [open EXCEPT !.wrote = open.wrote \cup {s}]
    BY <1>3 DEF Write
  <2>3. /\ open'.run = open.run /\ open'.kind = open.kind /\ open'.target = open.target
        /\ open'.ends = open.ends /\ open'.file = open.file /\ open'.wrote = open.wrote \cup {s}
        /\ open'.cleaned = open.cleaned
    BY <1>0, <2>1, <2>2, WroteParts
  <2>4. file' = [file EXCEPT ![s] = open.target[s]] /\ s \in started
        /\ UNCHANGED <<snaps, started, cmd, runs>>
    BY <1>3 DEF Write
  <2>5. \A t \in Surface \ open'.wrote : file'[t] = open'.file[t]
    BY <1>0, <2>3, <2>4
  <2> QED
    BY <1>0, <1>1, <2>3, <2>4, <2>5
<1>4. ASSUME NEW s \in Surface, Commit(s)
      PROVE  Phase'
  <2>1. open.done \cup {s} \in SUBSET Surface
    BY <1>0, PlanParts
  <2>2. open' = [open EXCEPT !.done = open.done \cup {s}]
    BY <1>4 DEF Commit
  <2>3. /\ open'.run = open.run /\ open'.kind = open.kind /\ open'.target = open.target
        /\ open'.ends = open.ends /\ open'.file = open.file /\ open'.wrote = open.wrote
        /\ open'.cleaned = open.cleaned
    BY <1>0, <2>1, <2>2, DoneParts
  <2>4. UNCHANGED <<file, snaps, started, cmd, runs>>
    BY <1>4 DEF Commit, disk
  <2> QED
    BY <1>0, <1>1, <2>3, <2>4
<1>5. ASSUME open' = Closed, edits' = edits, UNCHANGED <<runs, snaps>>,
             \/ cmd' = Idle
             \/ /\ cmd'.run = cmd.run
                /\ cmd'.pc \in {"forget", "release", "release restored", "release restored part",
                                "prune"}
      PROVE  Phase'
  <2>1. CASE cmd' = Idle
    BY <1>5, <2>1, IdleStage
  <2>2. CASE /\ cmd'.run = cmd.run
             /\ cmd'.pc \in {"forget", "release", "release restored", "release restored part",
                             "prune"}
    <3>1. CommandStage' /\ cmd'.pc # "capture"
      BY <1>0, <1>5, <2>2, LaterStage DEF Closing, Finishing
    <3> QED
      BY <1>5, <3>1, UnwrittenStays DEF OpenStage
  <2> QED
    BY <1>5, <2>1, <2>2
<1>6. ASSUME NEW to \in {"release", "release restored", "prune"}, Close(to), edits' = edits,
             UNCHANGED <<runs, snaps>>
      PROVE  Phase'
  <2>1. to \in Stages
    BY DEF Stages, Finishing, Closing
  <2>2. open' = Closed
    BY <1>6 DEF Close
  <2>3. CASE Goto(to)
    BY <1>0, <1>5, <1>6, <2>1, <2>2, <2>3, GotoParts
  <2>4. CASE Failing
    BY <1>5, <1>6, <2>2, <2>4, FailingParts
  <2> QED
    BY <1>6, <2>3, <2>4 DEF Close
<1>7. ASSUME NEW s \in Surface, StopEarly(s)
      PROVE  Phase'
  BY <1>6, <1>7 DEF StopEarly, disk
<1>8. CASE Converge
  BY <1>6, <1>8 DEF Converge, disk
<1>9. CASE GiveUp
  BY <1>5, <1>9 DEF GiveUp, disk
<1>10. ASSUME NEW kept \in SUBSET open.wrote, Fail(kept)
       PROVE  Phase'
  <2>1. open' = Closed /\ edits' = edits /\ UNCHANGED <<runs, snaps>>
        /\ {"forget", "release restored part"} \subseteq Stages
        /\ {s \in Surface : row[s].run = cmd.run} \ kept \in SUBSET Surface
    BY <1>10 DEF Fail, Stages, Finishing
  <2>2. CASE Failing
    BY <1>5, <2>1, <2>2, FailingParts
  <2>3. CASE cmd' = [cmd EXCEPT !.pc = "forget"]
    BY <1>0, <1>5, <2>1, <2>3, GotoParts DEF Goto
  <2>4. CASE cmd' = [cmd EXCEPT !.pc = "release restored part",
                                !.drop = {s \in Surface : row[s].run = cmd.run} \ kept]
    <3>1. cmd'.pc = "release restored part" /\ cmd'.run = cmd.run
      BY <1>0, <2>1, <2>4, DropParts
    <3> QED
      BY <1>5, <2>1, <3>1
  <2> QED
    BY <1>10, <2>2, <2>3, <2>4 DEF Fail
<1> QED
  BY <1>2, <1>3, <1>4, <1>7, <1>8, <1>9, <1>10 DEF EngineStep


\* A command that goes on once its run has ended, or to abandon it, or that ends there.
LEMMA FinishStage ==
  ASSUME Phase, cmd.pc \in Closing \cup Finishing \cup {"undo snapshot"},
         UNCHANGED <<open, started, file, runs>>,
         \A id \in Run : id > runs => snaps'[id] \in {snaps[id], NoSnapshot},
         \/ cmd' = Idle
         \/ /\ cmd'.run = cmd.run /\ cmd'.pc \in Closing \cup Finishing
            /\ open # Closed => cmd'.pc \in Closing
            /\ cmd'.pc = "close" => open # Closed
  PROVE  Phase'
<1> USE DEF Phase
<1>1. cmd.pc # "idle"
  BY DEF Closing, Finishing
<1>2. open # Closed => cmd.pc \in Closing /\ open.cleaned
  BY DEF OpenStage, Closing, Finishing
<1>3. cmd'.pc # "capture" => Unwritten'
  BY DEF Unwritten
<1>4. CASE cmd' = Idle
  <2>1. CommandStage' /\ cmd'.pc = "idle"
    BY <1>4, IdleStage
  <2>2. OpenStage'
    BY <1>2, <2>1, OpenStays DEF Closing
  <2> QED
    BY <1>3, <2>1, <2>2
<1>5. CASE /\ cmd'.run = cmd.run /\ cmd'.pc \in Closing \cup Finishing
           /\ open # Closed => cmd'.pc \in Closing
           /\ cmd'.pc = "close" => open # Closed
  <2>1. CommandStage' /\ cmd'.pc # "capture"
    BY <1>1, <1>5, LaterStage
  <2>2. OpenStage'
    BY <1>2, <1>5, OpenStays
  <2> QED
    BY <1>3, <2>1, <2>2
<1> QED
  BY <1>4, <1>5

\* The steps once the run has ended, and of an abandonment.
LEMMA FinishPhase ==
  ASSUME TypeOK, Phase,
         \/ Forget \/ DeleteSnapshot \/ ReleaseRestored \/ ReleaseUnapplied
         \/ DropSnapshotEntries \/ ReleaseRestoredRows \/ EditLocalList \/ PruneSnapshots
  PROVE  Phase'
<1>0. /\ cmd.pc # "idle" => cmd.run = runs /\ runs \in Run
      /\ open # Closed => cmd.pc \in {"idle", "engine"} \cup Closing
      /\ CommandType /\ snaps \in [Run -> [Surface -> Known(edits) \cup {NoEntry}]]
  BY DEF Phase, CommandStage, OpenStage, TypeOK, DiskType
<1>1. {"delete", "drop", "exclude", "prune", "close"} \subseteq Stages
  BY DEF Stages, Finishing, Closing
<1>2. ASSUME NEW from \in {"forget", "release restored part", "release restored", "exclude"},
             cmd.pc = from, NEW to \in {"delete", "drop", "exclude", "prune"}, edits' = edits,
             UNCHANGED <<snaps, open, started, file, runs>>,
             Goto(to) \/ Failing
      PROVE  Phase'
  <2>1. open = Closed /\ cmd.pc \in Finishing
    BY <1>0, <1>2 DEF Closing, Finishing
  <2>2. CASE Goto(to)
    <3>1. cmd'.pc = to /\ cmd'.run = cmd.run
      BY <1>0, <1>1, <1>2, <2>2, GotoParts
    <3> QED
      BY <1>2, <2>1, <3>1, FinishStage DEF Closing, Finishing
  <2>3. CASE Failing
    BY <1>2, <2>1, <2>3, FailingParts, FinishStage
  <2> QED
    BY <1>2, <2>2, <2>3
<1>3. CASE Forget
  BY <1>2, <1>3 DEF Forget, disk
<1>4. CASE ReleaseRestored
  BY <1>2, <1>4 DEF ReleaseRestored, disk
<1>5. CASE ReleaseRestoredRows
  BY <1>2, <1>5 DEF ReleaseRestoredRows, disk
<1>6. CASE EditLocalList
  BY <1>2, <1>6 DEF EditLocalList, tables
<1>7. CASE DeleteSnapshot
  <2>1. /\ cmd.pc \in {"delete", "undo snapshot"} /\ edits' = edits
        /\ UNCHANGED <<open, started, file, runs>>
        /\ cmd' = Idle \/ Failing
        /\ snaps' = [snaps EXCEPT ![cmd.run] = NoSnapshot] \/ snaps' = snaps
    BY <1>7 DEF DeleteSnapshot, tables
  <2>2. \A id \in Run : id > runs => snaps'[id] \in {snaps[id], NoSnapshot}
    BY <1>0, <2>1
  <2>3. cmd' = Idle
    BY <2>1, FailingParts
  <2> QED
    BY <2>1, <2>2, <2>3, FinishStage DEF Finishing
<1>8. CASE PruneSnapshots
  <2>1. /\ cmd.pc \in Finishing /\ cmd' = Idle /\ UNCHANGED <<open, started, file, runs>>
        /\ snaps' = [id \in Run |-> IF id \in Pruned THEN NoSnapshot ELSE snaps[id]]
    BY <1>8 DEF PruneSnapshots, tables, Finishing
  <2> QED
    BY <2>1, FinishStage
<1>9. CASE ReleaseUnapplied
  <2>1. /\ cmd.pc = "release" /\ edits' = edits /\ UNCHANGED <<snaps, open, started, file, runs>>
        /\ \/ cmd' = [cmd EXCEPT !.pc = "drop", !.drop = NeverStarted]
           \/ Failing
    BY <1>9 DEF ReleaseUnapplied, disk
  <2>2. CASE cmd' = [cmd EXCEPT !.pc = "drop", !.drop = NeverStarted]
    <3>1. NeverStarted \in SUBSET Surface
      BY DEF NeverStarted, Unapplied
    <3>2. cmd'.pc = "drop" /\ cmd'.run = cmd.run
      BY <1>0, <1>1, <2>1, <2>2, <3>1, DropParts
    <3> QED
      BY <2>1, <3>2, FinishStage DEF Closing
  <2>3. CASE Failing
    BY <2>1, <2>3, FailingParts, FinishStage DEF Closing
  <2> QED
    BY <2>1, <2>2, <2>3
<1>10. CASE DropSnapshotEntries
  <2>1. /\ cmd.pc = "drop" /\ edits' = edits /\ UNCHANGED <<open, started, file, runs>>
        /\ snaps' = snaps \/ \E new : snaps' = [snaps EXCEPT ![cmd.run] = new]
        /\ \/ AfterDrop = "idle" /\ cmd' = Idle
           \/ AfterDrop # "idle" /\ Goto(AfterDrop)
           \/ Failing
    BY <1>10 DEF DropSnapshotEntries, tables
  <2>2. ASSUME NEW id \in Run, id > runs
        PROVE  snaps'[id] \in {snaps[id], NoSnapshot}
    <3>1. cmd.run = runs /\ runs \in Nat /\ id \in Nat
      BY <1>0, <2>1 DEF Run
    <3>2. id # cmd.run
      BY <2>2, <3>1
    <3>3. snaps'[id] = snaps[id]
      BY <1>0, <2>1, <3>2
    <3> QED
      BY <3>3
  <2>3. CASE cmd' = Idle
    BY <2>1, <2>2, <2>3, FinishStage DEF Closing
  <2>4. CASE Failing
    BY <2>1, <2>3, <2>4, FailingParts
  <2>5. ASSUME AfterDrop # "idle", Goto(AfterDrop)
        PROVE  Phase'
    <3>1. /\ AfterDrop \in {"close", "prune"}
          /\ AfterDrop = "close" <=> open # Closed
      BY <2>5 DEF AfterDrop
    <3>2. cmd'.pc = AfterDrop /\ cmd'.run = cmd.run
      <4>1. PICK to : to = AfterDrop
        OBVIOUS
      <4>2. to \in Stages /\ Goto(to)
        BY <1>1, <2>5, <3>1, <4>1
      <4>3. cmd'.pc = to /\ cmd'.run = cmd.run
        BY <1>0, <2>1, <4>2, GotoParts
      <4> QED
        BY <4>1, <4>3
    <3> QED
      BY <2>1, <2>2, <3>1, <3>2, FinishStage DEF Closing, Finishing
  <2> QED
    BY <2>1, <2>3, <2>4, <2>5
<1> QED
  BY <1>3, <1>4, <1>5, <1>6, <1>7, <1>8, <1>9, <1>10

\* The commands for an open run, the user, and the end of a process.
LEMMA OtherPhase ==
  ASSUME TypeOK, Phase,
         \/ RecoverLocal \/ AbandonLocal \/ CloseAbandoned \/ Stop
         \/ \E s \in Surface : UserEdit(s) \/ Include(s)
  PROVE  Phase'
<1> USE DEF Phase
<1>1. ASSUME cmd.pc = "idle", open # Closed, NEW to \in {"engine", "release"},
             NEW b \in BOOLEAN, b <=> to = "release",
             cmd' = [Idle EXCEPT !.pc = to, !.run = open.run, !.plan = open],
             open' = [open EXCEPT !.cleaned = b], UNCHANGED <<disk, started, runs, edits>>
      PROVE  Phase'
  <2>1. to \in Stages /\ open \in Plans(edits)
    BY DEF Stages, Closing, TypeOK, TableType
  <2>2. cmd'.pc = to /\ cmd'.run = open.run /\ cmd'.plan = open
    BY <1>1, <2>1, TakenUp
  <2>3. /\ open'.run = open.run /\ open'.kind = open.kind /\ open'.target = open.target
        /\ open'.ends = open.ends /\ open'.file = open.file /\ open'.wrote = open.wrote
        /\ open'.cleaned = b
    BY <1>1, <2>1, CleanedParts
  <2>4. /\ PlanShape(open) /\ open.run = runs /\ runs \in Run /\ open.wrote \subseteq started
        /\ \A s \in Surface \ open.wrote : file[s] = open.file[s]
    BY <1>1 DEF OpenStage, PlanShape
  <2>5. PlanShape(open)'
    BY <1>1, <2>3, <2>4 DEF PlanShape, Planned
  <2>6. open' # Closed
    BY <2>3, <2>4, ClosedFields DEF Run
  <2>7. CommandStage'
    BY <1>1, <2>2, <2>3, <2>4, <2>6 DEF CommandStage, Starting
  <2>8. OpenStage'
    BY <1>1, <2>2, <2>3, <2>4, <2>5 DEF OpenStage, Closing, disk
  <2> QED
    BY <1>1, <2>2, <2>7, <2>8, UnwrittenStays DEF disk
<1>2. CASE RecoverLocal
  BY <1>1, <1>2 DEF RecoverLocal
<1>3. CASE AbandonLocal
  BY <1>1, <1>3 DEF AbandonLocal
<1>4. CASE CloseAbandoned
  BY <1>4, IdleStage DEF CloseAbandoned, disk
<1>5. CASE Stop
  <2>1. cmd' = Idle /\ UNCHANGED <<snaps, runs, open, started, file>>
    BY <1>5 DEF Stop, Failing, disk, tables
  <2> QED
    BY <2>1, IdleStage, OpenStays DEF Closing
<1>6. ASSUME NEW s \in Surface, UserEdit(s)
      PROVE  Phase'
  <2>1. cmd.pc = "idle" /\ open = Closed /\ UNCHANGED <<snaps, runs, open, started, cmd>>
    BY <1>6 DEF UserEdit, tables
  <2>2. cmd' = Idle
    BY <2>1 DEF CommandStage
  <2> QED
    BY <2>1, <2>2, IdleStage
<1>7. ASSUME NEW s \in Surface, Include(s)
      PROVE  Phase'
  <2>1. cmd.pc = "idle" /\ UNCHANGED <<snaps, runs, open, started, cmd, file>>
    BY <1>7 DEF Include, tables
  <2>2. cmd' = Idle
    BY <2>1 DEF CommandStage
  <2> QED
    BY <2>1, <2>2, IdleStage, OpenStays DEF Closing
<1> QED
  BY <1>2, <1>3, <1>4, <1>5, <1>6, <1>7

\* Every step keeps where a command and its run can be.
LEMMA PhaseNext ==
  ASSUME TypeOK, Phase, [Next]_vars
  PROVE  Phase'
<1>1. CASE UNCHANGED vars
  <2>1. UNCHANGED <<cmd, open, runs, file, record, started, snaps>>
    BY <1>1 DEF vars, disk, tables
  <2>2. PlanShape(cmd.plan)' <=> PlanShape(cmd.plan)
    BY <2>1 DEF PlanShape, Planned
  <2>3. PlanShape(open)' <=> PlanShape(open)
    BY <2>1 DEF PlanShape, Planned
  <2>4. CommandStage'
    BY <2>1, <2>2 DEF Phase, CommandStage
  <2>5. OpenStage'
    BY <2>1, <2>3 DEF Phase, OpenStage
  <2>6. Unwritten'
    BY <2>1 DEF Phase, Unwritten
  <2> QED
    BY <2>4, <2>5, <2>6 DEF Phase
<1>2. CASE Next
  BY <1>2, CommandsPhase, StartPhase, EnginePhase, FinishPhase, OtherPhase DEF Next
<1> QED
  BY <1>1, <1>2

-----------------------------------------------------------------------------
(* The user's versions.                                                    *)

\* A copy stays while no snapshot changes, and one elsewhere is one.
LEMMA CopiesStay ==
  ASSUME UNCHANGED <<snaps, last>>, forgone \subseteq forgone', exposed \subseteq exposed',
         NEW s \in Surface
  PROVE  /\ Preserved(s) => Preserved(s)'
         /\ Working' \in {Working, 0} /\ Elsewhere(s) => Elsewhere(s)'
<1>1. Preserved(s) => Preserved(s)'
  BY DEF Preserved
<1>2. ASSUME Working' = Working, Elsewhere(s)
      PROVE  Elsewhere(s)'
  BY <1>2 DEF Elsewhere
<1>3. ASSUME Working' = 0, Elsewhere(s)
      PROVE  Elsewhere(s)'
  <2>1. \A id \in Run : id # 0
    BY DEF Run
  <2> QED
    BY <1>3, <2>1 DEF Elsewhere
<1> QED
  BY <1>1, <1>2, <1>3

\* A copy in the snapshot of another run is a copy.
LEMMA ElsewherePreserved ==
  ASSUME NEW s \in Surface, Elsewhere(s)
  PROVE  Preserved(s)
  BY DEF Elsewhere, Preserved

\* The latest version is no content but the user's.
LEMMA LatestIs ==
  ASSUME TypeOK, NEW s \in Surface
  PROVE  /\ last[s] \in Known(edits) /\ last[s] \notin {Projected, Absent, NoEntry, None}
         /\ file[s] \in Known(edits)
<1>1. edits \in 0..MaxEdits /\ last[s] \in Original..(Original + edits)
      /\ file[s] \in Known(edits)
  BY DEF TypeOK, CountType, HistoryType, DiskType
<1> QED
  BY <1>1, Contents

\* What the surfaces and the records hold stays kept.
LEMMA FilesStay ==
  ASSUME FileKept, RecordKept, UNCHANGED <<file, record, snaps, last>>,
         forgone \subseteq forgone', exposed \subseteq exposed', Working' \in {Working, 0}
  PROVE  FileKept' /\ RecordKept'
  BY CopiesStay DEF FileKept, RecordKept, Kept

\* What an open run may write stays covered.
LEMMA OpenCoveredStays ==
  ASSUME OpenCovered, UNCHANGED <<open, started, snaps, last, runs>>,
         forgone \subseteq forgone', exposed \subseteq exposed', Working' \in {Working, 0}
  PROVE  OpenCovered'
<1>1. ASSUME open # Closed, NEW s \in Surface
      PROVE  (/\ open.target[s] = last[s] => Elsewhere(s)
              /\ open.record[s] = last[s] => Elsewhere(s)
              /\ Kept(s, open.file[s])
              /\ s \in open.forced \cap Planned(open) /\ ~open.cleaned => Preserved(s)
              /\ s \in started => Preserved(s)
              /\ snaps[runs][s] \in {NoEntry, open.file[s]})'
  BY <1>1, CopiesStay DEF OpenCovered, Kept, Planned
<1> QED
  BY <1>1 DEF OpenCovered

\* The current run, when a command goes on and when it ends.
LEMMA WorkingStays ==
  ASSUME Phase
  PROVE  /\ cmd.pc # "idle" => Working = runs
         /\ open # Closed => Working = runs
         /\ cmd.pc = "idle" /\ open = Closed => Working = 0
  BY ClosedFields, IdleFields DEF Phase, CommandStage, OpenStage, PlanShape, Working

\* A command that goes on is for the same run.
LEMMA WorkingGoes ==
  ASSUME Phase, cmd.pc # "idle", cmd'.pc # "idle", cmd'.run = cmd.run
  PROVE  Working' = Working
  BY DEF Working

\* A command that ends is for no run, or for the one that is open.
LEMMA WorkingEnds ==
  ASSUME Phase, cmd.pc # "idle", cmd' = Idle, open' = Closed \/ open' = open
  PROVE  Working' \in {Working, 0}
<1>1. Working' = open'.run
  BY IdleFields DEF Working
<1>2. CASE open' = Closed
  BY <1>1, <1>2, ClosedFields
<1>3. CASE open' = open /\ open # Closed
  BY <1>1, <1>3 DEF Phase, CommandStage, OpenStage, PlanShape, Working
<1> QED
  BY <1>2, <1>3

\* A command that ends where it stands.
LEMMA EndSaved ==
  ASSUME Phase, Saved, cmd.pc # "idle", cmd' = Idle,
         UNCHANGED <<file, record, snaps, last, forgone, exposed, runs>>,
         open' = Closed \/ UNCHANGED <<open, started>>
  PROVE  Saved'
<1>1. Working' \in {Working, 0}
  BY WorkingEnds
<1>2. FileKept' /\ RecordKept'
  BY <1>1, FilesStay DEF Saved
<1>3. OpenCovered'
  BY <1>1, OpenCoveredStays DEF Saved, OpenCovered
<1>4. StartCovered' /\ CopiesMatch'
  BY IdleFields DEF StartCovered, CopiesMatch, Droppable, Starting
<1> QED
  BY <1>2, <1>3, <1>4 DEF Saved

\* A command that goes on, and changes nothing of this.
LEMMA GoSaved ==
  ASSUME Phase, Saved, cmd.pc # "idle", cmd'.pc # "idle", cmd'.run = cmd.run,
         UNCHANGED <<file, record, snaps, last, forgone, exposed, runs, open, started>>,
         cmd'.pc \notin Starting, CopiesMatch'
  PROVE  Saved'
<1>1. Working' = Working
  BY WorkingGoes
<1>2. FileKept' /\ RecordKept'
  BY <1>1, FilesStay DEF Saved
<1>3. OpenCovered'
  BY <1>1, OpenCoveredStays DEF Saved
<1>4. StartCovered'
  BY DEF StartCovered
<1> QED
  BY <1>2, <1>3, <1>4 DEF Saved

\* A command that goes on before its run, once its snapshot is written.
LEMMA StartSaved ==
  ASSUME Phase, Saved, cmd.pc \in Starting \ {"capture"}, cmd'.pc \in Starting \ {"capture"},
         cmd'.run = cmd.run, cmd'.plan = cmd.plan,
         cmd.pc \in {"undo", "undo snapshot"} => cmd'.pc \in {"undo", "undo snapshot"},
         UNCHANGED <<file, record, snaps, last, forgone, exposed, runs, open, started>>
  PROVE  Saved'
<1>0. cmd.pc # "idle" /\ cmd'.pc # "idle"
  BY DEF Starting
<1>1. Working' = Working
  BY <1>0, WorkingGoes
<1>2. FileKept' /\ RecordKept'
  BY <1>1, FilesStay DEF Saved
<1>3. OpenCovered'
  BY <1>1, OpenCoveredStays DEF Saved
<1>4. StartCovered'
  <2>1. ASSUME NEW s \in Surface
        PROVE  /\ cmd'.plan.target[s] = last'[s] => Elsewhere(s)'
               /\ cmd'.pc \in {"revision", "rows", "start"} /\ s \in cmd'.plan.forced
                    => Preserved(s)'
    BY <1>1, <2>1, CopiesStay DEF Saved, StartCovered, Starting
  <2> QED
    BY <2>1 DEF StartCovered
<1>5. CopiesMatch'
  BY DEF Saved, CopiesMatch, Droppable, Starting
<1> QED
  BY <1>2, <1>3, <1>4, <1>5 DEF Saved

\* A run begins: what it may write has a copy, or is about to be captured.
LEMMA BeginSaved ==
  ASSUME TypeOK, Phase, Saved, NEW kind \in Kinds,
         NEW target \in [Surface -> Known(edits) \cup {NoEntry}],
         NEW forced \in SUBSET Surface, NEW ends \in SUBSET Surface,
         NEW capture \in SUBSET Surface, NEW backed \in BOOLEAN,
         Begin(Plan(kind, target, forced, ends), capture, backed),
         forgone \subseteq forgone',
         \A s \in Surface : target[s] = last[s] => Preserved(s),
         \A s \in forced : (s \in capture /\ backed) \/ Preserved(s)'
  PROVE  Saved'
<1>0. PICK p : Begun(p, kind, target, forced, ends, capture, backed)
  BY BeginFacts
<1>1. /\ cmd.pc = "idle" /\ open = Closed /\ runs' = runs + 1 /\ runs \in Nat /\ runs' \in Run
      /\ cmd'.run = runs' /\ cmd'.plan = p /\ p.target = target /\ p.forced = forced
      /\ cmd'.capture = capture
      /\ (capture # {} /\ backed => cmd'.pc = "capture")
      /\ (capture = {} \/ ~backed => cmd'.pc = "revision")
  BY <1>0 DEF Begun
<1>2. UNCHANGED <<file, record, snaps, last, exposed, open>>
  BY DEF Begin, disk, tables
<1>3. snaps[runs'] = NoSnapshot
  BY <1>1 DEF Phase, Unwritten
<1>4. cmd'.pc \in {"capture", "revision"} /\ Working' = runs'
  BY <1>1 DEF Working
<1>5. ASSUME NEW s \in Surface, Preserved(s)
      PROVE  Elsewhere(s)'
  <2>1. CASE <<s, last[s]>> \in forgone \cup exposed
    BY <1>2, <2>1 DEF Elsewhere
  <2>2. ASSUME NEW id \in Run, snaps[id][s] = last[s]
        PROVE  Elsewhere(s)'
    <3>1. snaps[runs'][s] = NoEntry
      BY <1>3 DEF NoSnapshot
    <3>2. id # runs'
      BY <2>2, <3>1, LatestIs
    <3> QED
      BY <1>2, <1>4, <2>2, <3>2 DEF Elsewhere
  <2> QED
    BY <1>5, <2>1, <2>2 DEF Preserved
<1>6. FileKept' /\ RecordKept'
  BY <1>2, <1>5, CopiesStay, ElsewherePreserved DEF Saved, FileKept, RecordKept, Kept
<1>7. StartCovered'
  <2>1. ASSUME NEW s \in Surface
        PROVE  /\ cmd'.plan.target[s] = last'[s] => Elsewhere(s)'
               /\ cmd'.pc = "revision" /\ s \in cmd'.plan.forced => Preserved(s)'
               /\ s \in cmd'.plan.forced => Preserved(s)' \/ s \in cmd'.capture
    BY <1>1, <1>2, <1>5, <2>1
  <2> QED
    BY <1>4, <2>1 DEF StartCovered
<1>8. OpenCovered'
  BY <1>1, <1>2 DEF OpenCovered
<1>9. CopiesMatch'
  BY <1>2, <1>3, <1>4 DEF CopiesMatch, NoSnapshot, Droppable
<1> QED
  BY <1>6, <1>7, <1>8, <1>9 DEF Saved

\* What a surface holds has a copy when it is not the latest version.
LEMMA OtherContent ==
  ASSUME TypeOK, Saved, NEW s \in Surface,
         file[s] \in {Projected, Absent} \/ file[s] = record[s]
  PROVE  Preserved(s)
<1>1. CASE file[s] # last[s]
  BY <1>1 DEF Saved, FileKept, Kept
<1>2. CASE file[s] = last[s]
  BY <1>2, LatestIs, ElsewherePreserved DEF Saved, RecordKept
<1> QED
  BY <1>1, <1>2

\* The commands that begin a run.
LEMMA CommandsSaved ==
  ASSUME TypeOK, Phase, Saved,
         \/ \E listed \in SUBSET Harness, backup \in BOOLEAN : SynchronizeLocal(listed, backup)
         \/ \E id \in Run : RestoreLocal(id)
         \/ \E entries \in SUBSET Folder : ImportLocal(entries)
  PROVE  Saved'
<1>1. ASSUME NEW listed \in SUBSET Harness, NEW backup \in BOOLEAN,
             SynchronizeLocal(listed, backup)
      PROVE  Saved'
  <2>1. PICK wanted \in SUBSET Harness, target \in [Surface -> Known(edits) \cup {NoEntry}],
             pending \in SUBSET Harness, retired \in SUBSET Harness :
          /\ target = [s \in Surface |-> IF s \in wanted THEN Projected
                                         ELSE IF s \in retired THEN Absent ELSE NoEntry]
          /\ Begin(Plan("sync", target, pending, retired), pending, backup)
          /\ forgone' = forgone \cup {<<s, file[s]>> : s \in IF backup THEN {} ELSE pending}
    BY <1>1, SynchronizeParts
  <2>2. Harness \subseteq Surface /\ "sync" \in Kinds
    BY DEF Surface, Kinds
  <2>3. \A s \in Surface : target[s] # last[s]
    BY <2>1, LatestIs
  <2>4. UNCHANGED <<snaps, last, exposed>>
    BY <2>1 DEF Begin, disk
  <2>5. ASSUME NEW s \in pending, ~backup
        PROVE  Preserved(s)'
    <3>1. <<s, file[s]>> \in forgone'
      BY <2>1, <2>5
    <3>2. CASE file[s] = last[s]
      BY <2>4, <3>1, <3>2 DEF Preserved
    <3>3. CASE file[s] # last[s]
      BY <2>1, <2>2, <2>4, <3>3, CopiesStay DEF Saved, FileKept, Kept
    <3> QED
      BY <3>2, <3>3
  <2> QED
    BY <2>1, <2>2, <2>3, <2>5, BeginSaved
<1>2. ASSUME NEW id \in Run, RestoreLocal(id)
      PROVE  Saved'
  <2>1. PICK target \in [Surface -> Known(edits) \cup {NoEntry}], forced \in SUBSET Surface,
             capture \in SUBSET Surface :
          /\ target = snaps[id] /\ forced = Captured(id)
          /\ capture = {s \in Captured(id) \cap Folder : file[s] # Absent}
          /\ Begin(Plan("restore", target, forced, forced), capture, TRUE)
    BY <1>2, RestoreParts
  <2>2. Restorable(id) /\ forgone' = forgone /\ "restore" \in Kinds
    BY <1>2, RestoreParts DEF Kinds
  <2>3. UNCHANGED <<snaps, last, exposed>>
    BY <2>1 DEF Begin, disk
  <2>4. \A s \in Surface : target[s] = last[s] => Preserved(s)
    BY <2>1 DEF Preserved
  <2>5. ASSUME NEW s \in forced, s \notin capture
        PROVE  Preserved(s)'
    <3>1. file[s] = Absent \/ file[s] = record[s]
      BY <2>1, <2>2, <2>5 DEF Restorable, Surface
    <3>2. Preserved(s)
      BY <3>1, OtherContent
    <3> QED
      BY <2>2, <2>3, <3>2, CopiesStay
  <2>6. forgone \subseteq forgone' /\ TRUE \in BOOLEAN
        /\ \A s \in forced : (s \in capture /\ TRUE) \/ Preserved(s)'
    BY <2>2, <2>5
  <2>7. /\ target \in [Surface -> Known(edits) \cup {NoEntry}]
        /\ Begin(Plan("restore", target, forced, forced), capture, TRUE)
    BY <2>1
  <2> QED
    BY <2>2, <2>4, <2>6, <2>7, BeginSaved
<1>3. ASSUME NEW entries \in SUBSET Folder, ImportLocal(entries)
      PROVE  Saved'
  <2>1. PICK target \in [Surface -> Known(edits) \cup {NoEntry}] :
          /\ target = [s \in Surface |-> IF s \in entries THEN Projected ELSE NoEntry]
          /\ entries \in SUBSET Surface /\ {s \in entries : file[s] # Absent} \in SUBSET Surface
          /\ Begin(Plan("import", target, entries, entries),
                   {s \in entries : file[s] # Absent}, TRUE)
          /\ forgone' = forgone
    BY <1>3, ImportParts
  <2>2. PICK capture \in SUBSET Surface :
          /\ capture = {s \in entries : file[s] # Absent}
          /\ Begin(Plan("import", target, entries, entries), capture, TRUE)
    BY <2>1
  <2>3. UNCHANGED <<snaps, last, exposed>> /\ "import" \in Kinds
    BY <2>1 DEF Begin, disk, Kinds
  <2>4. \A s \in Surface : target[s] # last[s]
    BY <2>1, LatestIs
  <2>5. ASSUME NEW s \in entries, s \notin capture
        PROVE  Preserved(s)'
    <3>1. Preserved(s)
      BY <2>1, <2>2, <2>5, OtherContent
    <3> QED
      BY <2>1, <2>3, <3>1, CopiesStay
  <2> QED
    BY <2>1, <2>2, <2>3, <2>4, <2>5, BeginSaved
<1> QED
  BY <1>1, <1>2, <1>3

\* The steps up to the run.
LEMMA StartingSaved ==
  ASSUME TypeOK, Phase, Saved,
         \/ WriteTakeoverSnapshot \/ RecordLocalRevision \/ RecordHarnessTakeovers
         \/ StartRun \/ Undo
  PROVE  Saved'
<1>0. /\ CommandType
      /\ {"revision", "rows", "start", "engine", "undo", "undo snapshot"} \subseteq Stages
  BY DEF TypeOK, Stages, Starting
<1>1. CASE WriteTakeoverSnapshot
  <2>1. /\ cmd.pc = "capture" /\ cmd.run = runs /\ runs \in Run /\ open = Closed
        /\ snaps[runs] = NoSnapshot /\ edits' = edits
        /\ UNCHANGED <<file, record, runs, open, started, last, forgone, exposed>>
    BY <1>1 DEF WriteTakeoverSnapshot, tables, Phase, CommandStage, Unwritten, Starting
  <2>2. CASE Failing /\ UNCHANGED snaps
    BY <2>1, <2>2, FailingParts, EndSaved
  <2>3. ASSUME Goto("revision"),
               snaps' = [snaps EXCEPT ![cmd.run] =
                           [s \in Surface |-> IF s \in cmd.capture THEN file[s] ELSE NoEntry]]
        PROVE  Saved'
    <3>1. /\ cmd'.pc = "revision" /\ cmd'.run = runs /\ cmd'.plan = cmd.plan
          /\ Working = runs /\ Working' = runs
      BY <1>0, <2>1, <2>3, GotoParts DEF Working
    <3>2. snaps \in [Run -> [Surface -> Known(edits) \cup {NoEntry}]]
      BY DEF TypeOK, DiskType
    <3>3. /\ \A id \in Run : id # runs => snaps'[id] = snaps[id]
          /\ \A s \in Surface : snaps'[runs][s] = IF s \in cmd.capture THEN file[s] ELSE NoEntry
      BY <2>1, <2>3, <3>2
    <3>4. ASSUME NEW s \in Surface, Elsewhere(s)
          PROVE  Elsewhere(s)'
      BY <2>1, <3>1, <3>3, <3>4 DEF Elsewhere
    <3>5. ASSUME NEW s \in Surface, Preserved(s)
          PROVE  Preserved(s)'
      <4>1. snaps[runs][s] # last[s]
        BY <2>1, LatestIs DEF NoSnapshot
      <4> QED
        BY <2>1, <3>3, <3>5, <4>1 DEF Preserved
    <3>6. FileKept' /\ RecordKept'
      BY <2>1, <3>4, <3>5 DEF Saved, FileKept, RecordKept, Kept
    <3>7. ASSUME NEW s \in Surface, s \in cmd.plan.forced
          PROVE  Preserved(s)'
      <4>1. CASE Preserved(s)
        BY <3>5, <4>1
      <4>2. CASE ~Preserved(s)
        <5>1. s \in cmd.capture
          BY <2>1, <3>7, <4>2 DEF Saved, StartCovered, Starting
        <5>2. file[s] = last[s]
          BY <4>2 DEF Saved, FileKept, Kept
        <5> QED
          BY <2>1, <3>3, <5>1, <5>2 DEF Preserved
      <4> QED
        BY <4>1, <4>2
    <3>8. StartCovered'
      <4>1. ASSUME NEW s \in Surface
            PROVE  cmd'.plan.target[s] = last'[s] => Elsewhere(s)'
        BY <2>1, <3>1, <3>4, <4>1 DEF Saved, StartCovered, Starting
      <4> QED
        BY <3>1, <3>7, <4>1 DEF StartCovered
    <3>9. OpenCovered'
      BY <2>1 DEF OpenCovered
    <3>10. CopiesMatch'
      BY <2>1, <3>1, <3>3 DEF CopiesMatch, Droppable, Starting
    <3> QED
      BY <3>6, <3>8, <3>9, <3>10 DEF Saved
  <2> QED
    BY <1>1, <2>2, <2>3 DEF WriteTakeoverSnapshot
<1>2. ASSUME cmd.pc \in {"revision", "rows"}, NEW to \in {"rows", "start", "undo"}, Goto(to),
             edits' = edits,
             UNCHANGED <<file, record, snaps, last, forgone, exposed, runs, open, started>>
      PROVE  Saved'
  <2>1. cmd'.pc = to /\ cmd'.run = cmd.run /\ cmd'.plan = cmd.plan
    BY <1>0, <1>2, GotoParts
  <2> QED
    BY <1>2, <2>1, StartSaved DEF Starting
<1>3. CASE RecordLocalRevision
  BY <1>2, <1>3 DEF RecordLocalRevision, disk, tables, history
<1>4. CASE RecordHarnessTakeovers
  BY <1>2, <1>4 DEF RecordHarnessTakeovers, disk, history
<1>5. CASE StartRun
  <2>1. /\ cmd.pc = "start" /\ cmd.run = runs /\ runs \in Run /\ edits' = edits
        /\ UNCHANGED <<file, record, snaps, last, forgone, exposed, runs>>
        /\ cmd.plan.file = file /\ cmd.plan.record = record
    BY <1>5 DEF StartRun, disk, history, Phase, CommandStage, Starting
  <2>2. CASE Goto("undo") /\ UNCHANGED <<open, started>>
    <3>1. cmd'.pc = "undo" /\ cmd'.run = cmd.run /\ cmd'.plan = cmd.plan
      BY <1>0, <2>1, <2>2, GotoParts
    <3> QED
      BY <2>1, <2>2, <3>1, StartSaved DEF Starting
  <2>3. ASSUME Goto("engine"), open' = cmd.plan, started' = {}
        PROVE  Saved'
    <3>1. /\ cmd'.pc = "engine" /\ cmd'.run = cmd.run
      BY <1>0, <2>1, <2>3, GotoParts
    <3>2. Working' = Working
      BY <2>1, <3>1, WorkingGoes
    <3>3. FileKept' /\ RecordKept'
      BY <2>1, <3>2, FilesStay DEF Saved
    <3>4. ASSUME NEW s \in Surface
          PROVE  /\ cmd.plan.target[s] = last[s] => Elsewhere(s)'
                 /\ record[s] = last[s] => Elsewhere(s)'
                 /\ Kept(s, file[s])'
                 /\ s \in cmd.plan.forced => Preserved(s)'
                 /\ snaps[runs][s] \in {NoEntry, file[s]}
      <4>1. /\ cmd.plan.target[s] = last[s] => Elsewhere(s)
            /\ record[s] = last[s] => Elsewhere(s)
            /\ s \in cmd.plan.forced => Preserved(s)
            /\ snaps[runs][s] \in {NoEntry, file[s]}
        BY <2>1, <3>4 DEF Saved, RecordKept, StartCovered, CopiesMatch, Starting, Droppable
      <4>2. Kept(s, file[s])'
        BY <3>3 DEF FileKept
      <4> QED
        BY <2>1, <3>2, <4>1, <4>2, CopiesStay
    <3>5. OpenCovered'
      <4>1. ASSUME NEW s \in Surface
            PROVE  (/\ open.target[s] = last[s] => Elsewhere(s)
                    /\ open.record[s] = last[s] => Elsewhere(s)
                    /\ Kept(s, open.file[s])
                    /\ s \in open.forced \cap Planned(open) /\ ~open.cleaned => Preserved(s)
                    /\ s \in started => Preserved(s)
                    /\ snaps[runs][s] \in {NoEntry, open.file[s]})'
        BY <2>1, <2>3, <3>4 DEF Kept
      <4> QED
        BY <4>1 DEF OpenCovered
    <3>6. StartCovered' /\ CopiesMatch'
      BY <3>1 DEF StartCovered, CopiesMatch, Droppable, Starting
    <3> QED
      BY <3>3, <3>5, <3>6 DEF Saved
  <2> QED
    BY <1>5, <2>2, <2>3 DEF StartRun
<1>6. CASE Undo
  <2>1. /\ cmd.pc = "undo" /\ edits' = edits
        /\ UNCHANGED <<file, record, snaps, last, forgone, exposed, runs, open, started>>
    BY <1>6 DEF Undo, disk
  <2>2. CASE Goto("undo snapshot")
    <3>1. cmd'.pc = "undo snapshot" /\ cmd'.run = cmd.run /\ cmd'.plan = cmd.plan
      BY <1>0, <2>1, <2>2, GotoParts
    <3> QED
      BY <2>1, <3>1, StartSaved DEF Starting
  <2>3. CASE Failing
    BY <2>1, <2>3, FailingParts, EndSaved
  <2> QED
    BY <1>6, <2>2, <2>3 DEF Undo
<1> QED
  BY <1>1, <1>3, <1>4, <1>5, <1>6

\* What the engine leaves open is still covered.
LEMMA EngineOpen ==
  ASSUME OpenCovered, open # Closed, UNCHANGED <<snaps, last, forgone, exposed, runs>>,
         Working' = Working,
         open'.target = open.target, open'.record = open.record, open'.file = open.file,
         open'.forced = open.forced, open'.cleaned = open.cleaned,
         \A s \in started' : s \in started \/ Preserved(s)
  PROVE  OpenCovered'
<1>1. ASSUME NEW s \in Surface
      PROVE  (/\ open.target[s] = last[s] => Elsewhere(s)
              /\ open.record[s] = last[s] => Elsewhere(s)
              /\ Kept(s, open.file[s])
              /\ s \in open.forced \cap Planned(open) /\ ~open.cleaned => Preserved(s)
              /\ s \in started => Preserved(s)
              /\ snaps[runs][s] \in {NoEntry, open.file[s]})'
  BY <1>1, CopiesStay DEF OpenCovered, Kept, Planned
<1> QED
  BY <1>1 DEF OpenCovered

\* The engine's steps.
LEMMA EngineSaved ==
  ASSUME TypeOK, TypeOK', Phase, Saved, EngineStep
  PROVE  Saved'
<1>0. /\ cmd.pc = "engine" /\ open # Closed /\ cmd.run = runs /\ runs \in Run
      /\ CommandType /\ open \in Plans(edits) /\ ~open.cleaned /\ Working = runs
      /\ open.wrote \subseteq started /\ started \in SUBSET Surface
      /\ \A s \in Surface \ open.wrote : file[s] = open.file[s]
  BY WorkingStays
     DEF EngineStep, BeginAction, Write, Commit, StopEarly, InEngine, Fail, GiveUp, Converge,
         Phase, CommandStage, OpenStage, TypeOK, TableType
<1>1. \A s \in Surface :
        /\ open.target[s] = last[s] => Elsewhere(s)
        /\ open.record[s] = last[s] => Elsewhere(s)
        /\ Kept(s, open.file[s])
        /\ s \in open.forced \cap Planned(open) => Preserved(s)
        /\ s \in started => Preserved(s)
        /\ snaps[runs][s] \in {NoEntry, open.file[s]}
  BY <1>0 DEF Saved, OpenCovered
<1>2. ASSUME cmd'.pc = "engine"
      PROVE  StartCovered' /\ CopiesMatch'
  BY <1>2 DEF StartCovered, CopiesMatch, Droppable, Starting
<1>3. ASSUME NEW s \in Surface, BeginAction(s)
      PROVE  Saved'
  <2>1. /\ cmd'.pc = "engine" /\ cmd'.run = cmd.run /\ started' = started \cup {s}
        /\ UNCHANGED <<file, record, snaps, open, last, forgone, exposed, runs>>
    BY <1>0, <1>3, GotoParts DEF BeginAction, Stages, disk, history
  <2>2. Preserved(s)
    <3>1. CASE s \in open.forced
      BY <1>1, <1>3, <3>1 DEF BeginAction, InEngine, Planned
    <3>2. CASE open.file[s] = open.record[s]
      BY <1>1, <3>2, ElsewherePreserved DEF Kept
    <3>3. CASE open.file[s] = Absent
      BY <1>1, <3>3, LatestIs DEF Kept
    <3> QED
      BY <1>3, <3>1, <3>2, <3>3 DEF BeginAction, Drifted
  <2>3. Working' = Working
    BY <1>0, <2>1, WorkingGoes
  <2>4. OpenCovered'
    BY <1>0, <2>1, <2>2, <2>3, EngineOpen DEF Saved
  <2>5. FileKept' /\ RecordKept'
    BY <2>1, <2>3, FilesStay DEF Saved
  <2> QED
    BY <1>2, <2>1, <2>4, <2>5 DEF Saved
<1>4. ASSUME NEW s \in Surface, Write(s)
      PROVE  Saved'
  <2>1. open.wrote \cup {s} \in SUBSET Surface
    BY <1>0
  <2>2. open' = [open EXCEPT !.wrote = open.wrote \cup {s}]
    BY <1>4 DEF Write
  <2>3. /\ open'.target = open.target /\ open'.record = open.record /\ open'.file = open.file
        /\ open'.forced = open.forced /\ open'.cleaned = open.cleaned
    BY <1>0, <2>1, <2>2, WroteParts
  <2>4. /\ file' = [file EXCEPT ![s] = open.target[s]] /\ s \in started
        /\ UNCHANGED <<record, snaps, started, cmd, runs, last, forgone, exposed>>
    BY <1>4 DEF Write, history
  <2>5. Working' = Working
    BY <1>0, <2>4 DEF Working
  <2>6. OpenCovered'
    BY <1>0, <2>3, <2>4, <2>5, EngineOpen DEF Saved
  <2>7. FileKept'
    <3>1. ASSUME NEW t \in Surface
          PROVE  Kept(t, file[t])'
      <4>1. CASE t = s
        BY <1>1, <2>4, <4>1, CopiesStay DEF Kept
      <4>2. CASE t # s
        <5>1. file'[t] = file[t]
          BY <2>4, <4>2 DEF TypeOK, DiskType
        <5> QED
          BY <2>4, <5>1, CopiesStay DEF Saved, FileKept, Kept
      <4> QED
        BY <4>1, <4>2
    <3> QED
      BY <3>1 DEF FileKept
  <2>8. RecordKept'
    BY <2>4, <2>5, CopiesStay DEF Saved, RecordKept
  <2> QED
    BY <1>0, <1>2, <2>4, <2>6, <2>7, <2>8 DEF Saved
<1>5. ASSUME NEW s \in Surface, Commit(s)
      PROVE  Saved'
  <2>1. open.done \cup {s} \in SUBSET Surface
    BY <1>0, PlanParts
  <2>2. open' = [open EXCEPT !.done = open.done \cup {s}]
    BY <1>5 DEF Commit
  <2>3. /\ open'.target = open.target /\ open'.record = open.record /\ open'.file = open.file
        /\ open'.forced = open.forced /\ open'.cleaned = open.cleaned
    BY <1>0, <2>1, <2>2, DoneParts
  <2>4. UNCHANGED <<file, snaps, started, cmd, runs, last, forgone, exposed>>
    BY <1>5 DEF Commit, disk
  <2>5. Working' = Working
    BY <1>0, <2>4 DEF Working
  <2>6. OpenCovered'
    BY <1>0, <2>3, <2>4, <2>5, EngineOpen DEF Saved
  <2>7. FileKept'
    BY <2>4, CopiesStay DEF Saved, FileKept, Kept
  <2>8. RecordKept'
    <3>1. ASSUME NEW t \in Surface
          PROVE  record'[t] \in {record[t], open.target[t], None}
      BY <1>5 DEF Commit, TypeOK, TableType
    <3>2. ASSUME NEW t \in Surface, record'[t] = last[t]
          PROVE  Elsewhere(t)
      BY <1>1, <3>1, <3>2, LatestIs DEF Saved, RecordKept
    <3> QED
      BY <2>4, <2>5, <3>2, CopiesStay DEF RecordKept
  <2> QED
    BY <1>0, <1>2, <2>4, <2>6, <2>7, <2>8 DEF Saved
<1>6. ASSUME open' = Closed, UNCHANGED <<snaps, last, forgone, exposed, runs, started>>,
             \/ cmd' = Idle
             \/ /\ cmd'.pc \in {"forget", "release", "release restored", "release restored part",
                                "prune"}
                /\ cmd'.run = cmd.run
                /\ cmd'.pc = "release restored part" => \A s \in cmd'.drop : file'[s] = open.file[s]
                /\ cmd'.pc = "forget" => \A s \in Surface : file'[s] = open.file[s],
             \A s \in Surface : Kept(s, file'[s]),
             \A s \in Surface : record'[s] = last[s] => Elsewhere(s),
             \A s \in Surface \ started : file'[s] = open.file[s]
      PROVE  Saved'
  <2>1. Working' \in {Working, 0}
    BY <1>0, <1>6, WorkingGoes, WorkingEnds
  <2>2. FileKept' /\ RecordKept'
    BY <1>6, <2>1, CopiesStay DEF FileKept, RecordKept, Kept
  <2>3. OpenCovered' /\ StartCovered'
    BY <1>6, IdleFields DEF OpenCovered, StartCovered, Starting
  <2>4. CopiesMatch'
    <3>1. CASE cmd' = Idle
      BY <3>1, IdleFields DEF CopiesMatch, Droppable, Starting
    <3>2. CASE cmd'.pc \in {"forget", "release", "release restored", "release restored part",
                            "prune"}
      <4>1. ASSUME NEW s \in Surface, s \in Droppable'
            PROVE  file'[s] = open.file[s]
        BY <1>6, <3>2, <4>1, IdleFields DEF Droppable, Starting
      <4>2. Droppable' \in SUBSET Surface
        BY <1>6, <3>2, CommandParts DEF Droppable, Starting, TypeOK, CommandType
      <4> QED
        BY <1>1, <1>6, <3>2, <4>1, <4>2 DEF CopiesMatch
    <3> QED
      BY <1>6, <3>1, <3>2
  <2> QED
    BY <2>2, <2>3, <2>4 DEF Saved
<1>7. ASSUME NEW to \in {"release", "release restored", "prune"}, Close(to), edits' = edits,
             UNCHANGED <<file, snaps, last, forgone, exposed, runs, started>>,
             \A s \in Surface : record'[s] = last[s] => Elsewhere(s)
      PROVE  Saved'
  <2>1. to \in Stages /\ open' = Closed
    BY <1>7 DEF Stages, Finishing, Closing, Close
  <2>2. cmd' = Idle \/ (cmd'.pc = to /\ cmd'.run = cmd.run)
    BY <1>0, <1>7, <2>1, GotoParts, FailingParts DEF Close
  <2>3. \A s \in Surface : Kept(s, file'[s])
    BY <1>7 DEF Saved, FileKept
  <2>4. \A s \in Surface \ started : file'[s] = open.file[s]
    BY <1>0, <1>7
  <2> QED
    BY <1>6, <1>7, <2>1, <2>2, <2>3, <2>4
<1>8. ASSUME NEW s \in Surface, StopEarly(s)
      PROVE  Saved'
  BY <1>7, <1>8 DEF StopEarly, disk, Saved, RecordKept
<1>9. CASE Converge
  <2>1. /\ Close(IF open.kind = "restore" THEN "release restored" ELSE "prune")
        /\ edits' = edits
        /\ UNCHANGED <<file, snaps, last, forgone, exposed, runs, started>>
        /\ record' = [s \in Surface |-> IF s \in open.ends THEN None
                                        ELSE IF s \in open.done THEN open.target[s] ELSE record[s]]
    BY <1>9 DEF Converge, disk
  <2>2. ASSUME NEW s \in Surface, record'[s] = last[s]
        PROVE  Elsewhere(s)
    BY <1>1, <2>1, <2>2, LatestIs DEF Saved, RecordKept
  <2> QED
    BY <1>7, <2>1, <2>2
<1>10. CASE GiveUp
  BY <1>0, <1>10, EndSaved DEF GiveUp, disk
<1>11. ASSUME NEW kept \in SUBSET open.wrote, Fail(kept)
       PROVE  Saved'
  <2>1. /\ file' = [s \in Surface |-> IF s \in Restored(kept) THEN open.file[s] ELSE file[s]]
        /\ record' = [s \in Surface |-> IF s \in Restored(kept) THEN open.record[s]
                                        ELSE record[s]]
        /\ open' = Closed /\ edits' = edits
        /\ UNCHANGED <<snaps, last, forgone, exposed, runs, started>>
    BY <1>11 DEF Fail
  <2>2. \A s \in Surface : Kept(s, file'[s])
    BY <1>1, <2>1 DEF Saved, FileKept
  <2>3. \A s \in Surface : record'[s] = last[s] => Elsewhere(s)
    BY <1>1, <2>1 DEF Saved, RecordKept
  <2>4. \A s \in Surface \ kept : file'[s] = open.file[s]
    BY <1>0, <2>1 DEF Restored
  <2>5. \/ cmd' = Idle
        \/ /\ kept = {} /\ cmd'.pc = "forget" /\ cmd'.run = cmd.run
        \/ /\ cmd'.pc = "release restored part" /\ cmd'.run = cmd.run
           /\ cmd'.drop = {s \in Surface : row[s].run = cmd.run} \ kept
    <3>1. /\ {"forget", "release restored part"} \subseteq Stages
          /\ {s \in Surface : row[s].run = cmd.run} \ kept \in SUBSET Surface
      BY DEF Stages, Finishing
    <3>2. CASE Failing
      BY <2>1, <3>2, FailingParts
    <3>3. CASE kept = {} /\ cmd' = [cmd EXCEPT !.pc = "forget"]
      BY <1>0, <2>1, <3>1, <3>3, GotoParts DEF Goto
    <3>4. CASE cmd' = [cmd EXCEPT !.pc = "release restored part",
                                  !.drop = {s \in Surface : row[s].run = cmd.run} \ kept]
      BY <1>0, <2>1, <3>1, <3>4, DropParts
    <3> QED
      BY <1>11, <3>2, <3>3, <3>4 DEF Fail
  <2>6. \A s \in Surface \ started : file'[s] = open.file[s]
    BY <1>0, <1>11, <2>4
  <2>7. cmd'.pc = "release restored part" => \A s \in cmd'.drop : file'[s] = open.file[s]
    BY <2>4, <2>5, IdleFields
  <2>8. cmd'.pc = "forget" => \A s \in Surface : file'[s] = open.file[s]
    BY <2>4, <2>5, IdleFields
  <2> QED
    BY <1>6, <2>1, <2>2, <2>3, <2>5, <2>6, <2>7, <2>8
<1> QED
  BY <1>3, <1>4, <1>5, <1>8, <1>9, <1>10, <1>11 DEF EngineStep

\* A snapshot loses entries that the surfaces hold.
LEMMA SnapshotSaved ==
  ASSUME TypeOK, Phase, Saved, cmd.pc # "idle", NEW S \in SUBSET Droppable,
         UNCHANGED <<file, record, last, forgone, exposed, runs, open, started>>,
         \A id \in Run : id # runs => snaps'[id] = snaps[id],
         \A s \in Surface : snaps'[runs][s] = IF s \in S THEN NoEntry ELSE snaps[runs][s],
         open # Closed => cmd.pc = "drop" /\ S = cmd.drop,
         \/ cmd' = Idle
         \/ cmd'.pc \in {"close", "prune"} /\ cmd'.run = cmd.run
  PROVE  Saved'
<1>0. Working = runs /\ Working' \in {Working, 0} /\ 0 \notin Run
  BY WorkingStays, WorkingGoes, WorkingEnds DEF Run
<1>1. ASSUME NEW s \in Surface, Elsewhere(s)
      PROVE  Elsewhere(s)'
  BY <1>0, <1>1 DEF Elsewhere
<1>2. ASSUME NEW s \in Surface, Preserved(s)
      PROVE  Preserved(s)' \/ (s \in S /\ snaps[runs][s] = last[s])
  BY <1>2 DEF Preserved
<1>3. \A s \in S : s \in Surface => snaps[runs][s] \in {NoEntry, file[s]}
  BY DEF Saved, CopiesMatch
<1>4. FileKept'
  <2>1. ASSUME NEW s \in Surface
        PROVE  Kept(s, file[s])'
    <3>1. CASE Preserved(s)
      BY <1>2, <1>3, <3>1, LatestIs DEF Kept
    <3>2. CASE file[s] = last[s]
      BY <3>2 DEF Kept
    <3> QED
      BY <3>1, <3>2 DEF Saved, FileKept, Kept
  <2> QED
    BY <2>1 DEF FileKept
<1>5. RecordKept'
  BY <1>1 DEF Saved, RecordKept
<1>6. OpenCovered'
  <2>1. ASSUME open # Closed, NEW s \in Surface
        PROVE  (/\ open.target[s] = last[s] => Elsewhere(s)
                /\ open.record[s] = last[s] => Elsewhere(s)
                /\ Kept(s, open.file[s])
                /\ s \in open.forced \cap Planned(open) /\ ~open.cleaned => Preserved(s)
                /\ s \in started => Preserved(s)
                /\ snaps[runs][s] \in {NoEntry, open.file[s]})'
    <3>1. /\ open.target[s] = last[s] => Elsewhere(s)
          /\ open.record[s] = last[s] => Elsewhere(s)
          /\ Kept(s, open.file[s])
          /\ s \in started => Preserved(s)
          /\ snaps[runs][s] \in {NoEntry, open.file[s]}
      BY <2>1 DEF Saved, OpenCovered
    <3>2. open.cleaned /\ S \cap started = {}
      BY <2>1 DEF Phase, OpenStage, Closing, Saved, CopiesMatch
    <3>3. (open.target[s] = last[s] => Elsewhere(s))'
          /\ (open.record[s] = last[s] => Elsewhere(s))'
      BY <1>1, <3>1
    <3>4. Kept(s, open.file[s])'
      BY <1>2, <3>1, LatestIs DEF Kept
    <3>5. (s \in started => Preserved(s))'
      BY <1>2, <3>1, <3>2
    <3>6. (snaps[runs][s] \in {NoEntry, open.file[s]})'
      BY <3>1
    <3> QED
      BY <3>2, <3>3, <3>4, <3>5, <3>6
  <2> QED
    BY <2>1 DEF OpenCovered
<1>7. StartCovered' /\ CopiesMatch'
  BY IdleFields DEF StartCovered, CopiesMatch, Droppable, Starting
<1> QED
  BY <1>4, <1>5, <1>6, <1>7 DEF Saved

\* The steps once the run has ended, and of an abandonment.
LEMMA FinishSaved ==
  ASSUME TypeOK, Phase, Saved,
         \/ Forget \/ DeleteSnapshot \/ ReleaseRestored \/ ReleaseUnapplied
         \/ DropSnapshotEntries \/ ReleaseRestoredRows \/ EditLocalList \/ PruneSnapshots
  PROVE  Saved'
<1>0. /\ CommandType /\ snaps \in [Run -> [Surface -> Known(edits) \cup {NoEntry}]]
      /\ cmd.pc # "idle" => cmd.run = runs /\ runs \in Run
      /\ open # Closed => cmd.pc \in {"idle", "engine"} \cup Closing
      /\ {"delete", "drop", "exclude", "prune", "close"} \subseteq Stages
  BY DEF TypeOK, DiskType, Phase, CommandStage, OpenStage, Stages, Finishing, Closing
<1>1. ASSUME cmd.pc # "idle", edits' = edits, Failing,
             UNCHANGED <<file, record, snaps, last, forgone, exposed, runs, open, started>>
      PROVE  Saved'
  BY <1>1, FailingParts, EndSaved
<1>2. ASSUME NEW to \in {"delete", "drop", "exclude", "prune"}, Goto(to), edits' = edits,
             UNCHANGED <<file, record, snaps, last, forgone, exposed, runs, open, started>>,
             cmd.pc # "idle", to = "delete" => cmd.pc = "forget",
             to = "drop" => cmd.pc = "release restored part"
      PROVE  Saved'
  <2>1. cmd'.pc = to /\ cmd'.run = cmd.run /\ cmd'.drop = cmd.drop
    BY <1>0, <1>2, GotoParts
  <2>2. CopiesMatch'
    <3>1. /\ Droppable' \subseteq Droppable
          /\ \A s \in Droppable : snaps[runs][s] \in {NoEntry, file[s]}
      BY <1>2, <2>1 DEF Saved, CopiesMatch, Droppable, Starting
    <3>2. to = "drop" => open = Closed
      BY <1>0, <1>2 DEF Closing
    <3> QED
      BY <1>2, <2>1, <3>1, <3>2 DEF CopiesMatch
  <2> QED
    BY <1>2, <2>1, <2>2, GoSaved DEF Starting
<1>3. CASE Forget
  BY <1>1, <1>2, <1>3 DEF Forget, disk
<1>4. CASE ReleaseRestored
  BY <1>1, <1>2, <1>4 DEF ReleaseRestored, disk
<1>5. CASE ReleaseRestoredRows
  BY <1>1, <1>2, <1>5 DEF ReleaseRestoredRows, disk
<1>6. CASE EditLocalList
  BY <1>1, <1>2, <1>6 DEF EditLocalList, tables
<1>7. CASE DeleteSnapshot
  <2>1. /\ cmd.pc \in {"delete", "undo snapshot"} /\ edits' = edits /\ cmd.pc # "idle"
        /\ UNCHANGED <<file, record, last, forgone, exposed, runs, open, started>>
    BY <1>7 DEF DeleteSnapshot, tables
  <2>2. CASE Failing /\ UNCHANGED snaps
    BY <1>1, <2>1, <2>2
  <2>3. ASSUME snaps' = [snaps EXCEPT ![cmd.run] = NoSnapshot], cmd' = Idle
        PROVE  Saved'
    <3>1. /\ \A id \in Run : id # runs => snaps'[id] = snaps[id]
          /\ \A s \in Surface : snaps'[runs][s] = NoEntry
      BY <1>0, <2>1, <2>3 DEF NoSnapshot
    <3>2. Droppable = Surface /\ open = Closed
      BY <1>0, <2>1 DEF Droppable, Starting, Closing
    <3> QED
      BY <2>1, <2>3, <3>1, <3>2, SnapshotSaved
  <2> QED
    BY <1>7, <2>2, <2>3 DEF DeleteSnapshot
<1>8. CASE PruneSnapshots
  <2>1. /\ cmd.pc = "prune" /\ cmd' = Idle /\ open = Closed
        /\ UNCHANGED <<file, record, last, exposed, runs, open, started>>
        /\ snaps' = [id \in Run |-> IF id \in Pruned THEN NoSnapshot ELSE snaps[id]]
        /\ forgone' = forgone \cup {<<s, snaps[id][s]>> : s \in Surface, id \in Pruned}
    BY <1>0, <1>8 DEF PruneSnapshots, tables, Closing
  <2>2. Working' = 0 /\ 0 \notin Run
    BY <2>1, IdleFields, ClosedFields DEF Working, Run
  <2>3. ASSUME NEW s \in Surface, Preserved(s)
        PROVE  Elsewhere(s)' /\ Preserved(s)'
    <3>1. CASE <<s, last[s]>> \in forgone \cup exposed
      BY <2>1, <3>1 DEF Elsewhere, Preserved
    <3>2. ASSUME NEW id \in Run, snaps[id][s] = last[s]
          PROVE  Elsewhere(s)' /\ Preserved(s)'
      <4>1. CASE id \in Pruned
        BY <2>1, <3>2, <4>1 DEF Elsewhere, Preserved
      <4>2. CASE id \notin Pruned
        BY <2>1, <2>2, <3>2, <4>2 DEF Elsewhere, Preserved
      <4> QED
        BY <4>1, <4>2
    <3> QED
      BY <2>3, <3>1, <3>2 DEF Preserved
  <2>4. FileKept' /\ RecordKept'
    BY <2>1, <2>3, ElsewherePreserved DEF Saved, FileKept, RecordKept, Kept
  <2>5. StartCovered' /\ OpenCovered' /\ CopiesMatch'
    BY <2>1, IdleFields DEF StartCovered, OpenCovered, CopiesMatch, Droppable, Starting
  <2> QED
    BY <2>4, <2>5 DEF Saved
<1>9. CASE ReleaseUnapplied
  <2>1. /\ cmd.pc = "release" /\ edits' = edits /\ cmd.pc # "idle"
        /\ UNCHANGED <<file, record, snaps, last, forgone, exposed, runs, open, started>>
    BY <1>9 DEF ReleaseUnapplied, disk
  <2>2. CASE Failing
    BY <1>1, <2>1, <2>2
  <2>3. CASE cmd' = [cmd EXCEPT !.pc = "drop", !.drop = NeverStarted]
    <3>1. NeverStarted \in SUBSET (Surface \ started)
      BY DEF NeverStarted, Unapplied
    <3>2. cmd'.pc = "drop" /\ cmd'.run = cmd.run /\ cmd'.drop = NeverStarted
      BY <1>0, <2>1, <2>3, <3>1, DropParts
    <3>3. CopiesMatch'
      <4>1. Droppable' \subseteq Droppable
        BY <2>1, <3>1, <3>2 DEF Droppable, Starting
      <4> QED
        BY <2>1, <3>1, <3>2, <4>1 DEF Saved, CopiesMatch
    <3> QED
      BY <2>1, <3>2, <3>3, GoSaved DEF Starting
  <2> QED
    BY <1>9, <2>2, <2>3 DEF ReleaseUnapplied
<1>10. CASE DropSnapshotEntries
  <2>1. /\ cmd.pc = "drop" /\ edits' = edits /\ cmd.pc # "idle"
        /\ UNCHANGED <<file, record, last, forgone, exposed, runs, open, started>>
    BY <1>10 DEF DropSnapshotEntries, tables
  <2>2. CASE Failing /\ UNCHANGED snaps
    BY <1>1, <2>1, <2>2
  <2>3. ASSUME snaps' = [snaps EXCEPT ![cmd.run] =
                           [s \in Surface |-> IF s \in cmd.drop THEN NoEntry
                                              ELSE snaps[cmd.run][s]]],
               cmd' = Idle \/ (AfterDrop # "idle" /\ Goto(AfterDrop))
        PROVE  Saved'
    <3>1. /\ \A id \in Run : id # runs => snaps'[id] = snaps[id]
          /\ \A s \in Surface : snaps'[runs][s] = IF s \in cmd.drop THEN NoEntry
                                                  ELSE snaps[runs][s]
      BY <1>0, <2>1, <2>3
    <3>2. Droppable = cmd.drop
      BY <2>1 DEF Droppable, Starting
    <3>3. cmd' = Idle \/ (cmd'.pc \in {"close", "prune"} /\ cmd'.run = cmd.run)
      <4>1. PICK to : to = AfterDrop
        OBVIOUS
      <4>2. AfterDrop # "idle" => to \in {"close", "prune"}
        BY <4>1 DEF AfterDrop
      <4>3. CASE AfterDrop # "idle" /\ Goto(to)
        BY <1>0, <2>1, <4>2, <4>3, GotoParts
      <4> QED
        BY <2>3, <4>1, <4>3
    <3> QED
      BY <2>1, <3>1, <3>2, <3>3, SnapshotSaved
  <2> QED
    BY <1>10, <2>2, <2>3 DEF DropSnapshotEntries
<1> QED
  BY <1>3, <1>4, <1>5, <1>6, <1>7, <1>8, <1>9, <1>10

\* The commands for an open run, the user, and the end of a process.
LEMMA OtherSaved ==
  ASSUME TypeOK, TypeOK', Phase, Saved,
         \/ RecoverLocal \/ AbandonLocal \/ CloseAbandoned \/ Stop
         \/ \E s \in Surface : UserEdit(s) \/ Include(s)
  PROVE  Saved'
<1>1. ASSUME cmd.pc = "idle", open # Closed, NEW to \in {"engine", "release"},
             NEW b \in BOOLEAN, b <=> to = "release",
             cmd' = [Idle EXCEPT !.pc = to, !.run = open.run, !.plan = open],
             open' = [open EXCEPT !.cleaned = b],
             UNCHANGED <<file, record, snaps, started, runs, edits, last, forgone>>,
             exposed \subseteq exposed',
             ~b => \A s \in open.forced \cap Planned(open) : Preserved(s)'
      PROVE  Saved'
  <2>1. to \in Stages /\ open \in Plans(edits)
    BY DEF Stages, Closing, TypeOK, TableType
  <2>2. cmd'.pc = to /\ cmd'.run = open.run
    BY <1>1, <2>1, TakenUp
  <2>3. /\ open'.target = open.target /\ open'.record = open.record
        /\ open'.forced = open.forced /\ open'.file = open.file /\ open'.cleaned = b
    BY <1>1, <2>1, CleanedParts
  <2>4. Working' = Working
    BY <1>1, <2>2 DEF Working
  <2>5. FileKept' /\ RecordKept'
    BY <1>1, <2>4, FilesStay DEF Saved
  <2>6. OpenCovered'
    <3>1. ASSUME NEW s \in Surface
          PROVE  (/\ open.target[s] = last[s] => Elsewhere(s)
                  /\ open.record[s] = last[s] => Elsewhere(s)
                  /\ Kept(s, open.file[s])
                  /\ s \in open.forced \cap Planned(open) /\ ~open.cleaned => Preserved(s)
                  /\ s \in started => Preserved(s)
                  /\ snaps[runs][s] \in {NoEntry, open.file[s]})'
      <4>1. /\ open.target[s] = last[s] => Elsewhere(s)
            /\ open.record[s] = last[s] => Elsewhere(s)
            /\ Kept(s, open.file[s])
            /\ s \in started => Preserved(s)
            /\ snaps[runs][s] \in {NoEntry, open.file[s]}
        BY <1>1, <3>1 DEF Saved, OpenCovered
      <4>2. (s \in open.forced \cap Planned(open) /\ ~open.cleaned => Preserved(s))'
        BY <1>1, <2>3 DEF Planned
      <4> QED
        BY <1>1, <2>3, <2>4, <4>1, <4>2, CopiesStay DEF Kept
    <3> QED
      BY <3>1 DEF OpenCovered
  <2>7. StartCovered'
    BY <2>2 DEF StartCovered, Starting
  <2>8. CopiesMatch'
    <3>1. CASE to = "engine"
      BY <2>2, <3>1 DEF CopiesMatch, Droppable, Starting
    <3>2. CASE to = "release"
      <4>1. Droppable' = Surface \ started
        BY <1>1, <2>2, <3>2 DEF Droppable, Starting
      <4>2. \A s \in Surface \ started : snaps[runs][s] \in {NoEntry, file[s]}
        BY <1>1 DEF Saved, OpenCovered, Phase, OpenStage
      <4> QED
        BY <1>1, <2>2, <3>2, <4>1, <4>2 DEF CopiesMatch
    <3> QED
      BY <3>1, <3>2
  <2> QED
    BY <2>5, <2>6, <2>7, <2>8 DEF Saved
<1>2. CASE RecoverLocal
  <2>1. /\ cmd.pc = "idle" /\ open # Closed /\ (open.cleaned => started = {})
        /\ UNCHANGED <<file, record, snaps, started, runs, edits, last, forgone>>
        /\ exposed' = IF open.cleaned THEN exposed \cup Uncaptured ELSE exposed
        /\ exposed \subseteq exposed'
    BY <1>2 DEF RecoverLocal, disk
  <2>2. ASSUME NEW s \in open.forced \cap Planned(open)
        PROVE  Preserved(s)'
    <3>1. s \in Surface
      BY <2>2 DEF Planned
    <3>2. CASE ~open.cleaned
      <4>1. Preserved(s)
        BY <2>1, <2>2, <3>1, <3>2 DEF Saved, OpenCovered
      <4> QED
        BY <2>1, <3>1, <4>1, CopiesStay
    <3>3. CASE open.cleaned
      <4>1. /\ file[s] = open.file[s] /\ open.run = runs /\ runs \in Run
            /\ snaps[runs][s] \in {NoEntry, open.file[s]}
        BY <2>1, <3>1, <3>3 DEF Saved, OpenCovered, Phase, OpenStage, PlanShape
      <4>2. CASE file[s] # last[s]
        BY <2>1, <3>1, <4>2, CopiesStay DEF Saved, FileKept, Kept
      <4>3. CASE file[s] = last[s] /\ s \in Captured(open.run)
        BY <2>1, <4>1, <4>3 DEF Preserved, Captured
      <4>4. CASE file[s] = last[s] /\ s \notin Captured(open.run)
        <5>1. <<s, file[s]>> \in Uncaptured
          BY <2>2, <4>4 DEF Uncaptured
        <5> QED
          BY <2>1, <3>3, <4>4, <5>1 DEF Preserved
      <4> QED
        BY <4>2, <4>3, <4>4
    <3> QED
      BY <3>2, <3>3
  <2>3. /\ cmd' = [Idle EXCEPT !.pc = "engine", !.run = open.run, !.plan = open]
        /\ open' = [open EXCEPT !.cleaned = FALSE]
    BY <1>2 DEF RecoverLocal
  <2> QED
    BY <1>1, <2>1, <2>2, <2>3
<1>3. CASE AbandonLocal
  BY <1>1, <1>3 DEF AbandonLocal, disk, history
<1>4. CASE CloseAbandoned
  BY <1>4, EndSaved DEF CloseAbandoned, disk, history
<1>5. CASE Stop
  <2>1. cmd' = Idle /\ cmd.pc # "idle"
        /\ UNCHANGED <<file, record, snaps, last, forgone, exposed, runs, open, started>>
    BY <1>5 DEF Stop, Failing, disk, tables
  <2> QED
    BY <2>1, EndSaved
<1>6. ASSUME NEW s \in Surface, UserEdit(s)
      PROVE  Saved'
  <2>1. /\ cmd.pc = "idle" /\ open = Closed /\ edits < MaxEdits /\ edits' = edits + 1
        /\ UNCHANGED <<record, snaps, open, cmd, runs, forgone, exposed>>
        /\ file' = [file EXCEPT ![s] = Original + edits + 1]
        /\ last' = [last EXCEPT ![s] = Original + edits + 1]
    BY <1>6 DEF UserEdit, tables
  <2>2. Working' = Working
    BY <2>1 DEF Working
  <2>3. /\ file'[s] = last'[s] /\ record[s] # last'[s]
        /\ \A t \in Surface : t # s => file'[t] = file[t] /\ last'[t] = last[t]
    <3>1. /\ file'[s] = Original + edits + 1 /\ last'[s] = Original + edits + 1
          /\ \A t \in Surface : t # s => file'[t] = file[t] /\ last'[t] = last[t]
      BY <2>1 DEF TypeOK, DiskType, HistoryType
    <3>2. Original + edits + 1 \notin Known(edits) \cup {None}
      BY <2>1, ConstantsAssumption DEF Known, None, Original, TypeOK, CountType
    <3>3. record[s] \in Known(edits) \cup {None}
      BY DEF TypeOK, TableType
    <3> QED
      BY <3>1, <3>2, <3>3
  <2>4. ASSUME NEW t \in Surface, t # s
        PROVE  /\ Preserved(t) => Preserved(t)'
               /\ Elsewhere(t) => Elsewhere(t)'
    BY <2>1, <2>2, <2>3, <2>4 DEF Preserved, Elsewhere
  <2>5. FileKept'
    <3>1. ASSUME NEW t \in Surface
          PROVE  Kept(t, file[t])'
      <4>1. CASE t = s
        BY <2>3, <4>1 DEF Kept
      <4>2. CASE t # s
        BY <2>3, <2>4, <4>2 DEF Saved, FileKept, Kept
      <4> QED
        BY <4>1, <4>2
    <3> QED
      BY <3>1 DEF FileKept
  <2>6. RecordKept'
    BY <2>1, <2>3, <2>4 DEF Saved, RecordKept
  <2>7. StartCovered' /\ OpenCovered' /\ CopiesMatch'
    BY <2>1 DEF StartCovered, OpenCovered, CopiesMatch, Droppable, Starting
  <2> QED
    BY <2>5, <2>6, <2>7 DEF Saved
<1>7. ASSUME NEW s \in Surface, Include(s)
      PROVE  Saved'
  <2>1. /\ cmd.pc = "idle"
        /\ UNCHANGED <<file, record, snaps, last, forgone, exposed, runs, open, started, cmd>>
    BY <1>7 DEF Include, tables, history
  <2>2. Working' = Working
    BY <2>1 DEF Working
  <2>3. FileKept' /\ RecordKept'
    BY <2>1, <2>2, FilesStay DEF Saved
  <2>4. OpenCovered'
    BY <2>1, <2>2, OpenCoveredStays DEF Saved
  <2>5. StartCovered' /\ CopiesMatch'
    BY <2>1 DEF StartCovered, CopiesMatch, Droppable, Starting
  <2> QED
    BY <2>3, <2>4, <2>5 DEF Saved
<1> QED
  BY <1>2, <1>3, <1>4, <1>5, <1>6, <1>7

\* Every step keeps the user's versions.
LEMMA SavedNext ==
  ASSUME TypeOK, TypeOK', Phase, Saved, [Next]_vars
  PROVE  Saved'
<1>1. CASE UNCHANGED vars
  <2>1. UNCHANGED <<cmd, open, runs, file, record, started, snaps, last, forgone, exposed>>
    BY <1>1 DEF vars, disk, tables, history
  <2>2. Working' = Working
    BY <2>1 DEF Working
  <2>3. FileKept' /\ RecordKept'
    BY <2>1, <2>2, FilesStay DEF Saved
  <2>4. OpenCovered'
    BY <2>1, <2>2, OpenCoveredStays DEF Saved
  <2>5. StartCovered'
    <3>1. ASSUME cmd.pc \in Starting, NEW s \in Surface
          PROVE  (/\ cmd.plan.target[s] = last[s] => Elsewhere(s)
                  /\ cmd.pc \in {"revision", "rows", "start"} /\ s \in cmd.plan.forced
                       => Preserved(s)
                  /\ cmd.pc = "capture" /\ s \in cmd.plan.forced
                       => Preserved(s) \/ s \in cmd.capture)'
      BY <2>1, <2>2, <3>1, CopiesStay DEF Saved, StartCovered
    <3> QED
      BY <2>1, <3>1 DEF StartCovered
  <2>6. CopiesMatch'
    BY <2>1 DEF Saved, CopiesMatch, Droppable
  <2> QED
    BY <2>3, <2>4, <2>5, <2>6 DEF Saved
<1>2. CASE Next
  BY <1>2, CommandsSaved, StartingSaved, EngineSaved, FinishSaved, OtherSaved DEF Next
<1> QED
  BY <1>1, <1>2

-----------------------------------------------------------------------------
(* The rows and the snapshots they name.                                   *)

\* The rows of a run are named by it, and no run is 0.
LEMMA RowIs ==
  ASSUME TypeOK, NEW s \in Surface
  PROVE  row[s].run \in 0..MaxRuns /\ row[s].snapshot \in 0..MaxRuns
  BY DEF TypeOK, TableType

\* The rows stay, or are released, and no entry of a snapshot is dropped.
LEMMA RowsStay ==
  ASSUME TypeOK, RowsKept, \A s \in Surface : row'[s] \in {row[s], NoRow},
         \A s \in Surface, id \in Run : snaps[id][s] # NoEntry => snaps'[id][s] # NoEntry,
         runs' \in {runs, runs + 1}, forgone \subseteq forgone'
  PROVE  RowsShape' /\ RowsResolve'
<1>1. ASSUME NEW s \in Surface
      PROVE  /\ row'[s].run <= runs'
             /\ row'[s].snapshot \in {0, row'[s].run}
             /\ s \in Folder => row'[s] = NoRow
  <2>1. /\ row[s].run <= runs /\ row[s].snapshot \in {0, row[s].run}
        /\ s \in Folder => row[s] = NoRow
    BY DEF RowsKept, RowsShape
  <2>2. row[s].run \in Nat /\ runs \in Nat
    BY RowIs DEF TypeOK, CountType
  <2> QED
    BY <2>1, <2>2 DEF NoRow
<1>2. ASSUME NEW s \in Surface, row'[s].snapshot # 0
      PROVE  \/ s \in Captured(row[s].snapshot)'
             \/ \E c \in Content : <<s, c>> \in forgone'
  <2>1. row'[s] = row[s] /\ row[s].snapshot \in Run
    BY <1>2, RowIs DEF NoRow, Run
  <2> QED
    BY <1>2, <2>1 DEF RowsKept, RowsResolve, Captured
<1> QED
  BY <1>1, <1>2 DEF RowsShape, RowsResolve, Captured

\* Nothing is known of the rows at most of the stages.
LEMMA NoneReleased ==
  ASSUME cmd'.pc \notin {"revision", "rows", "undo snapshot", "delete", "drop"}
  PROVE  RowsReleased'
  BY DEF RowsReleased

\* A step that leaves the rows and the snapshots alone.
LEMMA RowsAlone ==
  ASSUME TypeOK, RowsKept, UNCHANGED <<row, snaps>>, runs' \in {runs, runs + 1},
         forgone \subseteq forgone',
         cmd'.pc \notin {"revision", "rows", "undo snapshot", "delete", "drop"}
  PROVE  RowsKept'
  BY RowsStay, NoneReleased DEF RowsKept

\* The rows of a set of surfaces are released.
LEMMA RowsGo ==
  ASSUME TypeOK, RowsKept, NEW S, row' = Without(S), snaps' = snaps, runs' = runs,
         forgone' = forgone
  PROVE  /\ RowsShape' /\ RowsResolve'
         /\ \A s \in Surface : row'[s] = IF s \in S THEN NoRow ELSE row[s]
<1>1. \A s \in Surface : row'[s] = IF s \in S THEN NoRow ELSE row[s]
  BY DEF Without
<1> QED
  BY <1>1, RowsStay

\* A command begins.
LEMMA BeginRows ==
  ASSUME TypeOK, Phase, RowsKept, NEW kind \in Kinds,
         NEW target \in [Surface -> Known(edits) \cup {NoEntry}],
         NEW forced \in SUBSET Surface, NEW ends \in SUBSET Surface,
         NEW capture \in SUBSET Surface, NEW backed \in BOOLEAN,
         Begin(Plan(kind, target, forced, ends), capture, backed),
         forgone \subseteq forgone'
  PROVE  RowsKept'
<1>0. PICK p : Begun(p, kind, target, forced, ends, capture, backed)
  BY BeginFacts
<1>1. /\ runs' = runs + 1
      /\ (capture # {} /\ backed => cmd'.pc = "capture")
      /\ (capture = {} \/ ~backed => cmd'.pc = "revision")
      /\ (cmd'.backed <=> capture # {} /\ backed)
  BY <1>0 DEF Begun
<1>2. UNCHANGED <<row, snaps>>
  BY DEF Begin, disk, tables
<1>3. RowsReleased'
  BY <1>1 DEF RowsReleased
<1> QED
  BY <1>1, <1>2, <1>3, RowsStay DEF RowsKept

\* Each of the three commands begins with the rows as they were.
LEMMA CommandsRows ==
  ASSUME TypeOK, Phase, RowsKept,
         \/ \E listed \in SUBSET Harness, backup \in BOOLEAN : SynchronizeLocal(listed, backup)
         \/ \E id \in Run : RestoreLocal(id)
         \/ \E entries \in SUBSET Folder : ImportLocal(entries)
  PROVE  RowsKept'
<1>1. ASSUME NEW listed \in SUBSET Harness, NEW backup \in BOOLEAN,
             SynchronizeLocal(listed, backup)
      PROVE  RowsKept'
  <2>1. PICK wanted \in SUBSET Harness, target \in [Surface -> Known(edits) \cup {NoEntry}],
             pending \in SUBSET Harness, retired \in SUBSET Harness :
          /\ Begin(Plan("sync", target, pending, retired), pending, backup)
          /\ forgone' = forgone \cup {<<s, file[s]>> : s \in IF backup THEN {} ELSE pending}
    BY <1>1, SynchronizeParts
  <2>2. Harness \subseteq Surface /\ "sync" \in Kinds
    BY DEF Surface, Kinds
  <2> QED
    BY <2>1, <2>2, BeginRows
<1>2. ASSUME NEW id \in Run, RestoreLocal(id)
      PROVE  RowsKept'
  <2>1. "restore" \in Kinds
    BY DEF Kinds
  <2> QED
    BY <1>2, <2>1, RestoreParts, BeginRows
<1>3. ASSUME NEW entries \in SUBSET Folder, ImportLocal(entries)
      PROVE  RowsKept'
  <2>1. PICK target \in [Surface -> Known(edits) \cup {NoEntry}] :
          /\ entries \in SUBSET Surface /\ {s \in entries : file[s] # Absent} \in SUBSET Surface
          /\ Begin(Plan("import", target, entries, entries),
                   {s \in entries : file[s] # Absent}, TRUE)
          /\ forgone' = forgone
    BY <1>3, ImportParts
  <2>2. "import" \in Kinds
    BY DEF Kinds
  <2> QED
    BY <2>1, <2>2, BeginRows
<1> QED
  BY <1>1, <1>2, <1>3

\* The steps up to the run.
LEMMA StartingRows ==
  ASSUME TypeOK, Phase, RowsKept, Applied,
         \/ WriteTakeoverSnapshot \/ RecordLocalRevision \/ RecordHarnessTakeovers
         \/ StartRun \/ Undo
  PROVE  RowsKept'
<1>0. /\ CommandType
      /\ {"revision", "rows", "start", "engine", "undo", "undo snapshot"} \subseteq Stages
      /\ cmd.pc # "idle" => cmd.run = runs /\ runs \in Run
  BY DEF TypeOK, Stages, Starting, Phase, CommandStage
<1>1. runs \in Nat /\ 0 \notin Run
  BY DEF TypeOK, CountType, Run
<1>2. CASE WriteTakeoverSnapshot
  <2>1. /\ cmd.pc = "capture" /\ cmd.pc # "idle" /\ edits' = edits /\ snaps[runs] = NoSnapshot
        /\ UNCHANGED <<row, runs, forgone>>
    BY <1>2 DEF WriteTakeoverSnapshot, tables, Phase, Unwritten
  <2>2. CASE Failing /\ UNCHANGED snaps
    BY <2>1, <2>2, FailingParts, IdleFields, RowsAlone
  <2>3. ASSUME Goto("revision"),
               snaps' = [snaps EXCEPT ![cmd.run] =
                           [s \in Surface |-> IF s \in cmd.capture THEN file[s] ELSE NoEntry]]
        PROVE  RowsKept'
    <3>1. /\ cmd'.pc = "revision" /\ cmd'.run = cmd.run /\ cmd'.capture = cmd.capture
      BY <1>0, <2>1, <2>3, GotoParts
    <3>2. snaps \in [Run -> [Surface -> Known(edits) \cup {NoEntry}]]
      BY DEF TypeOK, DiskType
    <3>3. /\ \A id \in Run : id # runs => snaps'[id] = snaps[id]
          /\ \A s \in Surface : snaps'[runs][s] = IF s \in cmd.capture THEN file[s] ELSE NoEntry
      BY <1>0, <2>1, <2>3, <3>2
    <3>4. \A s \in Surface, id \in Run : snaps[id][s] # NoEntry => snaps'[id][s] # NoEntry
      BY <2>1, <3>3 DEF NoSnapshot
    <3>5. RowsShape' /\ RowsResolve'
      BY <2>1, <3>4, RowsStay
    <3>6. cmd.capture \in SUBSET Surface
      BY CommandParts DEF TypeOK, CommandType
    <3>7. \A s \in cmd.capture : snaps'[cmd.run][s] # NoEntry
      BY <1>0, <2>1, <3>3, <3>6, LatestIs, Contents DEF TypeOK, CountType
    <3>8. RowsReleased'
      BY <3>1, <3>6, <3>7 DEF RowsReleased, Captured
    <3> QED
      BY <3>5, <3>8 DEF RowsKept
  <2> QED
    BY <1>2, <2>2, <2>3 DEF WriteTakeoverSnapshot
<1>3. CASE RecordLocalRevision
  <2>1. /\ cmd.pc = "revision" /\ edits' = edits /\ UNCHANGED <<row, snaps, runs, forgone>>
        /\ Goto("rows") \/ Goto("undo")
    BY <1>3 DEF RecordLocalRevision, disk, tables, history
  <2>2. /\ cmd'.pc \in {"rows", "undo"} /\ cmd'.run = cmd.run /\ cmd'.capture = cmd.capture
        /\ cmd'.backed = cmd.backed
    BY <1>0, <2>1, GotoParts
  <2>3. RowsReleased'
    BY <2>1, <2>2 DEF RowsKept, RowsReleased, Captured
  <2> QED
    BY <2>1, <2>3, RowsStay DEF RowsKept
<1>4. CASE RecordHarnessTakeovers
  <2>1. cmd.pc = "rows" /\ cmd.pc # "idle" /\ edits' = edits /\ UNCHANGED <<snaps, runs, forgone>>
    BY <1>4 DEF RecordHarnessTakeovers, disk, history
  <2>2. CASE Goto("undo") /\ UNCHANGED row
    <3>1. cmd'.pc = "undo"
      BY <1>0, <2>1, <2>2, GotoParts
    <3> QED
      BY <2>1, <2>2, <3>1, RowsAlone
  <2>3. CASE Goto("start") /\ cmd.plan.kind # "sync" /\ row' = row
    <3>1. cmd'.pc = "start"
      BY <1>0, <2>1, <2>3, GotoParts
    <3> QED
      BY <2>1, <2>3, <3>1, RowsAlone
  <2>4. ASSUME Goto("start"), cmd.plan.kind = "sync",
               row' = [s \in Surface |->
                         IF s \in cmd.capture
                         THEN [run |-> cmd.run, snapshot |-> IF cmd.backed THEN cmd.run ELSE 0]
                         ELSE row[s]]
        PROVE  RowsKept'
    <3>1. cmd'.pc = "start"
      BY <1>0, <2>1, <2>4, GotoParts
    <3>2. /\ cmd.capture \subseteq Harness
          /\ cmd.backed => cmd.capture \subseteq Captured(cmd.run)
      BY <2>1, <2>4 DEF Applied, RunRows, Starting, RowsKept, RowsReleased
    <3>3. ASSUME NEW s \in Surface, s \in cmd.capture
          PROVE  /\ row'[s].run <= runs'
                 /\ row'[s].snapshot \in {0, row'[s].run}
                 /\ s \in Folder => row'[s] = NoRow
                 /\ row'[s].snapshot # 0 => s \in Captured(row'[s].snapshot)
      <4>1. row'[s].run = runs /\ row'[s].snapshot = IF cmd.backed THEN runs ELSE 0
        BY <1>0, <2>1, <2>4, <3>3
      <4>2. s \notin Folder
        BY <3>2, <3>3, ConstantsAssumption
      <4>3. row'[s].run <= runs' /\ row'[s].snapshot \in {0, row'[s].run}
        BY <1>1, <2>1, <4>1
      <4>4. row'[s].snapshot # 0 => s \in Captured(row'[s].snapshot)
        BY <1>0, <2>1, <3>2, <3>3, <4>1
      <4> QED
        BY <4>2, <4>3, <4>4
    <3>4. ASSUME NEW s \in Surface, s \notin cmd.capture
          PROVE  /\ row'[s].run <= runs'
                 /\ row'[s].snapshot \in {0, row'[s].run}
                 /\ s \in Folder => row'[s] = NoRow
                 /\ row'[s].snapshot # 0 => \/ s \in Captured(row'[s].snapshot)
                                            \/ \E c \in Content : <<s, c>> \in forgone
      <4>1. row'[s] = row[s]
        BY <2>4, <3>4
      <4> QED
        BY <2>1, <4>1 DEF RowsKept, RowsShape, RowsResolve
    <3>5. RowsShape'
      BY <3>3, <3>4 DEF RowsShape
    <3>6. RowsResolve'
      BY <2>1, <3>3, <3>4 DEF RowsResolve, Captured
    <3> QED
      BY <3>1, <3>5, <3>6, NoneReleased DEF RowsKept
  <2> QED
    BY <1>4, <2>2, <2>3, <2>4 DEF RecordHarnessTakeovers
<1>5. CASE StartRun
  <2>1. /\ cmd.pc = "start" /\ cmd.pc # "idle" /\ edits' = edits
        /\ UNCHANGED <<row, snaps, runs, forgone>>
        /\ Goto("engine") \/ Goto("undo")
    BY <1>5 DEF StartRun, disk, history
  <2>2. cmd'.pc \in {"engine", "undo"}
    BY <1>0, <2>1, GotoParts
  <2> QED
    BY <2>1, <2>2, RowsAlone
<1>6. CASE Undo
  <2>1. cmd.pc = "undo" /\ cmd.pc # "idle" /\ edits' = edits /\ UNCHANGED <<snaps, runs, forgone>>
    BY <1>6 DEF Undo, disk
  <2>2. CASE Failing /\ UNCHANGED row
    BY <2>1, <2>2, FailingParts, IdleFields, RowsAlone
  <2>3. ASSUME Goto("undo snapshot"),
               row' = [s \in Surface |-> IF row[s].run = cmd.run THEN NoRow ELSE row[s]]
        PROVE  RowsKept'
    <3>1. cmd'.pc = "undo snapshot" /\ cmd'.run = cmd.run
      BY <1>0, <2>1, <2>3, GotoParts
    <3>2. RowsShape' /\ RowsResolve'
      BY <2>1, <2>3, RowsStay
    <3>3. \A s \in Surface : row'[s].run # cmd.run
      BY <1>0, <1>1, <2>1, <2>3 DEF NoRow
    <3> QED
      BY <3>1, <3>2, <3>3 DEF RowsKept, RowsReleased
  <2> QED
    BY <1>6, <2>2, <2>3 DEF Undo
<1> QED
  BY <1>2, <1>3, <1>4, <1>5, <1>6

\* The engine leaves the rows and the snapshots alone.
LEMMA EngineRows ==
  ASSUME TypeOK, TypeOK', Phase, Phase', RowsKept, EngineStep
  PROVE  RowsKept'
<1>1. /\ UNCHANGED <<row, snaps, runs, forgone>> /\ edits' = edits /\ CommandType
      /\ cmd.pc = "engine"
  BY DEF EngineStep, BeginAction, Write, Commit, StopEarly, Fail, GiveUp, Converge, disk, history,
         TypeOK, InEngine
<1>2. {"engine", "release", "release restored", "prune", "forget", "release restored part"}
        \subseteq Stages
  BY DEF Stages, Finishing, Closing
<1>3. ASSUME NEW to \in {"release", "release restored", "prune"}, Close(to)
      PROVE  cmd'.pc \in {"idle", to}
  BY <1>1, <1>2, <1>3, GotoParts, FailingParts, IdleFields DEF Close
<1>4. ASSUME NEW kept, Fail(kept)
      PROVE  cmd'.pc \in {"idle", "forget", "release restored part"}
  <2>1. {s \in Surface : row[s].run = cmd.run} \ kept \in SUBSET Surface
    OBVIOUS
  <2>2. CASE Failing
    BY <1>1, <2>2, FailingParts, IdleFields
  <2>3. CASE cmd' = [cmd EXCEPT !.pc = "forget"]
    BY <1>1, <1>2, <2>3, GotoParts DEF Goto
  <2>4. CASE cmd' = [cmd EXCEPT !.pc = "release restored part",
                                !.drop = {s \in Surface : row[s].run = cmd.run} \ kept]
    BY <1>1, <1>2, <2>1, <2>4, DropParts
  <2> QED
    BY <1>4, <2>2, <2>3, <2>4 DEF Fail
<1>5. cmd'.pc \notin {"revision", "rows", "undo snapshot", "delete", "drop"}
  <2>1. ASSUME NEW s \in Surface, BeginAction(s) \/ Write(s) \/ Commit(s)
        PROVE  cmd'.pc = "engine"
    BY <1>1, <1>2, <2>1, GotoParts DEF BeginAction, Write, Commit
  <2>2. ASSUME Converge
        PROVE  cmd'.pc \in {"idle", "release restored", "prune"}
    BY <1>3, <2>2 DEF Converge
  <2>3. ASSUME GiveUp
        PROVE  cmd'.pc = "idle"
    BY <2>3, IdleFields DEF GiveUp
  <2>4. ASSUME NEW s \in Surface, StopEarly(s)
        PROVE  cmd'.pc \in {"idle", "release"}
    BY <1>3, <2>4 DEF StopEarly
  <2> QED
    BY <1>4, <2>1, <2>2, <2>3, <2>4 DEF EngineStep
<1> QED
  BY <1>1, <1>5, RowsAlone

\* The steps once the run has ended, and of an abandonment.
LEMMA FinishRows ==
  ASSUME TypeOK, Phase, RowsKept,
         \/ Forget \/ DeleteSnapshot \/ ReleaseRestored \/ ReleaseUnapplied
         \/ DropSnapshotEntries \/ ReleaseRestoredRows \/ EditLocalList \/ PruneSnapshots
  PROVE  RowsKept'
<1>0. /\ CommandType /\ snaps \in [Run -> [Surface -> Known(edits) \cup {NoEntry}]]
      /\ cmd.pc # "idle" => cmd.run = runs /\ runs \in Run
      /\ 0 \notin Run
      /\ {"delete", "drop", "exclude", "prune", "close"} \subseteq Stages
  BY DEF TypeOK, DiskType, Phase, CommandStage, Stages, Finishing, Closing, Run
<1>1. ASSUME edits' = edits, Failing, UNCHANGED <<row, snaps, runs, forgone>>
      PROVE  RowsKept'
  BY <1>1, FailingParts, IdleFields, RowsAlone
<1>2. ASSUME NEW to \in {"delete", "drop", "exclude"}, cmd'.pc = to, cmd'.run = cmd.run,
             NEW S, row' = Without(S), UNCHANGED <<snaps, runs, forgone>>, cmd.pc # "idle",
             to = "delete" => S = {s \in Surface : row[s].run = cmd.run},
             to = "drop" => cmd'.drop \subseteq S /\ S \subseteq Surface
      PROVE  RowsKept'
  <2>1. /\ RowsShape' /\ RowsResolve'
        /\ \A s \in Surface : row'[s] = IF s \in S THEN NoRow ELSE row[s]
    BY <1>2, RowsGo
  <2>2. \A s \in S \cap Surface : row'[s].run # cmd'.run
    BY <1>0, <1>2, <2>1 DEF NoRow
  <2>3. CASE to = "delete"
    <3>1. \A s \in Surface : row'[s].run # cmd'.run
      BY <1>2, <2>1, <2>2, <2>3
    <3> QED
      BY <1>2, <2>1, <2>3, <3>1 DEF RowsKept, RowsReleased
  <2>4. CASE to = "drop"
    <3>1. \A s \in cmd'.drop : row'[s].run # cmd'.run
      BY <1>2, <2>2, <2>4
    <3> QED
      BY <1>2, <2>1, <2>4, <3>1 DEF RowsKept, RowsReleased
  <2>5. CASE to = "exclude"
    BY <1>2, <2>1, <2>5, NoneReleased DEF RowsKept
  <2> QED
    BY <1>2, <2>3, <2>4, <2>5
<1>3. CASE Forget
  <2>1. /\ cmd.pc = "forget" /\ edits' = edits /\ UNCHANGED <<snaps, runs, forgone>>
    BY <1>3 DEF Forget, disk
  <2>2. ASSUME Goto("delete"), row' = Without({s \in Surface : row[s].run = cmd.run})
        PROVE  RowsKept'
    <3>1. cmd'.pc = "delete" /\ cmd'.run = cmd.run
      BY <1>0, <2>1, <2>2, GotoParts
    <3> QED
      BY <1>2, <2>1, <2>2, <3>1
  <2> QED
    BY <1>1, <1>3, <2>1, <2>2 DEF Forget
<1>4. CASE ReleaseRestored
  <2>1. /\ cmd.pc = "release restored part" /\ edits' = edits /\ UNCHANGED <<snaps, runs, forgone>>
    BY <1>4 DEF ReleaseRestored, disk
  <2>2. ASSUME Goto("drop"), row' = Without(cmd.drop)
        PROVE  RowsKept'
    <3>1. cmd'.pc = "drop" /\ cmd'.run = cmd.run /\ cmd'.drop = cmd.drop
      BY <1>0, <2>1, <2>2, GotoParts
    <3>2. cmd.drop \subseteq Surface
      BY CommandParts DEF TypeOK, CommandType
    <3> QED
      BY <1>2, <2>1, <2>2, <3>1, <3>2
  <2> QED
    BY <1>1, <1>4, <2>1, <2>2 DEF ReleaseRestored
<1>5. CASE ReleaseRestoredRows
  <2>1. /\ cmd.pc = "release restored" /\ edits' = edits /\ UNCHANGED <<snaps, runs, forgone>>
    BY <1>5 DEF ReleaseRestoredRows, disk
  <2>2. ASSUME Goto("exclude"), row' = Without(Planned(cmd.plan) \cap Harness)
        PROVE  RowsKept'
    <3>1. cmd'.pc = "exclude" /\ cmd'.run = cmd.run
      BY <1>0, <2>1, <2>2, GotoParts
    <3> QED
      BY <1>2, <2>1, <2>2, <3>1
  <2> QED
    BY <1>1, <1>5, <2>1, <2>2 DEF ReleaseRestoredRows
<1>6. CASE EditLocalList
  <2>1. /\ cmd.pc = "exclude" /\ edits' = edits /\ UNCHANGED <<row, snaps, runs, forgone>>
        /\ Goto("prune") \/ Failing
    BY <1>6 DEF EditLocalList, tables
  <2>2. cmd'.pc \in {"prune", "idle"}
    BY <1>0, <2>1, GotoParts, FailingParts, IdleFields
  <2> QED
    BY <2>1, <2>2, RowsAlone
<1>7. ASSUME cmd.pc # "idle", UNCHANGED <<row, runs, forgone>>, NEW S \in SUBSET Surface,
             \A s \in S : row[s].run # cmd.run,
             \A id \in Run : id # runs => snaps'[id] = snaps[id],
             \A s \in Surface \ S : snaps'[runs][s] = snaps[runs][s],
             cmd'.pc \in {"idle", "close", "prune"}
      PROVE  RowsKept'
  <2>1. ASSUME NEW s \in Surface, row[s].snapshot # 0
        PROVE  s \in Captured(row[s].snapshot)' \/ \E c \in Content : <<s, c>> \in forgone
    <3>1. CASE row[s].snapshot = runs
      <4>1. row[s].run = cmd.run
        BY <1>0, <1>7, <2>1, <3>1 DEF RowsKept, RowsShape
      <4> QED
        BY <1>7, <2>1, <3>1, <4>1 DEF RowsKept, RowsResolve, Captured
    <3>2. CASE row[s].snapshot # runs
      <4>1. row[s].snapshot \in Run
        BY <2>1, RowIs DEF Run
      <4> QED
        BY <1>7, <2>1, <3>2, <4>1 DEF RowsKept, RowsResolve, Captured
    <3> QED
      BY <3>1, <3>2
  <2>2. RowsResolve'
    BY <1>7, <2>1 DEF RowsResolve, Captured
  <2>3. RowsShape'
    BY <1>7 DEF RowsKept, RowsShape
  <2> QED
    BY <1>7, <2>2, <2>3, NoneReleased DEF RowsKept
<1>8. CASE DeleteSnapshot
  <2>1. /\ cmd.pc \in {"delete", "undo snapshot"} /\ edits' = edits /\ cmd.pc # "idle"
        /\ UNCHANGED <<row, runs, forgone>>
    BY <1>8 DEF DeleteSnapshot, tables
  <2>2. CASE Failing /\ UNCHANGED snaps
    BY <1>1, <2>1, <2>2
  <2>3. ASSUME snaps' = [snaps EXCEPT ![cmd.run] = NoSnapshot], cmd' = Idle
        PROVE  RowsKept'
    <3>1. \A id \in Run : id # runs => snaps'[id] = snaps[id]
      BY <1>0, <2>1, <2>3
    <3>2. \A s \in Surface : row[s].run # cmd.run
      BY <2>1 DEF RowsKept, RowsReleased
    <3> QED
      BY <1>7, <2>1, <2>3, <3>1, <3>2, IdleFields
  <2> QED
    BY <1>8, <2>2, <2>3 DEF DeleteSnapshot
<1>9. CASE DropSnapshotEntries
  <2>1. /\ cmd.pc = "drop" /\ edits' = edits /\ cmd.pc # "idle" /\ UNCHANGED <<row, runs, forgone>>
    BY <1>9 DEF DropSnapshotEntries, tables
  <2>2. CASE Failing /\ UNCHANGED snaps
    BY <1>1, <2>1, <2>2
  <2>3. ASSUME snaps' = [snaps EXCEPT ![cmd.run] =
                           [s \in Surface |-> IF s \in cmd.drop THEN NoEntry
                                              ELSE snaps[cmd.run][s]]],
               cmd' = Idle \/ (AfterDrop # "idle" /\ Goto(AfterDrop))
        PROVE  RowsKept'
    <3>1. /\ \A id \in Run : id # runs => snaps'[id] = snaps[id]
          /\ \A s \in Surface \ cmd.drop : snaps'[runs][s] = snaps[runs][s]
      BY <1>0, <2>1, <2>3
    <3>2. /\ \A s \in cmd.drop : row[s].run # cmd.run
          /\ cmd.drop \in SUBSET Surface
      BY <2>1, CommandParts DEF RowsKept, RowsReleased, TypeOK, CommandType
    <3>3. cmd'.pc \in {"idle", "close", "prune"}
      <4>1. PICK to : to = AfterDrop
        OBVIOUS
      <4>2. AfterDrop # "idle" => to \in {"close", "prune"}
        BY <4>1 DEF AfterDrop
      <4>3. CASE AfterDrop # "idle" /\ Goto(to)
        BY <1>0, <2>1, <4>2, <4>3, GotoParts
      <4> QED
        BY <2>3, <4>1, <4>3, IdleFields
    <3> QED
      BY <1>7, <2>1, <3>1, <3>2, <3>3
  <2> QED
    BY <1>9, <2>2, <2>3 DEF DropSnapshotEntries
<1>10. CASE PruneSnapshots
  <2>1. /\ cmd' = Idle /\ UNCHANGED <<row, runs>>
        /\ snaps' = [id \in Run |-> IF id \in Pruned THEN NoSnapshot ELSE snaps[id]]
        /\ forgone' = forgone \cup {<<s, snaps[id][s]>> : s \in Surface, id \in Pruned}
    BY <1>10 DEF PruneSnapshots, tables
  <2>2. ASSUME NEW s \in Surface, row[s].snapshot # 0
        PROVE  s \in Captured(row[s].snapshot)' \/ \E c \in Content : <<s, c>> \in forgone'
    <3>1. row[s].snapshot \in Run
      BY <2>2, RowIs DEF Run
    <3>2. CASE \E c \in Content : <<s, c>> \in forgone
      BY <2>1, <3>2
    <3>3. CASE s \in Captured(row[s].snapshot) /\ row[s].snapshot \in Pruned
      <4>1. snaps[row[s].snapshot][s] \in Content
        BY <1>0, <3>1, <3>3, Contents DEF Captured, TypeOK, CountType
      <4> QED
        BY <2>1, <3>3, <4>1
    <3>4. CASE s \in Captured(row[s].snapshot) /\ row[s].snapshot \notin Pruned
      BY <2>1, <3>1, <3>4 DEF Captured
    <3> QED
      BY <2>2, <3>2, <3>3, <3>4 DEF RowsKept, RowsResolve
  <2>3. RowsResolve'
    BY <2>1, <2>2 DEF RowsResolve, Captured
  <2>4. RowsShape'
    BY <2>1 DEF RowsKept, RowsShape
  <2> QED
    BY <2>1, <2>3, <2>4, IdleFields, NoneReleased DEF RowsKept
<1>11. CASE ReleaseUnapplied
  <2>1. cmd.pc = "release" /\ edits' = edits /\ UNCHANGED <<snaps, runs, forgone>>
    BY <1>11 DEF ReleaseUnapplied, disk
  <2>2. ASSUME row' = Without(Unapplied),
               cmd' = [cmd EXCEPT !.pc = "drop", !.drop = NeverStarted]
        PROVE  RowsKept'
    <3>1. NeverStarted \in SUBSET Surface /\ NeverStarted \subseteq Unapplied
          /\ Unapplied \subseteq Surface
      BY DEF NeverStarted, Unapplied
    <3>2. cmd'.pc = "drop" /\ cmd'.run = cmd.run /\ cmd'.drop = NeverStarted
      BY <1>0, <2>1, <2>2, <3>1, DropParts
    <3> QED
      BY <1>2, <2>1, <2>2, <3>1, <3>2
  <2> QED
    BY <1>1, <1>11, <2>1, <2>2 DEF ReleaseUnapplied
<1> QED
  BY <1>3, <1>4, <1>5, <1>6, <1>8, <1>9, <1>10, <1>11

\* The commands for an open run, the user, and the end of a process.
LEMMA OtherRows ==
  ASSUME TypeOK, Phase, RowsKept,
         \/ RecoverLocal \/ AbandonLocal \/ CloseAbandoned \/ Stop
         \/ \E s \in Surface : UserEdit(s) \/ Include(s)
  PROVE  RowsKept'
<1>1. UNCHANGED <<row, snaps, runs, forgone>>
  BY DEF RecoverLocal, AbandonLocal, CloseAbandoned, Stop, UserEdit, Include, disk, tables, history
<1>2. {"engine", "release"} \subseteq Stages
  BY DEF Stages, Closing
<1>3. cmd'.pc \in {"idle", "engine", "release"}
  <2>1. CASE RecoverLocal
    BY <1>2, <2>1, TakenUp DEF RecoverLocal
  <2>2. CASE AbandonLocal
    BY <1>2, <2>2, TakenUp DEF AbandonLocal
  <2>3. CASE CloseAbandoned \/ Stop
    BY <2>3, IdleFields DEF CloseAbandoned, Stop, Failing
  <2>4. CASE \E s \in Surface : UserEdit(s) \/ Include(s)
    BY <2>4 DEF UserEdit, Include
  <2> QED
    BY <2>1, <2>2, <2>3, <2>4
<1> QED
  BY <1>1, <1>3, RowsAlone

\* Every step keeps the rows resolving.
LEMMA RowsNext ==
  ASSUME TypeOK, TypeOK', Phase, Phase', RowsKept, Applied, [Next]_vars
  PROVE  RowsKept'
<1>1. CASE UNCHANGED vars
  BY <1>1 DEF vars, disk, tables, history, RowsKept, RowsShape, RowsReleased, RowsResolve, Captured
<1>2. CASE Next
  BY <1>2, CommandsRows, StartingRows, EngineRows, FinishRows, OtherRows DEF Next
<1> QED
  BY <1>1, <1>2

-----------------------------------------------------------------------------
(* Why a row is there.                                                     *)

\* A row that may stay still may, or is released.
LEMMA SettledStays ==
  ASSUME NEW s \in Surface, NEW c, Settled(s, c), row'[s] \in {row[s], NoRow},
         left \subseteq left', partial \subseteq partial', halted \subseteq halted'
  PROVE  Settled(s, c)'
  BY DEF Settled

\* After a step that failed, or was stopped, any row may stay.
LEMMA FailingSettles ==
  ASSUME Phase, RowsKept, cmd.pc # "idle", Failing, TypeOK,
         NEW s \in Surface, NEW c, row'[s] \in {row[s], NoRow}
  PROVE  Settled(s, c)'
<1>1. cmd.run \in halted' /\ cmd.run = runs
  BY DEF Failing, Phase, CommandStage
<1>2. row[s].run <= runs
  BY DEF RowsKept, RowsShape
<1>3. CASE row'[s] = row[s]
  <2>1. \E r \in halted' : r >= row'[s].run
    BY <1>1, <1>2, <1>3, RowIs DEF TypeOK, CountType
  <2> QED
    BY <2>1 DEF Settled
<1> QED
  BY <1>3 DEF Settled

\* What a run knows of the rows while rows are only released.
LEMMA RunRowsStay ==
  ASSUME TypeOK, Phase, RunRows, runs' = runs, cmd'.pc \notin Starting,
         open' = Closed
           \/ (open'.target = open.target /\ open'.record = open.record /\ open'.kind = open.kind
                /\ open'.done = open.done /\ open # Closed),
         \A s \in Surface : row'[s] \in {row[s], NoRow},
         \A s \in Surface : \A c : Settled(s, c) => Settled(s, c)',
         left \subseteq left',
         cmd'.pc = "release restored part" => runs \in partial'
  PROVE  RunRows'
<1>1. ASSUME open' # Closed
      PROVE  /\ RowPlan(open)'
             /\ \A s \in Surface : Settled(s, open.record[s])' \/ row'[s].run = runs'
             /\ \A s \in open'.done :
                  open'.target[s] # NoEntry /\ (open'.target[s] = Absent => s \in left')
  <2>0. /\ open'.target = open.target /\ open'.record = open.record /\ open'.kind = open.kind
        /\ open'.done = open.done /\ open # Closed
    BY <1>1
  <2>1. runs # 0
    <3>1. runs \in Run
      BY <2>0 DEF Phase, OpenStage, PlanShape
    <3>2. 0 \notin Run
      BY RunsArePositive
    <3> QED
      BY <3>1, <3>2
  <2>2. RowPlan(open)'
    <3>1. ASSUME NEW s \in Surface, row'[s].run = runs'
          PROVE  open'.kind = "sync" /\ open'.target[s] # NoEntry
      <4>1. row'[s] = row[s] /\ row[s].run = runs
        <5>1. NoRow.run = 0
          BY DEF NoRow
        <5> QED
          BY <2>1, <3>1, <5>1
      <4>2. open.kind = "sync" /\ s \in Planned(open)
        BY <2>0, <4>1 DEF RunRows, RowPlan
      <4> QED
        BY <2>0, <4>2 DEF Planned
    <3> QED
      BY <3>1 DEF RowPlan, Planned
  <2>3. ASSUME NEW s \in Surface
        PROVE  Settled(s, open.record[s])' \/ row'[s].run = runs'
    <3>1. PICK c : c = open.record[s]
      OBVIOUS
    <3>2. Settled(s, c) \/ row[s].run = runs
      BY <2>0, <3>1 DEF RunRows
    <3>3. CASE row'[s] = NoRow
      BY <3>3 DEF Settled
    <3>4. CASE Settled(s, c)
      <4>1. Settled(s, c)'
        BY <3>4
      <4> QED
        BY <2>0, <3>1, <4>1 DEF Settled
    <3> QED
      BY <3>2, <3>3, <3>4
  <2>4. \A s \in open'.done :
          open'.target[s] # NoEntry /\ (open'.target[s] = Absent => s \in left')
    BY <2>0 DEF RunRows
  <2> QED
    BY <2>2, <2>3, <2>4
<1> QED
  BY <1>1 DEF RunRows

\* A command that fails, or is stopped, where it stands.
LEMMA FailApplied ==
  ASSUME TypeOK, Phase, RowsKept, Applied, cmd.pc # "idle", Failing,
         UNCHANGED <<edits, runs, left>>, \A s \in Surface : row'[s] \in {row[s], NoRow},
         open' = Closed \/ open' = open
  PROVE  Applied'
<1>1. \A s \in Surface : \A c : Settled(s, c)'
  BY FailingSettles
<1>2. AllSettled'
  <2>1. ASSUME NEW s \in Surface
        PROVE  RowSettled(s)'
    <3>1. PICK c : c = record'[s]
      OBVIOUS
    <3>2. Settled(s, c)'
      BY <1>1
    <3> QED
      BY <3>1, <3>2 DEF RowSettled, Settled
  <2> QED
    BY <2>1 DEF AllSettled
<1>3. cmd'.pc = "idle"
  BY FailingParts, IdleFields
<1>4. RunRows'
  BY <1>1, <1>3, RunRowsStay DEF Applied, Starting
<1> QED
  BY <1>2, <1>4 DEF Applied

\* A command that goes on, or ends, after its run: what is no longer pending may stay.
LEMMA GoApplied ==
  ASSUME TypeOK, Phase, Applied, UNCHANGED <<runs, record>>,
         left \subseteq left', partial \subseteq partial', halted \subseteq halted',
         \A s \in Surface : row'[s] \in {row[s], NoRow},
         open' = Closed
           \/ (open'.target = open.target /\ open'.record = open.record /\ open'.kind = open.kind
                /\ open'.done = open.done /\ open # Closed),
         cmd'.pc \notin Starting,
         cmd'.pc = "release restored part" => runs \in partial',
         \A s \in Surface :
           \/ row'[s] = NoRow
           \/ Pending => Pending'
           \/ row[s].run # runs
           \/ record[s] # None
           \/ row[s].run \in partial',
         cmd.pc = "release restored" => \A s \in Planned(cmd.plan) \cap Harness : row'[s] = NoRow
  PROVE  Applied'
<1>1. \A s \in Surface : \A c : Settled(s, c) => Settled(s, c)'
  BY SettledStays
<1>2. AllSettled'
  <2>1. ASSUME NEW s \in Surface
        PROVE  RowSettled(s)'
    <3>1. RowSettled(s)
      BY DEF Applied, AllSettled
    <3>2. CASE row'[s] = NoRow
      BY <3>2 DEF RowSettled, Settled
    <3>3. CASE row'[s] = row[s] /\ Settled(s, record[s])
      BY <3>3 DEF RowSettled, Settled
    <3>4. CASE row'[s] = row[s] /\ Pending /\ row[s].run = runs
      BY <3>4 DEF RowSettled, Settled
    <3> QED
      BY <3>1, <3>2, <3>3, <3>4 DEF RowSettled
  <2> QED
    BY <2>1 DEF AllSettled
<1>3. RunRows'
  BY <1>1, RunRowsStay DEF Applied
<1> QED
  BY <1>2, <1>3 DEF Applied

\* A run begins: no row is its.
LEMMA BeginApplied ==
  ASSUME TypeOK, Phase, RowsKept, Applied, NEW kind \in Kinds,
         NEW target \in [Surface -> Known(edits) \cup {NoEntry}],
         NEW forced \in SUBSET Surface, NEW ends \in SUBSET Surface,
         NEW capture \in SUBSET Surface, NEW backed \in BOOLEAN,
         Begin(Plan(kind, target, forced, ends), capture, backed),
         \A s \in capture : target[s] # NoEntry,
         kind = "sync" => capture \subseteq Harness
  PROVE  Applied'
<1>0. PICK p : Begun(p, kind, target, forced, ends, capture, backed)
  BY BeginFacts
<1>1. /\ cmd.pc = "idle" /\ open = Closed /\ runs' = runs + 1 /\ runs \in Nat
      /\ cmd'.plan = p /\ p.target = target /\ p.kind = kind /\ cmd'.capture = capture
      /\ cmd'.pc \in {"capture", "revision"}
  BY <1>0 DEF Begun
<1>2. UNCHANGED <<record, row, left, partial, halted, open>>
  BY DEF Begin, tables
<1>3. \A s \in Surface : row[s].run # runs'
  BY <1>1, RowIs DEF RowsKept, RowsShape
<1>4. ASSUME NEW s \in Surface
      PROVE  RowSettled(s)'
  <2>1. Settled(s, record[s])
    BY <1>1 DEF Applied, AllSettled, RowSettled, Pending, Starting
  <2> QED
    BY <1>2, <2>1 DEF RowSettled, Settled
<1>5. RunRows'
  BY <1>1, <1>2, <1>3 DEF RunRows, RowPlan, Planned, Starting
<1> QED
  BY <1>4, <1>5 DEF Applied, AllSettled

\* Each of the three commands begins with the reasons for the rows as they were.
LEMMA CommandsApplied ==
  ASSUME TypeOK, Phase, RowsKept, Applied,
         \/ \E listed \in SUBSET Harness, backup \in BOOLEAN : SynchronizeLocal(listed, backup)
         \/ \E id \in Run : RestoreLocal(id)
         \/ \E entries \in SUBSET Folder : ImportLocal(entries)
  PROVE  Applied'
<1>0. Projected # NoEntry
  BY Contents DEF TypeOK, CountType
<1>1. ASSUME NEW listed \in SUBSET Harness, NEW backup \in BOOLEAN,
             SynchronizeLocal(listed, backup)
      PROVE  Applied'
  <2>1. PICK wanted \in SUBSET Harness, target \in [Surface -> Known(edits) \cup {NoEntry}],
             pending \in SUBSET Harness, retired \in SUBSET Harness :
          /\ pending \subseteq wanted
          /\ target = [s \in Surface |-> IF s \in wanted THEN Projected
                                         ELSE IF s \in retired THEN Absent ELSE NoEntry]
          /\ Begin(Plan("sync", target, pending, retired), pending, backup)
    BY <1>1, SynchronizeParts
  <2>2. Harness \subseteq Surface /\ "sync" \in Kinds
    BY DEF Surface, Kinds
  <2>3. \A s \in pending : target[s] # NoEntry
    BY <1>0, <2>1, <2>2
  <2> QED
    BY <2>1, <2>2, <2>3, BeginApplied
<1>2. ASSUME NEW id \in Run, RestoreLocal(id)
      PROVE  Applied'
  <2>1. PICK target \in [Surface -> Known(edits) \cup {NoEntry}], forced \in SUBSET Surface,
             capture \in SUBSET Surface :
          /\ target = snaps[id] /\ forced = Captured(id)
          /\ capture = {s \in Captured(id) \cap Folder : file[s] # Absent}
          /\ Begin(Plan("restore", target, forced, forced), capture, TRUE)
    BY <1>2, RestoreParts
  <2>2. \A s \in capture : target[s] # NoEntry
    BY <2>1 DEF Captured
  <2>3. /\ target \in [Surface -> Known(edits) \cup {NoEntry}] /\ "restore" \in Kinds
        /\ Begin(Plan("restore", target, forced, forced), capture, TRUE)
    BY <2>1 DEF Kinds
  <2> QED
    BY <2>2, <2>3, BeginApplied
<1>3. ASSUME NEW entries \in SUBSET Folder, ImportLocal(entries)
      PROVE  Applied'
  <2>1. PICK target \in [Surface -> Known(edits) \cup {NoEntry}] :
          /\ target = [s \in Surface |-> IF s \in entries THEN Projected ELSE NoEntry]
          /\ entries \in SUBSET Surface /\ {s \in entries : file[s] # Absent} \in SUBSET Surface
          /\ Begin(Plan("import", target, entries, entries),
                   {s \in entries : file[s] # Absent}, TRUE)
    BY <1>3, ImportParts
  <2>2. PICK capture \in SUBSET Surface :
          /\ capture = {s \in entries : file[s] # Absent}
          /\ Begin(Plan("import", target, entries, entries), capture, TRUE)
    BY <2>1
  <2>3. \A s \in capture : target[s] # NoEntry
    BY <1>0, <2>1, <2>2
  <2>4. "import" \in Kinds
    BY DEF Kinds
  <2> QED
    BY <2>1, <2>2, <2>3, <2>4, BeginApplied
<1> QED
  BY <1>1, <1>2, <1>3

\* The steps up to the run.
LEMMA StartingApplied ==
  ASSUME TypeOK, Phase, RowsKept, Applied,
         \/ WriteTakeoverSnapshot \/ RecordLocalRevision \/ RecordHarnessTakeovers
         \/ StartRun \/ Undo
  PROVE  Applied'
<1>0. /\ CommandType
      /\ {"revision", "rows", "start", "engine", "undo", "undo snapshot"} \subseteq Stages
      /\ cmd.pc # "idle" => cmd.run = runs /\ runs \in Run
      /\ cmd.pc \in Starting => open = Closed /\ cmd.plan.record = record /\ cmd.plan.done = {}
  BY DEF TypeOK, Stages, Starting, Phase, CommandStage
<1>1. ASSUME cmd.pc \in Starting \ {"undo snapshot"}, UNCHANGED <<edits, runs, record, left, open>>,
             UNCHANGED <<row, partial, halted>>,
             NEW to \in Starting \ {"undo snapshot"}, Goto(to)
      PROVE  Applied'
  <2>1. to \in Stages
    BY DEF Stages
  <2>2. cmd'.pc = to /\ cmd'.plan = cmd.plan /\ cmd'.capture = cmd.capture
    BY <1>0, <1>1, <2>1, GotoParts
  <2>3. AllSettled'
    BY <1>1, <2>2 DEF Applied, AllSettled, RowSettled, Settled, Pending, Starting
  <2>4. RunRows'
    BY <1>0, <1>1, <2>2 DEF Applied, RunRows, RowPlan, Starting
  <2> QED
    BY <2>3, <2>4 DEF Applied
<1>2. ASSUME cmd.pc \in Starting, UNCHANGED <<edits, runs, left, open, row>>, Failing
      PROVE  Applied'
  BY <1>2, FailApplied DEF Starting
<1>3. CASE WriteTakeoverSnapshot
  BY <1>1, <1>2, <1>3 DEF WriteTakeoverSnapshot, tables, Starting
<1>4. CASE RecordLocalRevision
  BY <1>1, <1>4 DEF RecordLocalRevision, tables, history, Starting
<1>5. CASE RecordHarnessTakeovers
  <2>1. /\ cmd.pc = "rows" /\ cmd.pc \in Starting \ {"undo snapshot"} /\ cmd.pc # "idle"
        /\ UNCHANGED <<edits, runs, record, left, open, partial, halted>>
    BY <1>5 DEF RecordHarnessTakeovers, history, Starting
  <2>2. CASE Goto("undo") /\ UNCHANGED row
    BY <1>1, <2>1, <2>2 DEF Starting
  <2>3. CASE Goto("start") /\ row' = row
    BY <1>1, <2>1, <2>3 DEF Starting
  <2>4. ASSUME Goto("start"), cmd.plan.kind = "sync",
               row' = [s \in Surface |->
                         IF s \in cmd.capture
                         THEN [run |-> cmd.run, snapshot |-> IF cmd.backed THEN cmd.run ELSE 0]
                         ELSE row[s]]
        PROVE  Applied'
    <3>1. cmd'.pc = "start" /\ cmd'.plan = cmd.plan /\ cmd'.capture = cmd.capture
      BY <1>0, <2>1, <2>4, GotoParts
    <3>2. /\ \A s \in Surface : s \in cmd.capture => row'[s].run = runs
          /\ \A s \in Surface : s \notin cmd.capture => row'[s] = row[s]
      BY <1>0, <2>1, <2>4
    <3>3. ASSUME NEW s \in Surface
          PROVE  RowSettled(s)'
      <4>1. Pending'
        BY <3>1 DEF Pending, Starting
      <4>2. CASE s \in cmd.capture
        BY <2>1, <3>2, <4>1, <4>2 DEF RowSettled
      <4>3. CASE s \notin cmd.capture
        <5>1. Settled(s, record[s]) \/ row[s].run = runs
          BY <2>1 DEF Applied, AllSettled, RowSettled
        <5> QED
          BY <2>1, <3>2, <4>1, <4>3, <5>1 DEF RowSettled, Settled
      <4> QED
        BY <4>2, <4>3
    <3>4. RunRows'
      <4>1. /\ cmd.capture \subseteq Planned(cmd.plan)
            /\ cmd.capture \subseteq Harness
            /\ RowPlan(cmd.plan) /\ open = Closed
        BY <1>0, <2>1, <2>4 DEF Applied, RunRows
      <4>2. RowPlan(cmd.plan)'
        BY <2>1, <2>4, <3>1, <3>2, <4>1 DEF RowPlan
      <4> QED
        BY <2>1, <3>1, <4>1, <4>2 DEF RunRows
    <3> QED
      BY <3>3, <3>4 DEF Applied, AllSettled
  <2> QED
    BY <1>5, <2>2, <2>3, <2>4 DEF RecordHarnessTakeovers
<1>6. CASE StartRun
  <2>1. /\ cmd.pc = "start" /\ cmd.pc \in Starting \ {"undo snapshot"} /\ edits' = edits
        /\ UNCHANGED <<runs, record, left, row, partial, halted>>
    BY <1>6 DEF StartRun, history, Starting
  <2>2. CASE Goto("undo") /\ UNCHANGED open
    BY <1>1, <2>1, <2>2 DEF Starting
  <2>3. ASSUME Goto("engine"), open' = cmd.plan
        PROVE  Applied'
    <3>1. cmd'.pc = "engine"
      BY <1>0, <2>1, <2>3, GotoParts
    <3>2. \A s \in Surface : Settled(s, record[s]) \/ row[s].run = runs
      BY <2>1 DEF Applied, AllSettled, RowSettled
    <3>3. AllSettled'
      BY <2>1, <3>1, <3>2 DEF AllSettled, RowSettled, Settled, Pending
    <3>4. RowPlan(open)'
      BY <2>1, <2>3 DEF Applied, RunRows, RowPlan
    <3>5. RunRows'
      BY <1>0, <2>1, <2>3, <3>1, <3>2, <3>4 DEF RunRows, Settled, Starting
    <3> QED
      BY <3>3, <3>5 DEF Applied
  <2> QED
    BY <1>6, <2>2, <2>3 DEF StartRun
<1>7. CASE Undo
  <2>1. /\ cmd.pc = "undo" /\ cmd.pc \in Starting /\ cmd.pc # "idle" /\ edits' = edits
        /\ UNCHANGED <<runs, record, left, open, partial>>
    BY <1>7 DEF Undo, Starting
  <2>2. CASE Failing /\ UNCHANGED row
    BY <1>2, <2>1, <2>2
  <2>3. ASSUME Goto("undo snapshot"), UNCHANGED halted,
               row' = [s \in Surface |-> IF row[s].run = cmd.run THEN NoRow ELSE row[s]]
        PROVE  Applied'
    <3>1. cmd'.pc = "undo snapshot" /\ cmd'.plan = cmd.plan /\ cmd'.capture = cmd.capture
      BY <1>0, <2>1, <2>3, GotoParts
    <3>2. \A s \in Surface : row'[s] = IF row[s].run = runs THEN NoRow ELSE row[s]
      BY <1>0, <2>1, <2>3
    <3>3. \A s \in Surface : Settled(s, record[s]) \/ row[s].run = runs
      BY <2>1 DEF Applied, AllSettled, RowSettled
    <3>4. AllSettled'
      <4>1. ASSUME NEW s \in Surface
            PROVE  RowSettled(s)'
        BY <2>1, <2>3, <3>2, <3>3, <4>1 DEF RowSettled, Settled
      <4> QED
        BY <4>1 DEF AllSettled
    <3>5. runs # 0
      <4>1. runs \in Run
        BY <1>0, <2>1
      <4>2. 0 \notin Run
        BY DEF Run
      <4> QED
        BY <4>1, <4>2
    <3>6. RowPlan(cmd.plan)'
      BY <2>1, <3>1, <3>2, <3>5 DEF Applied, RunRows, RowPlan, NoRow
    <3>7. RunRows'
      BY <1>0, <2>1, <3>1, <3>6 DEF Applied, RunRows
    <3> QED
      BY <3>4, <3>7 DEF Applied
  <2> QED
    BY <1>7, <2>2, <2>3 DEF Undo
<1> QED
  BY <1>3, <1>4, <1>5, <1>6, <1>7

\* The engine's steps.
LEMMA EngineApplied ==
  ASSUME TypeOK, Phase, RowsKept, Applied, EngineStep
  PROVE  Applied'
<1>0. /\ cmd.pc = "engine" /\ open # Closed /\ cmd.run = runs /\ runs \in Run
      /\ CommandType /\ open \in Plans(edits) /\ PlanShape(open) /\ Pending
      /\ cmd.plan.target = open.target
      /\ edits' = edits /\ runs' = runs /\ row' = row
  BY DEF EngineStep, BeginAction, Write, Commit, StopEarly, InEngine, Fail, GiveUp, Converge,
         Phase, CommandStage, OpenStage, TypeOK, TableType, Pending
<1>1. /\ RowPlan(open)
      /\ \A s \in Surface : Settled(s, open.record[s]) \/ row[s].run = runs
      /\ \A s \in open.done : open.target[s] # NoEntry /\ (open.target[s] = Absent => s \in left)
      /\ \A s \in Surface : Settled(s, record[s]) \/ row[s].run = runs
  BY <1>0 DEF Applied, RunRows, AllSettled, RowSettled
<1>2. /\ {"engine", "release", "release restored", "prune", "forget", "release restored part"}
           \subseteq Stages
      /\ \A s \in Surface : row'[s] \in {row[s], NoRow}
      /\ "engine" \notin Starting /\ "engine" # "idle"
  BY <1>0 DEF Stages, Finishing, Closing, Starting
<1>3. ASSUME Failing, left' = left, open' = Closed
      PROVE  Applied'
  BY <1>0, <1>2, <1>3, FailApplied
<1>4. ASSUME NEW s \in Surface, BeginAction(s)
      PROVE  Applied'
  <2>1. cmd'.pc = "engine" /\ UNCHANGED <<record, open, left, partial, halted>>
    BY <1>0, <1>2, <1>4, GotoParts DEF BeginAction, history
  <2>2. Pending'
    BY <2>1 DEF Pending
  <2> QED
    BY <1>0, <1>2, <2>1, <2>2, GoApplied
<1>5. ASSUME NEW s \in Surface, Write(s)
      PROVE  Applied'
  <2>1. open.wrote \cup {s} \in SUBSET Surface
    BY <1>0, PlanParts
  <2>2. open' = [open EXCEPT !.wrote = open.wrote \cup {s}]
        /\ UNCHANGED <<cmd, record, left, partial, halted>>
    BY <1>5 DEF Write, history
  <2>3. /\ open'.target = open.target /\ open'.record = open.record /\ open'.kind = open.kind
        /\ open'.done = open.done
    BY <1>0, <2>1, <2>2, WroteParts
  <2>4. Pending'
    BY <1>0, <2>2 DEF Pending
  <2> QED
    BY <1>0, <1>2, <2>2, <2>3, <2>4, GoApplied
<1>6. ASSUME NEW s \in Surface, Commit(s)
      PROVE  Applied'
  <2>1. open.done \cup {s} \in SUBSET Surface
    BY <1>0, PlanParts
  <2>2. /\ open' = [open EXCEPT !.done = open.done \cup {s}]
        /\ UNCHANGED <<cmd, partial, halted>>
        /\ left' = IF open.target[s] = Absent THEN left \cup {s} ELSE left
        /\ record' = IF s \notin open.wrote THEN record
                     ELSE [record EXCEPT ![s] = IF open.target[s] = Absent THEN None
                                                ELSE open.target[s]]
        /\ open.target[s] # NoEntry
    BY <1>6 DEF Commit, InEngine, Planned
  <2>3. /\ open'.target = open.target /\ open'.record = open.record /\ open'.kind = open.kind
        /\ open'.done = open.done \cup {s}
    BY <1>0, <2>1, <2>2, DoneParts
  <2>4. Pending'
    BY <1>0, <2>2 DEF Pending
  <2>5. AllSettled'
    <3>1. ASSUME NEW t \in Surface
          PROVE  RowSettled(t)'
      <4>1. CASE record'[t] = record[t]
        <5>1. CASE row[t].run = runs
          BY <1>0, <2>4, <5>1 DEF RowSettled
        <5>2. CASE Settled(t, record[t])
          BY <1>0, <2>2, <4>1, <5>2 DEF RowSettled, Settled
        <5> QED
          BY <1>1, <5>1, <5>2
      <4>2. CASE record'[t] # record[t]
        <5>1. t = s /\ record'[t] = IF open.target[s] = Absent THEN None ELSE open.target[s]
          BY <2>2, <4>2 DEF TypeOK, TableType
        <5>2. record'[t] # None \/ t \in left'
          BY <2>2, <5>1 DEF None, NoEntry
        <5> QED
          BY <5>2 DEF RowSettled, Settled
      <4> QED
        BY <4>1, <4>2
    <3> QED
      BY <3>1 DEF AllSettled
  <2>6. RunRows'
    <3>1. RowPlan(open)'
      BY <1>0, <1>1, <2>3 DEF RowPlan, Planned
    <3>2. \A t \in Surface : Settled(t, open.record[t])' \/ row'[t].run = runs'
      BY <1>0, <1>1, <2>2, <2>3 DEF Settled
    <3>3. \A t \in open'.done :
            open'.target[t] # NoEntry /\ (open'.target[t] = Absent => t \in left')
      BY <1>1, <2>2, <2>3
    <3> QED
      BY <1>0, <1>2, <2>2, <3>1, <3>2, <3>3 DEF RunRows
  <2> QED
    BY <2>5, <2>6 DEF Applied
<1>7. ASSUME open' = Closed, cmd'.pc \notin Starting,
             cmd'.pc = "release restored part" => runs \in partial',
             \A s \in Surface : RowSettled(s)'
      PROVE  Applied'
  <2>1. AllSettled'
    BY <1>7 DEF AllSettled
  <2>2. RunRows'
    BY <1>0, <1>7 DEF RunRows
  <2> QED
    BY <2>1, <2>2 DEF Applied
<1>8. ASSUME NEW s \in Surface, StopEarly(s)
      PROVE  Applied'
  <2>1. /\ UNCHANGED <<record, left, partial>> /\ open' = Closed /\ edits' = edits
        /\ Failing \/ (Goto("release") /\ UNCHANGED halted)
    BY <1>8 DEF StopEarly, Close
  <2>2. ASSUME Goto("release"), UNCHANGED halted
        PROVE  Applied'
    <3>1. cmd'.pc = "release"
      BY <1>0, <1>2, <2>2, GotoParts
    <3>2. Pending'
      BY <3>1 DEF Pending
    <3>3. ASSUME NEW t \in Surface
          PROVE  RowSettled(t)'
      <4>1. CASE row[t].run = runs
        BY <1>0, <3>2, <4>1 DEF RowSettled
      <4>2. CASE Settled(t, record[t])
        BY <1>0, <2>1, <2>2, <4>2 DEF RowSettled, Settled
      <4> QED
        BY <1>1, <4>1, <4>2
    <3>4. cmd'.pc \notin Starting /\ cmd'.pc # "release restored part"
      BY <3>1 DEF Starting
    <3> QED
      BY <1>7, <2>1, <3>3, <3>4
  <2> QED
    BY <1>3, <2>1, <2>2
<1>9. CASE GiveUp
  <2>1. /\ UNCHANGED <<record, left, halted>> /\ open' = Closed /\ cmd' = Idle
        /\ partial' = partial \cup {runs}
    BY <1>0, <1>9 DEF GiveUp
  <2>2. \A t \in Surface : RowSettled(t)'
    BY <1>0, <1>1, <2>1 DEF RowSettled, Settled
  <2> QED
    BY <1>7, <2>1, <2>2, IdleFields DEF Starting
<1>10. CASE Converge
  <2>1. /\ UNCHANGED <<left, partial>> /\ open' = Closed /\ edits' = edits
        /\ open.done = Planned(open)
        /\ record' = [s \in Surface |-> IF s \in open.ends THEN None
                                        ELSE IF s \in open.done THEN open.target[s] ELSE record[s]]
        /\ \/ Failing
           \/ /\ UNCHANGED halted
              /\ Goto(IF open.kind = "restore" THEN "release restored" ELSE "prune")
    BY <1>10 DEF Converge, Close
  <2>2. ASSUME NEW to \in {"release restored", "prune"}, UNCHANGED halted, Goto(to),
               open.kind = "restore" => to = "release restored"
        PROVE  Applied'
    <3>1. cmd'.pc = to /\ cmd'.plan = cmd.plan
      BY <1>0, <1>2, <2>2, GotoParts
    <3>2. ASSUME NEW t \in Surface
          PROVE  RowSettled(t)'
      <4>1. CASE t \in Folder
        BY <1>0, <4>1 DEF RowSettled, Settled, RowsKept, RowsShape
      <4>2. CASE t \in open.ends /\ t \in Harness
        <5>1. CASE open.kind = "sync"
          <6>1. open.target[t] = Absent /\ open.target[t] # NoEntry
            BY <1>0, <4>2, <5>1, Contents DEF PlanShape, TypeOK, CountType
          <6>2. t \in left
            BY <1>1, <2>1, <6>1 DEF Planned
          <6> QED
            BY <2>1, <6>2 DEF RowSettled, Settled
        <5>2. CASE open.kind = "restore"
          <6>1. t \in Planned(open)
            BY <1>0, <4>2, <5>2 DEF PlanShape
          <6>2. t \in (Planned(cmd.plan) \cap Harness)'
            BY <1>0, <3>1, <4>2, <6>1 DEF Planned
          <6> QED
            BY <2>2, <3>1, <5>2, <6>2 DEF RowSettled
        <5>3. CASE open.kind = "import"
          <6>1. t \in Folder
            BY <1>0, <4>2, <5>3 DEF PlanShape
          <6> QED
            BY <4>1, <6>1
        <5> QED
          BY <1>0, <5>1, <5>2, <5>3, PlanParts DEF PlanShape, Kinds
      <4>3. CASE t \notin open.ends /\ t \in open.done
        <5>1. record'[t] = open.target[t] /\ open.target[t] # NoEntry
          BY <1>1, <2>1, <4>3
        <5> QED
          BY <5>1 DEF RowSettled, Settled, None, NoEntry
      <4>4. CASE t \notin open.ends /\ t \notin open.done
        <5>1. record'[t] = record[t]
          BY <2>1, <4>4
        <5>2. row[t].run # runs
          BY <1>1, <2>1, <4>4 DEF RowPlan
        <5>3. Settled(t, record[t])
          BY <1>1, <5>2
        <5> QED
          BY <1>0, <2>1, <2>2, <5>1, <5>3 DEF RowSettled, Settled
      <4> QED
        BY <4>1, <4>2, <4>3, <4>4 DEF Surface
    <3> QED
      BY <1>7, <2>1, <2>2, <3>1, <3>2 DEF Starting
  <2> QED
    BY <1>3, <2>1, <2>2
<1>11. ASSUME NEW kept \in SUBSET open.wrote, Fail(kept)
       PROVE  Applied'
  <2>1. /\ UNCHANGED left /\ open' = Closed /\ edits' = edits
        /\ record' = [s \in Surface |-> IF s \in Restored(kept) THEN open.record[s]
                                        ELSE record[s]]
        /\ partial' = IF kept # {} THEN partial \cup {cmd.run} ELSE partial
    BY <1>11 DEF Fail
  <2>2. ASSUME UNCHANGED halted, NEW t \in Surface
        PROVE  RowSettled(t)' \/ row[t].run = runs
    BY <1>0, <1>1, <2>1, <2>2 DEF RowSettled, Settled
  <2>3. ASSUME UNCHANGED halted, kept = {}, cmd' = [cmd EXCEPT !.pc = "forget"]
        PROVE  Applied'
    <3>1. cmd'.pc = "forget"
      BY <1>0, <1>2, <2>1, <2>3, GotoParts DEF Goto
    <3>2. Pending'
      BY <3>1 DEF Pending
    <3>3. \A t \in Surface : RowSettled(t)'
      BY <1>0, <2>2, <2>3, <3>2 DEF RowSettled
    <3> QED
      BY <1>7, <2>1, <3>1, <3>3 DEF Starting
  <2>4. ASSUME UNCHANGED halted, kept # {},
               cmd' = [cmd EXCEPT !.pc = "release restored part",
                                  !.drop = {s \in Surface : row[s].run = cmd.run} \ kept]
        PROVE  Applied'
    <3>1. {s \in Surface : row[s].run = cmd.run} \ kept \in SUBSET Surface
      OBVIOUS
    <3>2. cmd'.pc = "release restored part"
      BY <1>0, <1>2, <2>1, <2>4, <3>1, DropParts
    <3>3. runs \in partial'
      BY <1>0, <2>1, <2>4
    <3>4. \A t \in Surface : row[t].run = runs => RowSettled(t)'
      BY <1>0, <3>3 DEF RowSettled, Settled
    <3> QED
      BY <1>7, <2>1, <2>2, <2>4, <3>2, <3>3, <3>4 DEF Starting
  <2> QED
    BY <1>3, <1>11, <2>1, <2>3, <2>4 DEF Fail
<1> QED
  BY <1>4, <1>5, <1>6, <1>8, <1>9, <1>10, <1>11 DEF EngineStep

\* The steps once the run has ended, and of an abandonment.
LEMMA FinishApplied ==
  ASSUME TypeOK, Phase, RowsKept, Applied,
         \/ Forget \/ DeleteSnapshot \/ ReleaseRestored \/ ReleaseUnapplied
         \/ DropSnapshotEntries \/ ReleaseRestoredRows \/ EditLocalList \/ PruneSnapshots
  PROVE  Applied'
<1>0. /\ CommandType /\ UNCHANGED <<edits, runs, open, record, left, partial>>
      /\ cmd.pc # "idle" => cmd.run = runs
      /\ {"delete", "drop", "exclude", "prune", "close"} \subseteq Stages
  <2>1. CommandType /\ (cmd.pc # "idle" => cmd.run = runs)
    BY DEF TypeOK, Phase, CommandStage
  <2>2. UNCHANGED <<edits, runs, open, record, left, partial>>
    <3>1. CASE Forget
      BY <3>1 DEF Forget
    <3>2. CASE DeleteSnapshot
      BY <3>2 DEF DeleteSnapshot, tables
    <3>3. CASE ReleaseRestored
      BY <3>3 DEF ReleaseRestored
    <3>4. CASE ReleaseUnapplied
      BY <3>4 DEF ReleaseUnapplied
    <3>5. CASE DropSnapshotEntries
      BY <3>5 DEF DropSnapshotEntries, tables
    <3>6. CASE ReleaseRestoredRows
      BY <3>6 DEF ReleaseRestoredRows
    <3>7. CASE EditLocalList
      BY <3>7 DEF EditLocalList, tables
    <3>8. CASE PruneSnapshots
      BY <3>8 DEF PruneSnapshots, tables
    <3> QED
      BY <3>1, <3>2, <3>3, <3>4, <3>5, <3>6, <3>7, <3>8
  <2>3. {"delete", "drop", "exclude", "prune", "close"} \subseteq Stages
    BY DEF Stages, Finishing, Closing
  <2> QED
    BY <2>1, <2>2, <2>3
<1>1. ASSUME cmd.pc # "idle", Failing, row' = row
      PROVE  Applied'
  BY <1>0, <1>1, FailApplied
<1>2. ASSUME halted' = halted, cmd'.pc \notin Starting \cup {"release restored part"},
             \A s \in Surface : row'[s] \in {row[s], NoRow},
             \A s \in Surface :
               \/ row'[s] = NoRow
               \/ ~Pending
               \/ row[s].run # runs
               \/ record[s] # None,
             cmd.pc = "release restored" =>
               \A s \in Planned(cmd.plan) \cap Harness : row'[s] = NoRow
      PROVE  Applied'
  BY <1>0, <1>2, GoApplied
<1>3. ASSUME NEW S, row' = Without(S)
      PROVE  \A s \in Surface : row'[s] = IF s \in S THEN NoRow ELSE row[s]
  BY <1>3 DEF Without
<1>4. CASE Forget
  <2>1. cmd.pc = "forget"
    BY <1>4 DEF Forget
  <2>2. ASSUME Goto("delete"), UNCHANGED halted,
               row' = Without({s \in Surface : row[s].run = cmd.run})
        PROVE  Applied'
    <3>1. cmd'.pc = "delete"
      BY <1>0, <2>2, GotoParts
    <3>2. \A s \in Surface : row'[s] = IF row[s].run = runs THEN NoRow ELSE row[s]
      BY <1>0, <1>3, <2>1, <2>2
    <3> QED
      BY <1>2, <2>1, <2>2, <3>1, <3>2 DEF Starting
  <2> QED
    BY <1>1, <1>4, <2>1, <2>2 DEF Forget
<1>5. CASE DeleteSnapshot
  <2>1. /\ cmd.pc \in {"delete", "undo snapshot"} /\ row' = row
        /\ Failing \/ (cmd' = Idle /\ UNCHANGED halted)
    BY <1>5 DEF DeleteSnapshot, tables
  <2>2. ~Pending
    BY <2>1 DEF Pending, Starting
  <2>3. CASE cmd' = Idle /\ UNCHANGED halted
    BY <1>2, <2>1, <2>2, <2>3, IdleFields DEF Starting
  <2> QED
    BY <1>1, <2>1, <2>3
<1>6. CASE ReleaseRestored
  <2>1. cmd.pc = "release restored part" /\ ~Pending
    BY <1>6 DEF ReleaseRestored, Pending, Starting
  <2>2. ASSUME Goto("drop"), UNCHANGED halted, row' = Without(cmd.drop)
        PROVE  Applied'
    <3>1. cmd'.pc = "drop"
      BY <1>0, <2>2, GotoParts
    <3>2. \A s \in Surface : row'[s] \in {row[s], NoRow}
      BY <1>3, <2>2
    <3>3. cmd'.pc \notin Starting \cup {"release restored part"}
      BY <3>1 DEF Starting
    <3> QED
      BY <1>2, <2>1, <2>2, <3>2, <3>3
  <2> QED
    BY <1>1, <1>6, <2>1, <2>2 DEF ReleaseRestored
<1>7. CASE ReleaseUnapplied
  <2>1. cmd.pc = "release"
    BY <1>7 DEF ReleaseUnapplied
  <2>2. ASSUME UNCHANGED halted, row' = Without(Unapplied),
               cmd' = [cmd EXCEPT !.pc = "drop", !.drop = NeverStarted]
        PROVE  Applied'
    <3>1. NeverStarted \in SUBSET Surface
      BY DEF NeverStarted, Unapplied
    <3>2. cmd'.pc = "drop"
      BY <1>0, <2>1, <2>2, <3>1, DropParts
    <3>3. \A s \in Surface :
            row'[s] = IF row[s].run = runs /\ record[s] = None THEN NoRow ELSE row[s]
      BY <1>0, <1>3, <2>1, <2>2 DEF Unapplied
    <3> QED
      BY <1>2, <2>1, <2>2, <3>2, <3>3 DEF Starting
  <2> QED
    BY <1>1, <1>7, <2>1, <2>2 DEF ReleaseUnapplied
<1>8. CASE DropSnapshotEntries
  <2>1. cmd.pc = "drop" /\ ~Pending /\ row' = row
    BY <1>8 DEF DropSnapshotEntries, Pending, Starting, tables
  <2>2. ASSUME UNCHANGED halted, cmd' = Idle \/ (AfterDrop # "idle" /\ Goto(AfterDrop))
        PROVE  Applied'
    <3>1. PICK to : to = AfterDrop
      OBVIOUS
    <3>2. AfterDrop # "idle" => to \in {"close", "prune"}
      BY <3>1 DEF AfterDrop
    <3>3. CASE AfterDrop # "idle" /\ Goto(to)
      <4>1. cmd'.pc = to
        BY <1>0, <3>2, <3>3, GotoParts
      <4> QED
        BY <1>2, <2>1, <2>2, <3>2, <3>3, <4>1 DEF Starting
    <3>4. CASE cmd' = Idle
      BY <1>2, <2>1, <2>2, <3>4, IdleFields DEF Starting
    <3> QED
      BY <2>2, <3>1, <3>3, <3>4
  <2> QED
    BY <1>1, <1>8, <2>1, <2>2 DEF DropSnapshotEntries
<1>9. CASE ReleaseRestoredRows
  <2>1. cmd.pc = "release restored" /\ ~Pending
    BY <1>9 DEF ReleaseRestoredRows, Pending, Starting
  <2>2. ASSUME Goto("exclude"), UNCHANGED halted, row' = Without(Planned(cmd.plan) \cap Harness)
        PROVE  Applied'
    <3>1. cmd'.pc = "exclude"
      BY <1>0, <2>2, GotoParts
    <3>2. Planned(cmd.plan) \cap Harness \subseteq Surface
      BY DEF Planned
    <3> QED
      BY <1>2, <1>3, <2>1, <2>2, <3>1, <3>2 DEF Starting
  <2> QED
    BY <1>1, <1>9, <2>1, <2>2 DEF ReleaseRestoredRows
<1>10. CASE EditLocalList
  <2>1. /\ cmd.pc = "exclude" /\ ~Pending /\ row' = row
        /\ Failing \/ (Goto("prune") /\ UNCHANGED halted)
    BY <1>10 DEF EditLocalList, Pending, Starting, tables
  <2>2. ASSUME Goto("prune"), UNCHANGED halted
        PROVE  Applied'
    <3>1. cmd'.pc = "prune"
      BY <1>0, <2>2, GotoParts
    <3> QED
      BY <1>2, <2>1, <2>2, <3>1 DEF Starting
  <2> QED
    BY <1>1, <2>1, <2>2
<1>11. CASE PruneSnapshots
  <2>1. cmd.pc = "prune" /\ ~Pending /\ row' = row /\ cmd' = Idle /\ halted' = halted
    BY <1>11 DEF PruneSnapshots, Pending, Starting, tables
  <2> QED
    BY <1>2, <2>1, IdleFields DEF Starting
<1> QED
  BY <1>4, <1>5, <1>6, <1>7, <1>8, <1>9, <1>10, <1>11

\* The commands for an open run, the user, and the end of a process.
LEMMA OtherApplied ==
  ASSUME TypeOK, Phase, RowsKept, Applied,
         \/ RecoverLocal \/ AbandonLocal \/ CloseAbandoned \/ Stop
         \/ \E s \in Surface : UserEdit(s) \/ Include(s)
  PROVE  Applied'
<1>0. UNCHANGED <<runs, record, row, left, partial>>
  BY DEF RecoverLocal, AbandonLocal, CloseAbandoned, Stop, UserEdit, Include, disk, tables, history
<1>1. ASSUME cmd.pc = "idle", open # Closed, NEW to \in {"engine", "release"},
             NEW b \in BOOLEAN, UNCHANGED <<edits, halted>>,
             cmd' = [Idle EXCEPT !.pc = to, !.run = open.run, !.plan = open],
             open' = [open EXCEPT !.cleaned = b]
      PROVE  Applied'
  <2>1. to \in Stages /\ open \in Plans(edits)
    BY DEF Stages, Closing, TypeOK, TableType
  <2>2. cmd'.pc = to
    BY <1>1, <2>1, TakenUp
  <2>3. /\ open'.target = open.target /\ open'.record = open.record /\ open'.kind = open.kind
        /\ open'.done = open.done
    BY <1>1, <2>1, CleanedParts
  <2>4. Pending'
    BY <2>2 DEF Pending
  <2> QED
    BY <1>0, <1>1, <2>2, <2>3, <2>4, GoApplied DEF Starting
<1>2. CASE RecoverLocal
  BY <1>1, <1>2 DEF RecoverLocal
<1>3. CASE AbandonLocal
  BY <1>1, <1>3 DEF AbandonLocal, history
<1>4. CASE CloseAbandoned
  <2>1. cmd.pc = "close" /\ ~Pending /\ open' = Closed /\ cmd' = Idle /\ halted' = halted
    BY <1>4 DEF CloseAbandoned, Pending, Starting, history
  <2> QED
    BY <1>0, <2>1, IdleFields, GoApplied DEF Starting
<1>5. CASE Stop
  <2>1. cmd.pc # "idle" /\ Failing /\ edits' = edits /\ open' = open
    BY <1>5 DEF Stop, tables
  <2> QED
    BY <1>0, <2>1, FailApplied
<1>6. ASSUME NEW s \in Surface, UserEdit(s) \/ Include(s)
      PROVE  Applied'
  <2>1. UNCHANGED <<cmd, open, halted>> /\ cmd.pc = "idle"
    BY <1>6 DEF UserEdit, Include, tables, history
  <2>2. Pending' <=> Pending
    BY <2>1 DEF Pending
  <2> QED
    BY <1>0, <2>1, <2>2, GoApplied DEF Starting
<1> QED
  BY <1>2, <1>3, <1>4, <1>5, <1>6

\* Every step keeps the reasons for the rows.
LEMMA AppliedNext ==
  ASSUME TypeOK, Phase, RowsKept, Applied, [Next]_vars
  PROVE  Applied'
<1>1. CASE UNCHANGED vars
  <2>1. UNCHANGED <<cmd, open, runs, record, row, left, partial, halted>>
    BY <1>1 DEF vars, tables, history
  <2>2. AllSettled'
    BY <2>1 DEF Applied, AllSettled, RowSettled, Settled, Pending
  <2>3. RunRows'
    BY <2>1 DEF Applied, RunRows, RowPlan, Settled
  <2> QED
    BY <2>2, <2>3 DEF Applied
<1>2. CASE Next
  BY <1>2, CommandsApplied, StartingApplied, EngineApplied, FinishApplied, OtherApplied DEF Next
<1> QED
  BY <1>1, <1>2

-----------------------------------------------------------------------------
(* The theorems.                                                           *)

\* At first nothing has run, and every surface holds the user's first version.
LEMMA InitInv ==
  ASSUME Init
  PROVE  Inv
<1>1. /\ edits = 0 /\ runs = 0 /\ cmd = Idle /\ open = Closed /\ cmd.pc = "idle"
      /\ 0 \in 0..MaxEdits /\ 0 \in 0..MaxRuns /\ 0 \in 0..MaxFaults
  BY ConstantsAssumption, IdleFields DEF Init
<1>2. TypeOK
  <2>1. /\ Original \in Known(edits) /\ Original \in Original..(Original + edits)
        /\ NoEntry \in Known(edits) \cup {NoEntry} /\ None \in Known(edits) \cup {None}
    BY <1>1 DEF Known, Original
  <2>2. DiskType
    BY <2>1 DEF Init, DiskType, NoSnapshot
  <2>3. TableType
    <3>1. NoRow \in [run : 0..MaxRuns, snapshot : 0..MaxRuns]
      BY <1>1 DEF NoRow
    <3>2. open \in Plans(edits)
      BY <1>1, ClosedType
    <3> QED
      BY <2>1, <3>1, <3>2 DEF Init, TableType
  <2>4. CommandType
    BY <1>1, IdleType DEF CommandType
  <2>5. CountType
    BY <1>1 DEF Init, CountType
  <2>6. HistoryType
    BY <2>1 DEF Init, HistoryType
  <2> QED
    BY <2>2, <2>3, <2>4, <2>5, <2>6 DEF TypeOK
<1>3. Phase
  <2>1. CommandStage
    BY <1>1 DEF CommandStage, Starting
  <2>2. OpenStage
    BY <1>1 DEF OpenStage
  <2>3. Unwritten
    BY <1>1 DEF Init, Unwritten
  <2> QED
    BY <2>1, <2>2, <2>3 DEF Phase
<1>4. Saved
  <2>1. \A s \in Surface : file[s] = last[s] /\ record[s] = None /\ last[s] = Original
    BY DEF Init
  <2>2. Original # None
    BY ConstantsAssumption DEF Original, None
  <2>3. FileKept /\ RecordKept
    BY <2>1, <2>2 DEF FileKept, RecordKept, Kept
  <2>4. StartCovered /\ OpenCovered
    BY <1>1 DEF StartCovered, OpenCovered, Starting
  <2>5. CopiesMatch
    BY <1>1 DEF CopiesMatch, Droppable, Starting
  <2> QED
    BY <2>3, <2>4, <2>5 DEF Saved
<1>5. \A s \in Surface : row[s] = NoRow
  BY DEF Init
<1>6. RowsKept
  <2>1. RowsShape
    BY <1>1, <1>5 DEF RowsShape, NoRow
  <2>2. RowsReleased
    BY <1>1 DEF RowsReleased
  <2>3. RowsResolve
    BY <1>5 DEF RowsResolve, NoRow
  <2> QED
    BY <2>1, <2>2, <2>3 DEF RowsKept
<1>7. Applied
  <2>1. AllSettled
    BY <1>5 DEF AllSettled, RowSettled, Settled
  <2>2. RunRows
    BY <1>1 DEF RunRows, Starting
  <2> QED
    BY <2>1, <2>2 DEF Applied
<1> QED
  BY <1>2, <1>3, <1>4, <1>6, <1>7 DEF Inv

\* No step of a command, of the engine or of the user breaks the invariant.
LEMMA InvNext == Inv /\ [Next]_vars => Inv'
<1> SUFFICES ASSUME Inv, [Next]_vars
             PROVE  Inv'
  OBVIOUS
<1>1. TypeOK /\ Phase /\ Saved /\ RowsKept /\ Applied
  BY DEF Inv
<1>2. TypeOK'
  BY <1>1, TypeNext
<1>3. Phase'
  BY <1>1, PhaseNext
<1>4. Saved'
  BY <1>1, <1>2, SavedNext
<1>5. RowsKept'
  BY <1>1, <1>2, <1>3, RowsNext
<1>6. Applied'
  BY <1>1, AppliedNext
<1> QED
  BY <1>2, <1>3, <1>4, <1>5, <1>6 DEF Inv

\* A copy of a content is an entry of a snapshot.
LEMMA InvKept == Inv => LastVersionKept
<1> SUFFICES ASSUME Inv, NEW s \in Surface, file[s] # last[s],
                    <<s, last[s]>> \notin forgone \cup exposed
             PROVE  \E id \in Snapshots : snaps[id][s] = last[s]
  BY DEF LastVersionKept
<1>1. PICK id \in Run : snaps[id][s] = last[s]
  BY DEF Inv, Saved, FileKept, Kept, Preserved
<1>2. last[s] # NoEntry
  <2>1. last[s] \in Original..(Original + edits) /\ edits \in 0..MaxEdits
    BY DEF Inv, TypeOK, HistoryType, CountType
  <2> QED
    BY <2>1, Contents
<1>3. s \in Captured(id)
  BY <1>1, <1>2 DEF Captured
<1>4. id \in Snapshots
  BY <1>3 DEF Snapshots
<1> QED
  BY <1>1, <1>4

\* At rest no row waits for the end of its run.
LEMMA InvApplied == Inv => RowsAreApplied
<1> SUFFICES ASSUME Inv, cmd.pc = "idle", open = Closed, NEW s \in Surface
             PROVE  Settled(s, record[s])
  BY DEF RowsAreApplied, Settled
<1>1. RowSettled(s)
  BY DEF Inv, Applied, AllSettled
<1>2. ~Pending
  BY DEF Pending, Starting
<1> QED
  BY <1>1, <1>2 DEF RowSettled

\* In every reachable state the strengthened invariant holds.
THEOREM Invariance == Spec => []Inv
<1>1. Init => Inv
  BY InitInv
<1>2. Inv /\ [Next]_vars => Inv'
  BY InvNext
<1> QED
  BY <1>1, <1>2, PTL DEF Spec

\* Plans, commands, tables, files and snapshots keep their types.
THEOREM TypeCorrect == Spec => []TypeOK
<1>1. Inv => TypeOK
  BY DEF Inv
<1> QED
  BY <1>1, Invariance, PTL

\* However the commands of src/src/projection/sync.ts succeed, fail, are killed,
\* recovered or abandoned, the latest version the user wrote of a surface is on
\* the disk or in a takeover snapshot, with the exceptions LastVersionKept names.
THEOREM LastVersionsAreKept == Spec => []LastVersionKept
<1>1. Inv => LastVersionKept
  BY InvKept
<1> QED
  BY <1>1, Invariance, PTL

\* Rows are released before their snapshot's entries are dropped: a row that
\* names a snapshot finds its surface there, unless retention pruned it.
THEOREM RowsAlwaysResolve == Spec => []RowsResolve
<1>1. Inv => RowsResolve
  BY DEF Inv, RowsKept
<1> QED
  BY <1>1, Invariance, PTL

\* At rest a row is of a surface that was applied or has retired, unless its
\* run's rollback was incomplete or its command stopped half way.
THEOREM RowsAreOfAppliedSurfaces == Spec => []RowsAreApplied
<1>1. Inv => RowsAreApplied
  BY InvApplied
<1> QED
  BY <1>1, Invariance, PTL
=============================================================================
