-------------------------- MODULE SynchronizationRun --------------------------
(***************************************************************************)
(* One synchronization run of a follower: the executor, its recovery after *)
(* a crash or an interruption, and its abandonment, over the durable run   *)
(* journal and the applied resource records of the state database.         *)
(*                                                                         *)
(*   executor.ts              executeSynchronizationPlan and its action    *)
(*   recovery.ts              recoverSynchronizationPlan                   *)
(*   resource-executors.ts    snapshots: capture, restore, inspect         *)
(*   state-repository.layer.ts  startRun, journalAction, completeRun       *)
(*   follower-orchestration.ts  abandonFollowerRun                         *)
(*                                                                         *)
(* Each database transaction and each mutation of a file is a step of its  *)
(* own; a process can be killed, or told to stop, between any two.  One    *)
(* process at a time works on the run (module RunLock) and there is one    *)
(* run: a second is refused while it is open.                              *)
(*                                                                         *)
(* Abstractions: an action owns one file; its contents are the content the *)
(* path had, none, the desired one, or a user's edit; an applied resource  *)
(* record is the one before the run or the one the run writes; an install  *)
(* has neither record nor snapshot (no provenance recipe); an error that   *)
(* makes recovery give up midway is a Crash at that point.                 *)
(***************************************************************************)
EXTENDS Naturals, Sequences

CONSTANTS
  Path,               \* the files the plans touch
  Plans,              \* the plans a run may be started with
  MaxCrashes,         \* bound: processes of the open run killed, or recoveries that give up
  MaxInterrupts,      \* bound: processes told to stop
  MaxFaults,          \* bound: I/O errors and failed verifications
  Faults,             \* which calls may fail: "io", "verify", "undo", "journal"
  MaxEdits,           \* bound: edits of a user between two processes
  MayAbandon,         \* may the operator abandon the open run?
  MaySplitCommit      \* may an interrupt land between the commit of a success
                      \* and the return of the action?

ActionKinds == {"write", "remove", "install", "human", "drift"}
Contents == {"original", "absent", "desired", "edited"}

\* What the planner can produce: a retired resource was applied before; only
\* a removed target may be written again by a later action.
WellFormed(p) ==
  /\ Len(p) > 0
  /\ \A a \in 1..Len(p) :
       /\ p[a] \in [kind : ActionKinds, path : Path, owned : BOOLEAN]
       /\ p[a].kind = "remove" => p[a].owned
       /\ p[a].kind \notin {"write", "remove"} => ~p[a].owned
  /\ \A a, b \in 1..Len(p) :
       a < b /\ p[a].path = p[b].path =>
         p[a].kind = "remove" /\ p[b].kind = "write" /\ ~p[b].owned

ASSUME ConstantsAssumption ==
  /\ \A p \in Plans : p \in Seq([kind : ActionKinds, path : Path, owned : BOOLEAN])
                      /\ WellFormed(p)
  /\ {MaxCrashes, MaxInterrupts, MaxFaults, MaxEdits} \subseteq Nat
  /\ Faults \subseteq {"io", "verify", "undo", "journal"}
  /\ {MayAbandon, MaySplitCommit} \subseteq BOOLEAN

VARIABLES
  plan,         \* the persisted plan
  status,       \* of the run row; "none" before startRun
  incomplete,   \* rollbackIncomplete of a failed outcome
  journal,      \* the events of each action, oldest first
  drifted,      \* is there a drift record of the run?
  record,       \* the applied resource record of each action's resource
  file,         \* the content of each path
  snap,         \* the rollback snapshot of each action, or "missing"
  tool,         \* the actions whose tool is installed
  pc, mode, cur,  \* the process: its next step, its command, its action
  attempt,      \* the attempt the process journals for its action
  ready,        \* has the action's attempt been prepared?
  owner,        \* the record a rollback of the action reinstates, if known
  stack,        \* completed actions to roll back, the latest first
  failedRollbacks,  \* actions whose inverse failed
  result,       \* of the latest action
  before,       \* history: each path as the user last left it
  crashes, interrupts, faults, edits

runVars   == <<plan, status, incomplete, drifted>>
diskVars  == <<file, snap, tool>>
procVars  == <<pc, mode, cur, attempt, ready, owner, stack, failedRollbacks, result>>
envVars   == <<before, crashes, interrupts, faults, edits>>
vars == <<runVars, journal, record, diskVars, procVars, envVars>>

Action  == DOMAIN plan
Kind(a) == plan[a].kind
Target(a) == plan[a].path
IsFile(a) == Kind(a) \in {"write", "remove"}
Prior(a) == IF plan[a].owned THEN "prior" ELSE "none"
Applied(a) == IF Kind(a) = "write" THEN "new" ELSE "none"
Intended(a) == IF Kind(a) = "write" THEN "desired" ELSE "absent"
Open == status \in {"applying", "Interrupted"}
Terminal == {"Converged", "HumanActionRequired", "FollowerDrift", "Failed"}

\* A path has content before the run when an action's resource owns it.
Base(pl, p) ==
  IF \E a \in DOMAIN pl : pl[a].path = p /\ pl[a].owned THEN "original" ELSE "absent"

Event(state, at, ref, was) ==
  [state |-> state, attempt |-> at, ref |-> ref, was |-> was]
Last(a) == journal[a][Len(journal[a])]
States == {"pending", "running", "succeeded", "failed", "skipped", "rolled-back"}

\* Mutant: the reference a pending event names is taken for a snapshot.
MutantHasReference(a) == TRUE

\* What recovery derives from the journal of an action.
HasReference(a) == \E i \in DOMAIN journal[a] : journal[a][i].ref
Started(a) == Last(a).state \notin {"pending", "skipped"}
Inspected(a) == Started(a) /\ HasReference(a)

\* input.appliedResources: in a recovery, the latest record the journal keeps
\* of a replaced or removed resource hides the one in the table.
Known(a) ==
  LET kept == {i \in DOMAIN journal[a] : journal[a][i].was # "none"} IN
  IF kept = {} THEN record[a]
  ELSE journal[a][CHOOSE i \in kept : \A j \in kept : j <= i].was

-----------------------------------------------------------------------------
(* validateJournal.                                                        *)

OfAttempt(events, n) == {i \in 2..Len(events) : events[i].attempt = n}
Ends(events, n) == {i \in OfAttempt(events, n) : events[i].state \in {"succeeded", "skipped"}}

\* A success or a skip ends its attempt; only the rollback of the whole run
\* may follow a success.
AttemptValid(events, n) ==
  \A i \in Ends(events, n) : (\A k \in Ends(events, n) : i <= k) =>
    \/ \A k \in OfAttempt(events, n) : k <= i
    \/ /\ events[i].state = "succeeded"
       /\ \E k \in OfAttempt(events, n) :
            /\ {l \in OfAttempt(events, n) : l > i} = {k}
            /\ events[k].state = "rolled-back"

EventsValid(events) ==
  /\ events # <<>> /\ events[1].state = "pending" /\ events[1].attempt = 0
  /\ \A i \in 2..Len(events) :
       /\ events[i].state # "pending"
       /\ events[i].attempt >= 1
       /\ i > 2 => events[i].attempt >= events[i - 1].attempt
       /\ AttemptValid(events, events[i].attempt)

JournalValid(a) == EventsValid(journal[a])

-----------------------------------------------------------------------------
(* inspectRollbackTargets: each target of a started action must hold its   *)
(* snapshot or what the action writes; a removal is compared as if the     *)
(* later write of its path were undone, and a write that was rolled back   *)
(* may already be overlaid by the inverse of an earlier removal.           *)

Successors(a) ==
  {b \in Action : b > a /\ Target(b) = Target(a) /\ Inspected(b)}
Predecessors(a) ==
  {b \in Action : b < a /\ Target(b) = Target(a) /\ Inspected(b) /\ Kind(b) = "remove"}

Observed(a) ==
  IF Kind(a) = "remove" /\ Successors(a) # {}
  THEN {snap[b] : b \in Successors(a)} ELSE {file[Target(a)]}

\* Mutant: a rolled-back write is compared like any other.
MutantRestored(a) == FALSE

Restored(a) ==
  /\ Last(a).state = "rolled-back"
  /\ \E b \in Predecessors(a) : file[Target(a)] = snap[b]

\* Mutant: recovery restores without looking at the targets.
MutantEdited(a) == FALSE

Edited(a) == ~(Observed(a) \subseteq {snap[a], Intended(a)} \/ Restored(a))

SuccessorWrites(a) == Successors(a) # {} /\ file[Target(a)] # "absent"

\* Nothing is touched unless every started action passes.
Recoverable ==
  /\ \A a \in Action : JournalValid(a)
  /\ \A a \in Action : Inspected(a) => snap[a] # "missing" /\ ~Edited(a)

-----------------------------------------------------------------------------
(* Small steps of the process.                                             *)

Init ==
  /\ plan \in Plans
  /\ status = "none" /\ incomplete = FALSE /\ drifted = FALSE
  /\ journal = [a \in Action |-> <<>>]
  /\ record = [a \in Action |-> Prior(a)]
  /\ file = [p \in Path |-> Base(plan, p)]
  /\ snap = [a \in Action |-> "missing"]
  /\ tool = {}
  /\ pc = "idle" /\ mode = "none" /\ cur = 1 /\ attempt = 1
  /\ ready = FALSE /\ owner = "unknown" /\ stack = <<>>
  /\ failedRollbacks = {} /\ result = "verified"
  /\ before = file
  /\ crashes = 0 /\ interrupts = 0 /\ faults = 0 /\ edits = 0

Fault(kind) ==
  /\ kind \in Faults
  /\ faults < MaxFaults
  /\ faults' = faults + 1
  /\ UNCHANGED <<before, crashes, interrupts, edits>>

Goto(to) ==
  /\ pc' = to
  /\ UNCHANGED <<mode, cur, attempt, ready, owner, stack, failedRollbacks, result>>

\* A fresh process of the given command; the memory of the last one is gone.
Enter(command, to) ==
  /\ mode' = command /\ pc' = to
  /\ cur' = 1 /\ attempt' = 1 /\ ready' = FALSE /\ owner' = "unknown"
  /\ stack' = <<>> /\ failedRollbacks' = {} /\ result' = "verified"

Journal(a, event) == journal' = [journal EXCEPT ![a] = Append(@, event)]

\* completeSkipped belongs to the executor; recovery just ends its loop.
AfterBreak == IF mode = "run" /\ cur < Len(plan) THEN "skip" ELSE "complete"

\* The current action ends; a verified one leads to the next.
Finish(res) ==
  /\ result' = res
  /\ owner' = "unknown"
  /\ ready' = FALSE
  /\ cur' = IF res = "verified" /\ cur < Len(plan) THEN cur + 1 ELSE cur
  /\ pc' = CASE res = "failed" -> "unwind"
             [] res = "verified" -> IF cur < Len(plan) THEN "next" ELSE "complete"
             [] OTHER -> AfterBreak
  /\ UNCHANGED <<mode, attempt, failedRollbacks>>

\* Mutant: completed actions are rolled back in the order they were applied.
MutantPush(a, n, prev) ==
  stack' = Append(stack, [action |-> a, attempt |-> n, prev |-> prev])

\* A completed action joins those a later failure rolls back.
Push(a, n, prev) ==
  stack' = <<[action |-> a, attempt |-> n, prev |-> prev]>> \o stack

-----------------------------------------------------------------------------
(* The layer's run: preflights only measure, then startRun persists the    *)
(* plan with a pending event per action.                                   *)

Start ==
  /\ status = "none" /\ pc = "idle"
  /\ status' = "applying"
  /\ journal' = [a \in Action |-> <<Event("pending", 0, FALSE, "none")>>]
  /\ Enter("run", "next")
  /\ UNCHANGED <<plan, incomplete, drifted, record, diskVars, envVars>>

\* executeSynchronizationAction branches on the kind of the action.
Entry(a) == CASE Kind(a) = "human" -> "hold"
              [] Kind(a) = "drift" -> "drift"
              [] OTHER -> "prepare"

\* attempt and the ownership a failed re-execution must reinstate are fixed
\* when the loop reaches the action.
Execute(a, n, own) ==
  /\ pc' = Entry(a)
  /\ attempt' = n
  /\ owner' = own
  /\ UNCHANGED <<mode, cur, ready, stack, failedRollbacks, result>>

Take ==
  /\ pc = "next" /\ mode = "run"
  /\ Execute(cur, 1, "unknown")
  /\ UNCHANGED <<runVars, journal, record, diskVars, envVars>>

RecordDrift ==
  /\ pc = "drift"
  /\ \/ drifted' = TRUE /\ Goto("hold") /\ UNCHANGED <<envVars, stack>>
     \/ Fault("journal") /\ Finish("failed") /\ UNCHANGED <<drifted, stack>>
  /\ UNCHANGED <<plan, status, incomplete, journal, record, diskVars>>

Hold ==
  /\ pc = "hold"
  /\ \/ /\ Journal(cur, Event("skipped", attempt, FALSE, "none"))
        /\ Finish(Kind(cur))
        /\ UNCHANGED envVars
     \/ Fault("journal") /\ Finish("failed") /\ UNCHANGED journal
  /\ UNCHANGED <<runVars, record, diskVars, stack>>

-----------------------------------------------------------------------------
(* executeSynchronizationAction for an action that changes the machine.    *)

\* captureRollback: the manifest is written last, so a failed capture counts
\* for nothing; an install has no rollback material.
Prepare ==
  /\ pc = "prepare"
  /\ \/ /\ snap' = IF IsFile(cur) THEN [snap EXCEPT ![cur] = file[Target(cur)]] ELSE snap
        /\ pc' = "running" /\ ready' = TRUE
        /\ UNCHANGED <<mode, cur, attempt, owner, stack, failedRollbacks, result, envVars>>
     \/ Fault("io") /\ Goto("fail") /\ UNCHANGED snap
  /\ UNCHANGED <<runVars, journal, record, file, tool>>

\* Mutant: the journal never learns of the snapshot.
MutantReference == FALSE

\* The rollback reference of the prepared action.
Reference == ready /\ IsFile(cur)

JournalRunning ==
  /\ pc = "running"
  /\ \/ /\ Journal(cur, Event("running", attempt, Reference, "none"))
        /\ Goto("mutate") /\ UNCHANGED envVars
     \/ Fault("journal") /\ Goto("undo") /\ UNCHANGED journal
  /\ UNCHANGED <<runVars, record, diskVars>>

Apply(a) ==
  /\ file' = IF IsFile(a) THEN [file EXCEPT ![Target(a)] = Intended(a)] ELSE file
  /\ tool' = IF Kind(a) = "install" THEN tool \cup {a} ELSE tool

\* An error may be raised before or after the change is published.
Mutate ==
  /\ pc = "mutate"
  /\ \/ Apply(cur) /\ Goto(IF Kind(cur) = "remove" THEN "commit" ELSE "verify")
        /\ UNCHANGED envVars
     \/ Fault("io") /\ Goto("undo") /\ (Apply(cur) \/ UNCHANGED <<file, tool>>)
  /\ UNCHANGED <<runVars, journal, record, snap>>

\* verifyResource looks at the machine, and may fail to.
Holds(a) == IF IsFile(a) THEN file[Target(a)] = Intended(a) ELSE a \in tool

Verify ==
  /\ pc = "verify"
  /\ \/ Holds(cur) /\ Goto("commit") /\ UNCHANGED envVars
     \/ ~Holds(cur) /\ Goto("undo") /\ UNCHANGED envVars
     \/ Fault("verify") /\ Goto("undo")
  /\ UNCHANGED <<runVars, journal, record, diskVars>>

\* One transaction journals the success, keeps the record it replaces or
\* removes, and updates the record.
Commit ==
  /\ pc = "commit"
  /\ \/ /\ Journal(cur, Event("succeeded", attempt, Reference,
                              IF IsFile(cur) THEN Known(cur) ELSE "none"))
        /\ record' = IF IsFile(cur) THEN [record EXCEPT ![cur] = Applied(cur)] ELSE record
        /\ owner' = IF owner = "unknown" THEN Known(cur) ELSE owner
        /\ pc' = "return"
        /\ UNCHANGED <<mode, cur, attempt, ready, stack, failedRollbacks, result, envVars>>
     \/ Fault("journal") /\ Goto("undo") /\ UNCHANGED <<journal, record>>
  /\ UNCHANGED <<runVars, diskVars>>

Return ==
  /\ pc = "return"
  /\ Finish("verified")
  /\ IF IsFile(cur) THEN Push(cur, attempt, owner) ELSE UNCHANGED stack
  /\ UNCHANGED <<runVars, journal, record, diskVars, envVars>>

Restore(a) == file' = [file EXCEPT ![Target(a)] = snap[a]]

\* rollbackPrepared: a failed inverse is reported with its snapshot retained.
Undo ==
  /\ pc = "undo"
  /\ \/ /\ IF Reference THEN Restore(cur) ELSE UNCHANGED file
        /\ Goto("fail") /\ UNCHANGED envVars
     \/ /\ Reference /\ Fault("undo")
        /\ failedRollbacks' = failedRollbacks \cup {cur}
        /\ pc' = "fail"
        /\ UNCHANGED <<file, mode, cur, attempt, ready, owner, stack, result>>
  /\ UNCHANGED <<runVars, journal, record, snap, tool>>

\* Mutant: a failed re-execution keeps the record of the earlier success.
MutantFail ==
  /\ pc = "fail"
  /\ \/ Journal(cur, Event("failed", attempt, Reference, "none")) /\ UNCHANGED envVars
     \/ Fault("journal") /\ UNCHANGED journal
  /\ Finish("failed")
  /\ UNCHANGED <<runVars, record, diskVars, stack>>

\* An error of this journal call changes only the reported reason.  A failed
\* re-execution of an action completed earlier also gives up its record.
Fail ==
  /\ pc = "fail"
  /\ \/ Journal(cur, Event("failed", attempt, Reference, "none")) /\ UNCHANGED envVars
     \/ Fault("journal") /\ UNCHANGED journal
  /\ IF owner # "unknown" /\ cur \notin failedRollbacks
     THEN Goto("disown") ELSE Finish("failed") /\ UNCHANGED stack
  /\ UNCHANGED <<runVars, record, diskVars>>

Disown ==
  /\ pc = "disown"
  /\ Journal(cur, Event("rolled-back", attempt, FALSE, "none"))
  /\ record' = [record EXCEPT ![cur] = owner]
  /\ Finish("failed")
  /\ UNCHANGED <<runVars, diskVars, envVars, stack>>

-----------------------------------------------------------------------------
(* A failed action rolls back the completed ones in reverse order.         *)

Top == Head(stack)

Unwind ==
  /\ pc = "unwind" /\ stack # <<>>
  /\ \/ Restore(Top.action) /\ Goto("unjournal") /\ UNCHANGED envVars
     \/ /\ Fault("undo")
        /\ failedRollbacks' = failedRollbacks \cup {Top.action}
        /\ stack' = Tail(stack)
        /\ UNCHANGED <<file, pc, mode, cur, attempt, ready, owner, result>>
  /\ UNCHANGED <<runVars, journal, record, snap, tool>>

\* Mutant: a rolled back resource keeps the record of the run.
MutantUnjournal ==
  /\ pc = "unjournal"
  /\ Journal(Top.action, Event("rolled-back", Top.attempt, TRUE, "none"))
  /\ pc' = "unwind" /\ stack' = Tail(stack)
  /\ UNCHANGED <<runVars, record, diskVars, envVars, mode, cur, attempt, ready, owner,
                 failedRollbacks, result>>

\* The record goes back with the event, in one transaction; when it fails
\* the loop just goes on.
Unjournal ==
  /\ pc = "unjournal"
  /\ \/ /\ Journal(Top.action, Event("rolled-back", Top.attempt, TRUE, "none"))
        /\ record' = [record EXCEPT ![Top.action] = Top.prev]
        /\ UNCHANGED envVars
     \/ Fault("journal") /\ UNCHANGED <<journal, record>>
  /\ pc' = "unwind" /\ stack' = Tail(stack)
  /\ UNCHANGED <<runVars, diskVars, mode, cur, attempt, ready, owner, failedRollbacks, result>>

Unwound ==
  /\ pc = "unwind" /\ stack = <<>>
  /\ Goto(AfterBreak)
  /\ UNCHANGED <<runVars, journal, record, diskVars, envVars>>

\* completeSkipped: one transaction per action that was not reached, each
\* error ignored.
Skip ==
  /\ pc = "skip"
  /\ \/ Journal(cur + 1, Event("skipped", 1, FALSE, "none")) /\ UNCHANGED envVars
     \/ Fault("journal") /\ UNCHANGED journal
  /\ cur' = cur + 1
  /\ pc' = IF cur + 1 < Len(plan) THEN "skip" ELSE "complete"
  /\ UNCHANGED <<runVars, record, diskVars, mode, attempt, ready, owner, stack,
                 failedRollbacks, result>>

Outcome == CASE result = "failed" -> "Failed"
             [] result = "drift" \/ (drifted /\ result # "failed") -> "FollowerDrift"
             [] result = "human" /\ ~drifted -> "HumanActionRequired"
             [] OTHER -> "Converged"

\* Mutant: the records are written whatever the outcome.
MutantFinalRecords == [a \in Action |-> IF IsFile(a) THEN Applied(a) ELSE record[a]]

FinalRecords ==
  [a \in Action |-> IF IsFile(a) /\ Outcome = "Converged" THEN Applied(a) ELSE record[a]]

\* completeRun: the outcome and, when converged, the records.
Complete ==
  /\ pc = "complete"
  /\ status' = Outcome
  /\ incomplete' = (Outcome = "Failed" /\ failedRollbacks # {})
  /\ record' = FinalRecords
  /\ Goto("cleanup")
  /\ UNCHANGED <<plan, drifted, journal, diskVars, envVars>>

Cleanup ==
  /\ pc = "cleanup"
  /\ snap' = [a \in Action |-> IF a \in failedRollbacks THEN snap[a] ELSE "missing"]
  /\ Enter("none", "idle")
  /\ UNCHANGED <<runVars, journal, record, file, tool, envVars>>

-----------------------------------------------------------------------------
(* recoverSynchronizationPlan: the loop dispatches on the last event.      *)

Recover ==
  /\ pc = "idle" /\ Open
  /\ Recoverable
  /\ Enter("recover", "next")
  /\ UNCHANGED <<runVars, journal, record, diskVars, envVars>>

\* Mutant: recovery journals under the attempt of the interrupted process.
MutantNextAttempt(a) == 1

NextAttempt(a) == IF Last(a).attempt + 1 > 1 THEN Last(a).attempt + 1 ELSE 1

Taking(states) == pc = "next" /\ mode = "recover" /\ Last(cur).state \in states

\* Mutant: an action that waits for a human counts as failed.
MutantTakeSkipped ==
  /\ Taking({"skipped"})
  /\ Finish("failed")
  /\ UNCHANGED <<runVars, journal, record, diskVars, stack, envVars>>

\* preservedOutcome.
TakeSkipped ==
  /\ Taking({"skipped"})
  /\ Finish(IF Kind(cur) \in {"human", "drift"} THEN Kind(cur) ELSE "failed")
  /\ UNCHANGED <<runVars, journal, record, diskVars, stack, envVars>>

\* uncertainInstaller never runs the installer again.
TakeInstall ==
  /\ Taking(States \ {"pending", "skipped"}) /\ Kind(cur) = "install"
  /\ \/ /\ cur \in tool
        /\ Journal(cur, Event("succeeded", NextAttempt(cur), FALSE, "none"))
        /\ Finish("verified") /\ UNCHANGED envVars
     \/ /\ \/ cur \notin tool /\ UNCHANGED envVars
           \/ Fault("verify")
        /\ Journal(cur, Event("skipped", NextAttempt(cur), FALSE, "none"))
        /\ Finish("human")
     \/ Fault("journal") /\ Finish("human") /\ UNCHANGED journal
  /\ UNCHANGED <<runVars, record, diskVars, stack>>

\* Replaying a removal would erase the later write of its path.
KeepRemoved ==
  /\ Taking({"succeeded"}) /\ Kind(cur) = "remove" /\ SuccessorWrites(cur)
  /\ Push(cur, NextAttempt(cur), Last(cur).was)
  /\ Finish("verified")
  /\ UNCHANGED <<runVars, journal, record, diskVars, envVars>>

\* Mutant: a completed write is trusted without verifying it again.
MutantKeepWritten ==
  /\ Taking({"succeeded"}) /\ Kind(cur) = "write"
  /\ Push(cur, NextAttempt(cur), Last(cur).was)
  /\ Finish("verified")
  /\ UNCHANGED <<runVars, journal, record, diskVars, envVars>>

KeepWritten ==
  /\ Taking({"succeeded"}) /\ Kind(cur) = "write" /\ Holds(cur)
  /\ Push(cur, NextAttempt(cur), Last(cur).was)
  /\ Finish("verified")
  /\ UNCHANGED <<runVars, journal, record, diskVars, envVars>>

\* Mutant: an interrupted action is executed again over what it had written.
MutantRedo(own) ==
  /\ Execute(cur, NextAttempt(cur), own)
  /\ UNCHANGED <<runVars, journal, record, diskVars>>

Redo(own) ==
  /\ Execute(cur, NextAttempt(cur), own)
  /\ IF HasReference(cur) THEN Restore(cur) ELSE UNCHANGED file
  /\ UNCHANGED <<runVars, journal, record, snap, tool>>

RedoRemoved ==
  /\ Taking({"succeeded"}) /\ Kind(cur) = "remove" /\ ~SuccessorWrites(cur)
  /\ Redo(Last(cur).was)
  /\ UNCHANGED envVars

\* A completed write no longer verifies.
RedoWritten ==
  /\ Taking({"succeeded"}) /\ Kind(cur) = "write"
  /\ \/ ~Holds(cur) /\ UNCHANGED envVars
     \/ Fault("verify")
  /\ Redo(Last(cur).was)

RedoStarted ==
  /\ Taking({"pending", "running", "failed", "rolled-back"})
  /\ Kind(cur) = "install" => Last(cur).state = "pending"
  /\ Redo("unknown")
  /\ UNCHANGED envVars

-----------------------------------------------------------------------------
(* abandonFollowerRun: not a rollback; the snapshots go before the run is  *)
(* closed.  It upserts the records just loaded, which changes none.        *)

Abandon ==
  /\ MayAbandon
  /\ pc = "idle" /\ Open
  /\ Enter("abandon", "discard")
  /\ UNCHANGED <<runVars, journal, record, diskVars, envVars>>

Discard ==
  /\ pc = "discard"
  /\ snap' = [a \in Action |-> "missing"]
  /\ Goto("close")
  /\ UNCHANGED <<runVars, journal, record, file, tool, envVars>>

\* The outcome is Failed; the model tells it from a failure of the run.
Close ==
  /\ pc = "close"
  /\ status' = "Abandoned"
  /\ Enter("none", "idle")
  /\ UNCHANGED <<plan, incomplete, drifted, journal, record, diskVars, envVars>>

-----------------------------------------------------------------------------
(* The environment: kills, interruptions and the user's edits.             *)

Crash ==
  /\ pc # "idle"
  /\ Open => crashes < MaxCrashes
  /\ crashes' = IF Open THEN crashes + 1 ELSE crashes
  /\ Enter("none", "idle")
  /\ UNCHANGED <<runVars, journal, record, diskVars, before, interrupts, faults, edits>>

InAction == {"prepare", "running", "mutate", "verify", "commit", "undo"}
                \cup (IF MaySplitCommit THEN {"return"} ELSE {})

\* The action's handler undoes and journals it; the loop's or the layer's
\* handler records the outcome Interrupted.  An undo is within reach of the
\* action's handler after a failed verification, and not after an error.
\* Later than the loop nothing handles it: that is a Crash.
Interrupt ==
  /\ interrupts < MaxInterrupts
  /\ interrupts' = interrupts + 1
  /\ \/ pc \in InAction /\ Goto("interrupted-undo")
     \/ /\ pc \in {"next", "drift", "hold", "undo", "fail", "disown", "unwind", "unjournal", "skip"}
        /\ Goto("interrupted")
  /\ UNCHANGED <<runVars, journal, record, diskVars, before, crashes, faults, edits>>

InterruptedUndo ==
  /\ pc = "interrupted-undo"
  /\ \/ /\ IF Reference THEN Restore(cur) ELSE UNCHANGED file
        /\ Goto("interrupted-journal") /\ UNCHANGED envVars
     \/ Reference /\ Fault("undo") /\ Goto("interrupted") /\ UNCHANGED file
  /\ UNCHANGED <<runVars, journal, record, snap, tool>>

InterruptedJournal ==
  /\ pc = "interrupted-journal"
  /\ \/ Journal(cur, Event("failed", attempt, Reference, "none")) /\ UNCHANGED envVars
     \/ Fault("journal") /\ UNCHANGED journal
  /\ Goto("interrupted")
  /\ UNCHANGED <<runVars, record, diskVars>>

Interrupted ==
  /\ pc = "interrupted"
  /\ status' = "Interrupted"
  /\ Enter("none", "idle")
  /\ UNCHANGED <<plan, incomplete, drifted, journal, record, diskVars, envVars>>

\* Between two processes the user edits a target or puts it back.
UserEdit(p) ==
  /\ pc = "idle" /\ Open
  /\ edits < MaxEdits
  /\ edits' = edits + 1
  /\ \E c \in {"edited", Base(plan, p)} \ {file[p]} :
       file' = [file EXCEPT ![p] = c] /\ before' = [before EXCEPT ![p] = c]
  /\ UNCHANGED <<runVars, journal, record, snap, tool, procVars, crashes, interrupts, faults>>

ExecutorStep ==
  \/ Take \/ RecordDrift \/ Hold \/ Prepare \/ JournalRunning \/ Mutate \/ Verify
  \/ Commit \/ Return \/ Undo \/ Fail \/ Disown \/ Unwind \/ Unjournal \/ Unwound
  \/ Skip \/ Complete \/ Cleanup
RecoveryStep ==
  \/ TakeSkipped \/ TakeInstall \/ KeepRemoved \/ KeepWritten
  \/ RedoRemoved \/ RedoWritten \/ RedoStarted
StopStep == InterruptedUndo \/ InterruptedJournal \/ Interrupted
AbandonStep == Discard \/ Close

ProcessStep == ExecutorStep \/ RecoveryStep \/ StopStep \/ AbandonStep

Next ==
  \/ Start \/ ProcessStep \/ Recover \/ Abandon \/ Crash \/ Interrupt
  \/ \E p \in Path : UserEdit(p)

Spec == Init /\ [][Next]_vars

\* A running process keeps running, and the operator reruns recover.
FairSpec == Spec /\ WF_vars(ProcessStep) /\ WF_vars(Recover)
-----------------------------------------------------------------------------
(* Properties.                                                             *)

Steps == {"idle", "next", "prepare", "running", "mutate", "verify", "commit",
          "return", "undo", "fail", "disown", "unwind", "unjournal", "skip",
          "complete", "cleanup", "drift", "hold", "discard", "close",
          "interrupted-undo", "interrupted-journal", "interrupted"}
Records == {"none", "prior", "new"}
Events == [state : States, attempt : Nat, ref : BOOLEAN, was : Records]

RunType ==
  /\ plan \in Plans
  /\ status \in {"none", "applying", "Interrupted", "Abandoned"} \cup Terminal
  /\ incomplete \in BOOLEAN /\ drifted \in BOOLEAN

JournalType ==
  /\ journal \in [Action -> Seq(Events)]
  /\ status # "none" => \A a \in Action : journal[a] # <<>>
  /\ record \in [Action -> Records]

DiskType ==
  /\ file \in [Path -> Contents] /\ before \in [Path -> Contents]
  /\ snap \in [Action -> Contents \cup {"missing"}]
  /\ tool \subseteq Action

Pushes == [action : Action, attempt : Nat, prev : Records]

ProcessType ==
  /\ pc \in Steps /\ mode \in {"none", "run", "recover", "abandon"}
  /\ cur \in Action /\ attempt \in Nat /\ ready \in BOOLEAN
  /\ owner \in Records \cup {"unknown"}
  /\ stack \in Seq(Pushes)
  /\ failedRollbacks \subseteq Action
  /\ result \in {"verified", "failed", "human", "drift"}

CountType ==
  crashes \in Nat /\ interrupts \in Nat /\ faults \in Nat /\ edits \in Nat

\* Every variable keeps its type: the first part of an inductive invariant, no
\* run lists it.
TypeOK == RunType /\ JournalType /\ DiskType /\ ProcessType /\ CountType

Whole(a) == file[Target(a)] = before[Target(a)] /\ record[a] = Prior(a)

\* Canonfig rolls back every file of a run that failed, including resources
\* independent of the failed one, and restores their ownership records,
\* unless it reports the rollback incomplete.  No run checks this: it does not
\* hold when a recovery fails before it reaches what the killed run applied.
FailedRunIsUndone ==
  status = "Failed" /\ ~incomplete =>
    \A a \in Action : IsFile(a) => Whole(a)

\* The files, as far as the failing process reached the plan.
FailureRestoresFiles ==
  pc = "cleanup" /\ status = "Failed" /\ failedRollbacks = {} =>
    \A a \in Action : IsFile(a) /\ (mode = "run" \/ a <= cur) =>
      file[Target(a)] = before[Target(a)]

\* The records, as far as the failing process reached the plan.  A second
\* recovery no longer knows the record an interrupted re-execution replaced:
\* only a first one is held to this.
FailureRestoresRecords ==
  pc = "cleanup" /\ status = "Failed" /\ failedRollbacks = {} /\ crashes + interrupts <= 1 =>
    \A a \in Action : IsFile(a) /\ (mode = "run" \/ a <= cur) => record[a] = Prior(a)

\* A run reported converged left every file as the plan intends it and every
\* record saying so, whatever happened between its steps.
ConvergedIsDesired ==
  status = "Converged" =>
    \A a \in Action :
      /\ Kind(a) \notin {"human", "drift"}
      /\ IsFile(a) => record[a] = Applied(a)
      /\ IsFile(a) /\ (\A b \in Action : b > a => Target(b) # Target(a)) =>
           file[Target(a)] = Intended(a)

\* No record claims the desired content of a file that does not have it,
\* however the run ended, if its rollback was complete and no user changed it.
\* A failed recovery is left out: see FailedRunIsUndone.
RecordsTellTheTruth ==
  /\ status \in Terminal /\ ~incomplete /\ edits = 0
  /\ status = "Failed" => crashes + interrupts = 0
  => \A a \in Action :
       Kind(a) = "write" /\ record[a] = "new" => file[Target(a)] = "desired"

\* A run whose files nobody edited can be recovered after any crash.
OpenRunIsRecoverable == Open /\ pc = "idle" /\ edits = 0 => Recoverable

\* An abandonment has removed a snapshot that the journal names.
Discarded ==
  \E a \in Action : snap[a] = "missing" /\ \E i \in DOMAIN journal[a] : journal[a][i].ref

\* The same but for two cases.  A killed abandonment can only be abandoned
\* again; and where the inverse of a removal already lies over the target of
\* the write that took it over, and that write was not journaled as rolled
\* back, the inverse is taken for an edit.
Overlaid(a) ==
  /\ Last(a).state # "rolled-back"
  /\ \E b \in Predecessors(a) : file[Target(a)] = snap[b]

RecoverableUnlessOverlaid ==
  \/ OpenRunIsRecoverable
  \/ Discarded
  \/ \E a \in Action : Inspected(a) /\ Overlaid(a)

\* Before a file differs from what the user left, the journal of an action on
\* it refers to a snapshot that holds exactly that, until an abandonment
\* gives the snapshots up.
MutationIsJournaled ==
  Open /\ edits = 0 /\ ~Discarded =>
    \A p \in Path : file[p] # before[p] =>
      \E a \in Action : Target(a) = p /\ Inspected(a) /\ snap[a] = before[p]

\* No step of the program replaces an edited file unless the action's own
\* snapshot holds the edit.
EditsAreKept ==
  [][\A p \in Path :
       file[p] = "edited" /\ file'[p] # "edited" /\ edits' = edits =>
         \E a \in Action : Target(a) = p /\ snap[a] = "edited"]_vars

\* An open run ends, once crashes, errors and edits do.
OpenRunEnds == Open ~> ~Open

\* Every event the program journals keeps the journal acceptable to the
\* recovery that may have to read it.
JournalAcceptable == Open /\ pc = "idle" => \A a \in Action : JournalValid(a)

\* A recovery left an installation it could not confirm to a human.
LeftToHuman == \E a \in Action : Kind(a) = "install" /\ Last(a).state = "skipped"

\* A run in which no call and no verification failed does not fail: a
\* resource that needs a human does not roll back the others.  Only a second
\* recovery takes an installation left to a human for a failure.
FailureNeedsAnError == status = "Failed" => faults > 0 \/ LeftToHuman

-----------------------------------------------------------------------------
(* The run as one transaction.                                             *)

ViewOf(a) ==
  LET taken == \E b \in Action : b > a /\ Target(b) = Target(a)
      removed == \E b \in Action : b < a /\ Target(b) = Target(a)
      now == file[Target(a)]
  IN CASE record[a] = Prior(a) /\ now \in {before[Target(a)]} \cup (IF removed THEN {"absent"} ELSE {})
            -> "before"
       [] record[a] = Applied(a) /\ now \in {Intended(a)} \cup (IF taken THEN {"desired"} ELSE {})
            -> "after"
       [] OTHER -> "between"

\* The transaction a run is: how far it is, and where each of its resources is.
Phase ==
  CASE status = "none" -> "none"
    [] Open -> "open"
    [] status = "Converged" -> "converged"
    [] status = "Failed" /\ ~incomplete /\ crashes + interrupts = 0 -> "failed"
    [] status \in {"HumanActionRequired", "FollowerDrift"} -> "held"
    [] OTHER -> "incomplete"
FileActions == {a \in Action : IsFile(a)}
Viewed == [a \in FileActions |-> ViewOf(a)]

Transaction == INSTANCE RunTransaction WITH phase <- Phase, view <- Viewed

\* The executor and its recovery implement the transaction.  A failure is held
\* to the transaction's promise in a run that no crash and no interruption
\* stopped: see FailedRunIsUndone for the others.
ImplementsTransaction == Transaction!Spec
==============================================================================
