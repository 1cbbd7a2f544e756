---------------------- MODULE SynchronizationRunProofs ----------------------
(****************************************************************************)
(* What TLAPS proves of the executor, recovery and abandonment of a run for *)
(* every plan and any number of crashes, interruptions, errors and edits:   *)
(* the types, what the run does to the files of the machine, its journal    *)
(* and its outcomes.                                                        *)
(*                                                                          *)
(* The first half, on the types and the files, assumes only the shape of a  *)
(* plan (ConstantsAssumption).                                              *)
(*                                                                          *)
(* Its inductive invariant IInv has, beside the types, five parts.  Control *)
(* says what a process that is at a given step may take for granted.        *)
(* Journals says which actions have a rollback reference: a file gets one   *)
(* before it is changed, and the first action on a path before the second.  *)
(* Stack says that the completed actions a failure would roll back are all  *)
(* the files the loop has left behind, latest first.  Files relates the     *)
(* snapshots to the files: a path without a reference is untouched, and the *)
(* first snapshot of a path holds what the user had there.  Progress says   *)
(* how far the files are: as intended behind the loop, and, while a failed  *)
(* run is unwound, as the user had them or still on the stack.              *)
(*                                                                          *)
(* The two parts that need each other are Files and Stack: the inverse of   *)
(* the second action on a path leaves it as the first one made it, so the   *)
(* path is the user's again only because the first is still to be undone.   *)
(****************************************************************************)
EXTENDS SynchronizationRun, WellFoundedInduction, TLAPS

\* Where a process is in the loop over the actions.
Looping == {"next", "drift", "hold", "prepare", "running", "mutate", "verify", "commit", "return"}

\* Where it is after an action has failed.
Failing == {"undo", "fail", "disown"}

\* Where it is while an interrupted action is taken back.
Undoing == {"interrupted-undo", "interrupted-journal"}

\* Where it rolls back the actions completed before.
Unwinding == {"unwind", "unjournal"}

\* Where it leaves the loop for the end of the run.
Ending == {"skip", "complete"}

\* Wherever a process is that runs or recovers the plan.
Working == Looping \cup Failing \cup Undoing \cup {"interrupted"} \cup Unwinding \cup Ending

\* Where the snapshot of the action in hand has been taken.
Prepared == {"running", "mutate", "verify", "commit", "return"}

\* The first action on its path.
First(a) == IsFile(a) /\ \A b \in Action : b < a => Target(b) # Target(a)
\* The last action on its path.
Final(a) == IsFile(a) /\ \A b \in Action : b > a => Target(b) # Target(a)

\* The run may need the snapshot of the action: it is journaled, or about to be.
Relied(a) == HasReference(a) \/ (a = cur /\ ready /\ IsFile(a))

\* The action was completed and its rollback is still to come.
Stacked(a) == \E i \in DOMAIN stack : stack[i].action = a

\* What the step of a process says of the run, of its mode and of the action in hand.
Control ==
  /\ pc \in Working => Open /\ mode \in {"run", "recover"}
  /\ pc \in {"discard", "close"} => Open /\ mode = "abandon" /\ ~ready
  /\ pc = "cleanup" => status \in Terminal /\ mode \in {"run", "recover"}
  /\ pc = "idle" => mode = "none" /\ ~ready
  /\ pc \in Prepared \cup {"undo"} => ready
  /\ ready => pc \in Prepared \cup Failing \cup Undoing \cup {"interrupted"}
  /\ pc \in {"drift", "hold"} => Kind(cur) \in {"human", "drift"}
  /\ pc \in (Prepared \cup Failing \cup Undoing \cup {"prepare"}) => Kind(cur) \notin {"human", "drift"}
  /\ pc \in Looping \cup Failing \cup Undoing => result = "verified"
  /\ pc \in Unwinding => result = "failed"
  /\ pc \in {"disown", "return"} => owner # "unknown"
  /\ pc \in (Looping \ {"return"}) \cup Failing /\ owner # "unknown" => IsFile(cur)
  /\ pc = "skip" => mode = "run" /\ cur < Len(plan) /\ result # "verified"
  /\ pc = "complete" /\ mode = "run" => cur = Len(plan)
  /\ pc = "complete" /\ result = "verified" => cur = Len(plan)
  /\ pc \in Ending => (result = "failed" => stack = <<>>)

\* A first execution has journaled nothing yet of the actions it has not reached.
Unreached ==
  pc \in Working /\ mode = "run" =>
    \A a \in Action :
      a > cur \/ (a = cur /\ pc \in {"next", "drift", "hold", "prepare", "running"}) =>
        ~HasReference(a) /\ Last(a).state = "pending"

\* Only files that were started have a rollback reference in the journal, completed ones
\* all have, and on one path the first action has it first.
Referenced ==
  status # "none" =>
    \A a \in Action :
      /\ HasReference(a) => IsFile(a) /\ Started(a)
      /\ IsFile(a) /\ Last(a).state = "succeeded" => HasReference(a)
      /\ \A b \in Action : b < a /\ Target(b) = Target(a) /\ HasReference(a) => HasReference(b)

\* The loop leaves no file behind whose snapshot is not journaled, and changes none
\* before it is.
Passed ==
  /\ pc \in Looping \cup Failing \cup Undoing =>
       \A a \in Action : a < cur /\ IsFile(a) => HasReference(a)
  /\ pc \in {"mutate", "verify", "commit", "return"} /\ IsFile(cur) => HasReference(cur)

Journals == Unreached /\ Referenced /\ Passed

\* The completed actions are files of the loop, latest first, with every earlier action
\* on their path among them; while the loop goes on, they are all it has left behind.
Stack ==
  /\ \A i \in DOMAIN stack :
       /\ IsFile(stack[i].action) /\ HasReference(stack[i].action)
       /\ pc \in Looping \cup Failing \cup Undoing => stack[i].action < cur
       /\ \A k \in DOMAIN stack : i < k => stack[i].action > stack[k].action
       /\ \A a \in Action : a < stack[i].action /\ Target(a) = Target(stack[i].action)
             => Stacked(a)
  /\ pc \in Looping \cup Failing \cup Undoing =>
       \A a \in Action : a < cur /\ IsFile(a) => Stacked(a)
  /\ pc = "unjournal" => stack # <<>>

\* Before the run there is no journal and the files are as the user has them.
Fresh == status = "none" => pc = "idle" /\ file = before /\ \A a \in Action : journal[a] = <<>>

\* A process that works on the run has the snapshots it relies on.
Kept == pc \in Working => \A a \in Action : Relied(a) => snap[a] # "missing"

\* A path without a journaled snapshot is as the user has it.
Untouched ==
  Open =>
    \A p \in Path :
      (\A a \in Action : Target(a) = p => ~HasReference(a)) => file[p] = before[p]

\* The first snapshot of a path is what the user had there.
Saved == pc \in Working => \A a \in Action : First(a) /\ Relied(a) => snap[a] = before[Target(a)]

\* So it is in a run nobody works on, or the user has put that content back and then edited
\* the file, which makes the inspection of a recovery refuse.
Aside ==
  pc \in {"idle", "discard", "close"} /\ Open /\ ~Discarded =>
    \A a \in Action : First(a) /\ HasReference(a) =>
      \/ snap[a] = before[Target(a)]
      \/ /\ file[Target(a)] = before[Target(a)]
         /\ file[Target(a)] \in {"edited", Base(plan, Target(a))}

\* The first action on a path is prepared over what the user has there.
Clean == pc = "prepare" /\ First(cur) => file[Target(cur)] = before[Target(cur)]

\* An edited file the run relies on a snapshot of is in one.
EditSaved ==
  pc \in Working =>
    \A p \in Path : file[p] = "edited" /\ (\E a \in Action : Target(a) = p /\ Relied(a)) =>
      \E a \in Action : Target(a) = p /\ snap[a] = "edited"

Files == Fresh /\ Kept /\ Untouched /\ Saved /\ Aside /\ Clean /\ EditSaved

\* The action in hand is as the plan intends it from its verification to its return.
Verified == pc \in {"verify", "commit", "return"} => Holds(cur)

\* The loop leaves behind only files that are as the last action on their path intends.
Done ==
  pc \in Looping \/ (pc = "complete" /\ result = "verified") =>
    \A a \in Action : a < cur \/ pc = "complete" =>
      Kind(a) \notin {"human", "drift"} /\ (Final(a) => file[Target(a)] = Intended(a))

\* A failed action whose inverse succeeded leaves its path as the user had it.
Undone ==
  pc \in {"fail", "disown"} /\ failedRollbacks = {} /\ First(cur) => file[Target(cur)] = before[Target(cur)]

\* A path the failed run reached is as the user had it, or still to be rolled back.
Unwinds ==
  pc \in Unwinding \cup Ending /\ result = "failed" /\ failedRollbacks = {} =>
    \A a \in Action : First(a) /\ (mode = "run" \/ a <= cur) =>
      file[Target(a)] = before[Target(a)] \/ Stacked(a)

\* A rollback is journaled once the first action of its path is undone on disk.
Reinstated ==
  pc = "unjournal" => \A a \in Action : a = stack[1].action /\ First(a) => file[Target(a)] = before[Target(a)]

Progress == Verified /\ Done /\ Undone /\ Unwinds /\ Reinstated

\* The inductive invariant.
IInv == TypeOK /\ Control /\ Journals /\ Stack /\ Files /\ Progress /\ ConvergedIsDesired /\ FailureRestoresFiles

\* The elements of a sequence.
LEMMA Elements ==
  ASSUME NEW S, NEW s \in Seq(S) PROVE Len(s) \in Nat /\ DOMAIN s = 1..Len(s) /\ \A i \in 1..Len(s) : s[i] \in S
OBVIOUS

\* What the assumption on the plans says of the plan of the run.
LEMMA PlanFacts ==
  ASSUME plan \in Plans
  PROVE  /\ plan \in Seq([kind : ActionKinds, path : Path, owned : BOOLEAN])
         /\ Len(plan) \in Nat \ {0} /\ Action = 1..Len(plan)
         /\ \A a \in Action : plan[a] \in [kind : ActionKinds, path : Path, owned : BOOLEAN]
         /\ \A a \in Action : Kind(a) \in ActionKinds /\ Target(a) \in Path
         /\ \A a \in Action : Kind(a) = "remove" => plan[a].owned
<1>1. plan \in Seq([kind : ActionKinds, path : Path, owned : BOOLEAN]) /\ WellFormed(plan)
  BY ConstantsAssumption
<1>2. Len(plan) \in Nat \ {0} /\ DOMAIN plan = 1..Len(plan)
  BY <1>1, Elements DEF WellFormed
<1>3. \A a \in 1..Len(plan) : plan[a] \in [kind : ActionKinds, path : Path, owned : BOOLEAN]
  BY <1>1, Elements
<1>4. \A a \in 1..Len(plan) : plan[a].kind = "remove" => plan[a].owned
  BY <1>1 DEF WellFormed
<1>5. \A a \in DOMAIN plan :
        plan[a].kind \in ActionKinds /\ plan[a].path \in Path
  BY <1>2, <1>3
<1> QED
  BY <1>1, <1>2, <1>3, <1>4, <1>5 DEF Action, Kind, Target

\* A path has one action, or a removal and the write that takes it over.
LEMMA Pairs ==
  ASSUME plan \in Plans, NEW a \in Action, NEW b \in Action, a < b, Target(a) = Target(b)
  PROVE  /\ Kind(a) = "remove" /\ Kind(b) = "write" /\ ~plan[b].owned
         /\ First(a) /\ Final(b) /\ ~Final(a) /\ ~First(b)
<1>1. \A c, d \in Action : c < d /\ Target(c) = Target(d) =>
        Kind(c) = "remove" /\ Kind(d) = "write" /\ ~plan[d].owned
  BY ConstantsAssumption, PlanFacts DEF WellFormed, Action, Kind, Target
<1>2. Action \subseteq Nat
  BY PlanFacts
<1> QED
  BY <1>1, <1>2 DEF First, Final, IsFile

\* What an event appended to the journal of an action changes.
LEMMA Journaled ==
  ASSUME TypeOK, status # "none", NEW a \in Action, NEW e \in Events, Journal(a, e), UNCHANGED plan
  PROVE  /\ journal' \in [Action -> Seq(Events)]
         /\ \A b \in Action : journal'[b] # <<>>
         /\ HasReference(a)' <=> HasReference(a) \/ e.ref
         /\ Last(a)' = e
         /\ \A b \in Action : b # a => journal'[b] = journal[b]
<1>1. journal \in [Action -> Seq(Events)] /\ journal[a] \in Seq(Events)
  BY DEF TypeOK, JournalType
<1>2. journal' = [journal EXCEPT ![a] = Append(journal[a], e)]
  BY DEF Journal
<1>3. Append(journal[a], e) \in Seq(Events)
  BY <1>1
<1>4. journal' \in [Action -> Seq(Events)] /\ journal'[a] = Append(journal[a], e)
  BY <1>1, <1>2, <1>3
<1>5. Len(journal'[a]) = Len(journal[a]) + 1 /\ journal'[a][Len(journal'[a])] = e
      /\ \A i \in 1..Len(journal[a]) : journal'[a][i] = journal[a][i]
  BY <1>1, <1>4
<1>6. HasReference(a)' <=> HasReference(a) \/ e.ref
  <2>1. DOMAIN journal[a] = 1..Len(journal[a]) /\ DOMAIN journal'[a] = 1..(Len(journal[a]) + 1)
    BY <1>1, <1>4, <1>5
  <2>2. Len(journal[a]) \in Nat
    BY <1>1
  <2> QED
    BY SMTT(30), <1>5, <2>1, <2>2 DEF HasReference
<1>7. \A b \in Action : b # a => journal'[b] = journal[b]
  BY <1>1, <1>2
<1>8. \A b \in Action : journal'[b] # <<>>
  BY <1>1, <1>4, <1>5, <1>7 DEF TypeOK, JournalType
<1> QED
  BY <1>4, <1>5, <1>6, <1>7, <1>8 DEF Last

\* An action whose journal does not change keeps what is derived from it.
LEMMA SameJournal ==
  ASSUME NEW a, journal'[a] = journal[a]
  PROVE  (HasReference(a)' <=> HasReference(a)) /\ Last(a)' = Last(a) /\ (Started(a)' <=> Started(a))
BY DEF HasReference, Last, Started

\* A sequence of one element.
LEMMA Single ==
  ASSUME NEW S, NEW x \in S PROVE <<x>> \in Seq(S) /\ Len(<<x>>) = 1 /\ <<x>>[1] = x
OBVIOUS

\* A sequence with one more element in front.
LEMMA Pushed ==
  ASSUME NEW S, NEW s \in Seq(S), NEW x \in S, NEW t, t = <<x>> \o s
  PROVE  /\ t \in Seq(S) /\ Len(t) = Len(s) + 1 /\ DOMAIN t = 1..(Len(s) + 1)
         /\ t[1] = x /\ \A i \in 1..Len(s) : t[i + 1] = s[i]
OBVIOUS

\* A sequence without its first element.
LEMMA Popped ==
  ASSUME NEW S, NEW s \in Seq(S), s # <<>>
  PROVE  /\ Tail(s) \in Seq(S) /\ Len(s) \in Nat \ {0} /\ Len(Tail(s)) = Len(s) - 1
         /\ DOMAIN s = 1..Len(s) /\ DOMAIN Tail(s) = 1..(Len(s) - 1)
         /\ Head(s) = s[1] /\ Head(s) \in S
         /\ \A i \in 1..(Len(s) - 1) : Tail(s)[i] = s[i + 1]
OBVIOUS

\* A nonempty set of indices has a greatest one.
LEMMA Greatest ==
  ASSUME NEW n \in Nat, NEW T \in SUBSET (1..n), T # {}
  PROVE  \E m \in T : \A k \in T : k <= m
<1> DEFINE D == {n - i : i \in T}
<1>1. D \subseteq Nat /\ \A i \in T : n - i \in D
  OBVIOUS
<1>2. \A d \in D : n - d \in T
  OBVIOUS
<1> HIDE DEF D
<1>0. D # {}
  BY <1>1
<1>3. PICK d \in D : \A e \in D : <<e, d>> \notin OpToRel(<, Nat)
  BY <1>0, <1>1, WFMin, NatLessThanWellFounded, Zenon
<1>4. \A e \in D : ~(e < d)
  BY <1>1, <1>3, Zenon DEF OpToRel
<1>5. \A i \in T : ~(n - i < d)
  BY <1>1, <1>4
<1> QED
  BY <1>1, <1>2, <1>5

\* The record a recovery knows an action had.
LEMMA KnownType ==
  ASSUME TypeOK, NEW a \in Action PROVE Known(a) \in Records
<1> DEFINE j == journal[a]
           kept == {i \in DOMAIN j : j[i].was # "none"}
<1>1. j \in Seq(Events) /\ record[a] \in Records
  BY DEF TypeOK, JournalType
<1>2. Len(j) \in Nat /\ kept \subseteq 1..Len(j) /\ \A i \in kept : j[i] \in Events
  BY <1>1, Elements
<1>3. CASE kept = {}
  BY <1>1, <1>3 DEF Known
<1>4. CASE kept # {}
  <2>1. \E m \in kept : \A k \in kept : k <= m
    BY <1>2, <1>4, Greatest
  <2>2. (CHOOSE i \in kept : \A k \in kept : k <= i) \in kept
    BY <2>1
  <2> QED
    BY <1>2, <1>4, <2>2 DEF Known, Events
<1> QED
  BY <1>3, <1>4

\* What the types of the next state rest on; the invariant below implies it.
Grounded ==
  /\ pc \in Working => status # "none"
  /\ pc \in Working /\ Reference => snap[cur] # "missing"
  /\ pc \in Working /\ mode = "recover" /\ HasReference(cur) => snap[cur] # "missing"
  /\ \A i \in DOMAIN stack : pc \in Working => snap[stack[i].action] # "missing"
  /\ pc = "unjournal" => stack # <<>>
  /\ pc = "hold" => Kind(cur) \in {"human", "drift"}
  /\ pc = "skip" => cur < Len(plan)
  /\ pc = "disown" => owner # "unknown"
  /\ pc = "return" => owner # "unknown"
  /\ pc = "close" => status # "none"

\* No step changes the plan.
LEMMA PlanFixed == ASSUME Next PROVE plan' = plan
BY DEF Next, ProcessStep, ExecutorStep, RecoveryStep, StopStep, AbandonStep, Start, Take, RecordDrift,
  Hold, Prepare, JournalRunning, Mutate, Verify, Commit, Return, Undo, Fail, Disown, Unwind, Unjournal,
  Unwound, Skip, Complete, Cleanup, TakeSkipped, TakeInstall, KeepRemoved, KeepWritten, Redo,
  RedoRemoved, RedoWritten, RedoStarted, InterruptedUndo, InterruptedJournal, Interrupted,
  Discard, Close, Recover, Abandon, Crash, Interrupt, UserEdit, runVars

\* The steps a process is moved by keep its type.
LEMMA GotoType ==
  ASSUME TypeOK, plan' = plan, NEW to \in Steps, Goto(to) PROVE ProcessType'
BY DEF TypeOK, ProcessType, Goto, Action, Pushes

\* A command that starts keeps the type of the process.
LEMMA EnterType ==
  ASSUME TypeOK, plan' = plan, NEW to \in Steps,
         NEW command \in {"none", "run", "recover", "abandon"}, Enter(command, to)
  PROVE ProcessType'
<1>1. 1 \in Action /\ <<>> \in Seq(Pushes)
  BY PlanFacts DEF TypeOK, RunType
<1> QED
  BY <1>1 DEF TypeOK, ProcessType, Enter, Action, Pushes

\* An action that is taken in hand keeps it.
LEMMA ExecuteType ==
  ASSUME TypeOK, plan' = plan, NEW n \in Nat, NEW own \in Records \cup {"unknown"},
         Execute(cur, n, own)
  PROVE ProcessType'
<1>1. pc' \in Steps
  BY DEF Execute, Entry, Steps
<1> QED
  BY <1>1 DEF TypeOK, ProcessType, Execute, Action, Pushes

\* A loop that is left keeps it.
LEMMA FinishType ==
  ASSUME TypeOK, plan' = plan, NEW res \in {"verified", "failed", "human", "drift"},
         Finish(res), stack' \in Seq(Pushes)
  PROVE ProcessType'
<1>1. cur' \in Action
  BY PlanFacts DEF TypeOK, RunType, ProcessType, Finish
<1>2. pc' \in Steps
  BY DEF Finish, Steps, AfterBreak
<1> QED
  BY <1>1, <1>2 DEF TypeOK, ProcessType, Finish, Action, Pushes

\* A completed action keeps the type of the stack.
LEMMA PushType ==
  ASSUME TypeOK, NEW a \in Action, NEW n \in Nat, NEW prev \in Records, Push(a, n, prev)
  PROVE  stack' \in Seq(Pushes)
<1>1. [action |-> a, attempt |-> n, prev |-> prev] \in Pushes /\ stack \in Seq(Pushes)
  BY DEF Pushes, TypeOK, ProcessType
<1> QED
  BY <1>1, Pushed DEF Push

\* The last event of a journal.
LEMMA LastType ==
  ASSUME TypeOK, status # "none", NEW a \in Action
  PROVE  Last(a) \in Events /\ Last(a).state \in States /\ NextAttempt(a) \in Nat /\ Last(a).was \in Records
<1>1. journal[a] \in Seq(Events) /\ journal[a] # <<>>
  BY DEF TypeOK, JournalType
<1>2. Last(a) \in Events
  BY <1>1 DEF Last
<1> QED
  BY <1>2 DEF NextAttempt, Events

\* The bounds count numbers of steps.
LEMMA CountTypeKeeps == ASSUME TypeOK, Next PROVE CountType'
<1>1. ASSUME NEW kind, Fault(kind) PROVE CountType'
  BY <1>1 DEF TypeOK, CountType, Fault
<1>2. ASSUME UNCHANGED envVars PROVE CountType'
  BY <1>2 DEF TypeOK, CountType, envVars
<1>3. CASE Crash
  BY <1>3 DEF TypeOK, CountType, Crash
<1>4. CASE Interrupt
  BY <1>4 DEF TypeOK, CountType, Interrupt
<1>5. ASSUME NEW p \in Path, UserEdit(p) PROVE CountType'
  BY <1>5 DEF TypeOK, CountType, UserEdit
<1> QED
  BY <1>1, <1>2, <1>3, <1>4, <1>5 DEF Next, ProcessStep, ExecutorStep, RecoveryStep, StopStep,
  AbandonStep, Start, Take, RecordDrift,
  Hold, Prepare, JournalRunning, Mutate, Verify, Commit, Return, Undo, Fail, Disown, Unwind, Unjournal,
  Unwound, Skip, Complete, Cleanup, TakeSkipped, TakeInstall, KeepRemoved, KeepWritten,
  RedoRemoved, RedoWritten, RedoStarted, InterruptedUndo, InterruptedJournal, Interrupted,
  Discard, Close, Recover, Abandon

\* The run keeps its type.
LEMMA RunTypeKeeps == ASSUME TypeOK, Next PROVE RunType'
<1>1. plan' \in Plans
  BY PlanFixed DEF TypeOK, RunType
<1>2. Outcome \in Terminal
  BY DEF Outcome, Terminal
<1> QED
  BY <1>1, <1>2 DEF TypeOK, RunType, Next, ProcessStep, ExecutorStep, RecoveryStep, StopStep,
      AbandonStep, Start, Take, RecordDrift,
  Hold, Prepare, JournalRunning, Mutate, Verify, Commit, Return, Undo, Fail, Disown, Unwind, Unjournal,
  Unwound, Skip, Complete, Cleanup, TakeSkipped, TakeInstall, KeepRemoved, KeepWritten, Redo,
  RedoRemoved, RedoWritten, RedoStarted, InterruptedUndo, InterruptedJournal, Interrupted,
  Discard, Close, Recover, Abandon, Crash, Interrupt, UserEdit, runVars

\* So does the machine: a snapshot is put back only where there is one.
LEMMA DiskTypeKeeps == ASSUME TypeOK, Grounded, Next PROVE DiskType'
<1> USE DEF runVars, diskVars, procVars, envVars, vars
<1>1. /\ Action' = Action /\ cur \in Action
      /\ \A a \in Action : Target(a) \in Path
  BY PlanFixed, PlanFacts DEF Action, TypeOK, RunType, ProcessType
<1>2. ASSUME UNCHANGED <<file, before, snap, tool>> PROVE DiskType'
  BY <1>1, <1>2 DEF TypeOK, DiskType
<1>3. ASSUME NEW a \in Action, snap[a] # "missing", Restore(a), UNCHANGED <<before, snap, tool>>
      PROVE  DiskType'
  BY <1>1, <1>3 DEF TypeOK, DiskType, Restore
<1>4. CASE Prepare
  BY <1>1, <1>2, <1>4 DEF Prepare, Fault, TypeOK, DiskType
<1>5. CASE Mutate
  BY <1>1, <1>2, <1>5 DEF Mutate, Fault, Apply, Intended, Contents, TypeOK, DiskType
<1>6. CASE Undo
  BY <1>1, <1>2, <1>3, <1>6 DEF Undo, Fault, Grounded, Working, Failing
<1>7. CASE InterruptedUndo
  BY <1>1, <1>2, <1>3, <1>7 DEF InterruptedUndo, Fault, Grounded, Working, Undoing
<1>8. CASE Unwind
  <2>1. stack # <<>> => Top \in Pushes /\ 1 \in DOMAIN stack /\ Top = stack[1]
    BY Popped DEF TypeOK, ProcessType, Top
  <2>2. stack # <<>> => Top.action \in Action
    BY <2>1 DEF Pushes
  <2> QED
    BY <1>2, <1>3, <1>8, <2>1, <2>2 DEF Unwind, Fault, Grounded, Working, Unwinding
<1>9. ASSUME NEW own, Redo(own), pc = "next", mode = "recover", UNCHANGED before PROVE DiskType'
  BY <1>1, <1>2, <1>3, <1>9 DEF Redo, Grounded, Working, Looping
<1>10. CASE Cleanup \/ Discard
  BY <1>1, <1>10 DEF Cleanup, Discard, TypeOK, DiskType
<1>11. ASSUME NEW p \in Path, UserEdit(p) PROVE DiskType'
  BY <1>1, <1>11 DEF UserEdit, Base, Contents, TypeOK, DiskType
<1> QED
  BY <1>2, <1>4, <1>5, <1>6, <1>7, <1>8, <1>9, <1>10, <1>11
  DEF Next, ProcessStep, ExecutorStep, RecoveryStep, StopStep,
  AbandonStep, Start, Take, RecordDrift, Fault, Taking,
  Hold, JournalRunning, Verify, Commit, Return, Fail, Disown, Unjournal,
  Unwound, Skip, Complete, TakeSkipped, TakeInstall, KeepRemoved, KeepWritten,
  RedoRemoved, RedoWritten, RedoStarted, InterruptedJournal, Interrupted,
  Close, Recover, Abandon, Crash, Interrupt

\* So do the journal and the records.
LEMMA JournalTypeKeeps == ASSUME TypeOK, Grounded, Next PROVE JournalType'
<1> USE DEF runVars, diskVars, procVars, envVars, vars
<1>1. /\ Action' = Action /\ cur \in Action /\ Action = 1..Len(plan) /\ plan' = plan
      /\ \A a \in Action : Applied(a) \in Records /\ Prior(a) \in Records /\ Known(a) \in Records
      /\ attempt \in Nat /\ Reference \in BOOLEAN
  BY PlanFixed, PlanFacts, KnownType DEF Action, TypeOK, RunType, ProcessType, Records, Applied,
      Prior, Reference
<1>2. ASSUME UNCHANGED <<journal, record>>, status' # "none" => status # "none" PROVE JournalType'
  BY <1>1, <1>2 DEF TypeOK, JournalType
<1>3. ASSUME NEW a \in Action, NEW e \in Events, Journal(a, e), status # "none", record' \in [Action -> Records]
      PROVE  JournalType'
  BY <1>1, <1>3, Journaled DEF JournalType
<1>4. \A s \in States, n \in Nat, r \in BOOLEAN, w \in Records : Event(s, n, r, w) \in Events
  BY DEF Event, Events
<1>5. record \in [Action -> Records] /\ "none" \in Records /\ FALSE \in BOOLEAN /\ TRUE \in BOOLEAN
  BY DEF TypeOK, JournalType, Records
<1>6. CASE Start
  <2>1. <<Event("pending", 0, FALSE, "none")>> \in Seq(Events)
    BY Single DEF Event, Events, States, Records
  <2> QED
    BY <1>1, <1>5, <1>6, <2>1 DEF Start, JournalType
<1>7. CASE Hold
  BY <1>1, <1>2, <1>3, <1>4, <1>5, <1>7 DEF Hold, Grounded, Working, Looping, States
<1>8. CASE JournalRunning
  BY <1>1, <1>2, <1>3, <1>4, <1>5, <1>8 DEF JournalRunning, Grounded, Working, Looping, States
<1>9. CASE Commit
  BY <1>1, <1>2, <1>3, <1>4, <1>5, <1>9 DEF Commit, Grounded, Working, Looping, States
<1>10. CASE Fail
  BY <1>1, <1>2, <1>3, <1>4, <1>5, <1>10 DEF Fail, Grounded, Working, Failing, States
<1>11. CASE Disown
  <2>1. owner \in Records /\ attempt \in Nat
    BY <1>11 DEF Disown, Grounded, TypeOK, ProcessType
  <2>2. record' \in [Action -> Records]
    BY <1>1, <1>5, <1>11, <2>1 DEF Disown
  <2> QED
    BY <1>1, <1>3, <1>4, <1>5, <1>11, <2>1, <2>2 DEF Disown, Grounded, Working, Failing, States
<1>12. CASE Unjournal
  <2>1. Top \in Pushes
    BY <1>12, Popped DEF TypeOK, ProcessType, Top, Unjournal, Grounded
  <2>2. Top.action \in Action /\ Top.attempt \in Nat /\ Top.prev \in Records
    BY <2>1 DEF Pushes
  <2>3. record' \in [Action -> Records]
    BY <1>1, <1>5, <1>12, <2>2 DEF Unjournal
  <2> QED
    BY <1>1, <1>2, <1>3, <1>4, <1>5, <1>12, <2>2, <2>3 DEF Unjournal, Grounded, Working, Unwinding,
        States
<1>13. CASE Skip
  <2>1. cur + 1 \in Action
    BY <1>1, <1>13 DEF Skip, Grounded
  <2> QED
    BY <1>1, <1>2, <1>3, <1>4, <1>5, <1>13, <2>1 DEF Skip, Grounded, Working, Ending, States
<1>14. CASE Complete
  <2>1. record' \in [Action -> Records]
    BY <1>1, <1>5, <1>14 DEF Complete, FinalRecords
  <2> QED
    BY <1>1, <1>14, <2>1 DEF Complete, Outcome, Grounded, Working, Ending, TypeOK, JournalType
<1>15. CASE TakeInstall
  BY <1>1, <1>2, <1>3, <1>4, <1>5, <1>15, LastType
  DEF TakeInstall, Taking, Grounded, Working, Looping, States
<1>16. CASE InterruptedJournal
  BY <1>1, <1>2, <1>3, <1>4, <1>5, <1>16 DEF InterruptedJournal, Grounded, Working, Undoing, States
<1>17. CASE Interrupted
  BY <1>2, <1>17 DEF Interrupted, Grounded, Working
<1>18. CASE Close
  BY <1>2, <1>18 DEF Close, Grounded
<1> QED
  BY <1>2, <1>6, <1>7, <1>8, <1>9, <1>10, <1>11, <1>12, <1>13, <1>14, <1>15, <1>16, <1>17, <1>18
  DEF Next, ProcessStep, ExecutorStep, RecoveryStep, StopStep, AbandonStep, Take, RecordDrift,
  Prepare, Mutate, Verify, Return, Undo, Unwind, Unwound, Cleanup, TakeSkipped, KeepRemoved,
  KeepWritten, Redo, RedoRemoved, RedoWritten, RedoStarted, InterruptedUndo, Discard, Recover,
  Abandon, Crash, Interrupt, UserEdit

\* So does the process.
LEMMA ProcessTypeKeeps == ASSUME TypeOK, Grounded, Next PROVE ProcessType'
<1> USE DEF procVars
<1>1. /\ Action' = Action /\ cur \in Action /\ Action = 1..Len(plan) /\ plan' = plan
      /\ Pushes' = Pushes
  BY PlanFixed, PlanFacts DEF Action, TypeOK, RunType, ProcessType, Pushes
<1>2. ASSUME UNCHANGED procVars PROVE ProcessType'
  BY <1>1, <1>2 DEF TypeOK, ProcessType
<1>3. ASSUME NEW to \in Steps, Goto(to) PROVE ProcessType'
  BY <1>1, <1>3, GotoType
<1>4. ASSUME NEW command \in {"none", "run", "recover", "abandon"}, NEW to \in Steps, Enter(command, to)
      PROVE  ProcessType'
  BY <1>1, <1>4, EnterType
<1>5. ASSUME NEW n \in Nat, NEW own \in Records \cup {"unknown"}, Execute(cur, n, own) PROVE ProcessType'
  BY <1>1, <1>5, ExecuteType
<1>6. ASSUME NEW res \in {"verified", "failed", "human", "drift"}, Finish(res), stack' \in Seq(Pushes)
      PROVE  ProcessType'
  BY <1>1, <1>6, FinishType
<1>7. ASSUME UNCHANGED stack PROVE stack' \in Seq(Pushes)
  BY <1>7 DEF TypeOK, ProcessType
<1>8. ASSUME status # "none"
      PROVE Last(cur).was \in Records /\ NextAttempt(cur) \in Nat
  BY <1>1, <1>8, LastType
<1>9. CASE Start \/ Recover \/ Abandon \/ Crash \/ Interrupted \/ Close \/ Cleanup
  BY <1>4, <1>9 DEF Start, Recover, Abandon, Crash, Interrupted, Close, Cleanup, Steps
<1>10. CASE Mutate \/ Verify \/ InterruptedUndo \/ InterruptedJournal \/ Interrupt \/ Discard \/ Complete
  BY <1>3, <1>10 DEF Mutate, Verify, InterruptedUndo, InterruptedJournal, Interrupt, Discard,
      Complete, Steps
<1>11. CASE JournalRunning \/ Unwound
  BY <1>3, <1>11 DEF JournalRunning, Unwound, AfterBreak, Steps
<1>12. CASE Take
  BY <1>5, <1>12 DEF Take
<1>13. CASE RecordDrift
  BY <1>3, <1>6, <1>7, <1>13 DEF RecordDrift, Steps
<1>14. CASE Hold
  BY <1>6, <1>7, <1>14 DEF Hold, Grounded
<1>15. CASE Prepare
  BY <1>1, <1>3, <1>15 DEF Prepare, TypeOK, ProcessType, Steps
<1>16. CASE Commit
  BY <1>1, <1>3, <1>16, KnownType DEF Commit, TypeOK, ProcessType, Steps
<1>17. CASE Return
  <2>1. IsFile(cur) => owner \in Records
    BY <1>17 DEF Return, Grounded, TypeOK, ProcessType
  <2>2. stack' \in Seq(Pushes)
    BY <1>1, <1>7, <1>17, <2>1, PushType DEF Return, TypeOK, ProcessType
  <2> QED
    BY <1>6, <1>17, <2>2 DEF Return
<1>18. CASE Undo
  BY <1>1, <1>3, <1>18 DEF Undo, TypeOK, ProcessType, Steps
<1>19. CASE Fail \/ Disown
  BY <1>3, <1>6, <1>7, <1>19 DEF Fail, Disown, Steps
<1>20. CASE Unwind
  <2>1. stack # <<>> => Top \in Pushes /\ Tail(stack) \in Seq(Pushes)
    BY Popped DEF TypeOK, ProcessType, Top
  <2>2. stack # <<>> => Top.action \in Action
    BY <2>1 DEF Pushes
  <2> QED
    BY <1>1, <1>3, <1>20, <2>1, <2>2 DEF Unwind, TypeOK, ProcessType, Steps
<1>21. CASE Unjournal
  <2>1. Tail(stack) \in Seq(Pushes)
    BY <1>21, Popped DEF TypeOK, ProcessType, Unjournal, Grounded
  <2> QED
    BY <1>1, <1>21, <2>1 DEF Unjournal, TypeOK, ProcessType, Steps
<1>22. CASE Skip
  BY <1>1, <1>22 DEF Skip, Grounded, TypeOK, ProcessType, Steps
<1>23. CASE TakeSkipped \/ TakeInstall
  BY <1>6, <1>7, <1>23 DEF TakeSkipped, TakeInstall
<1>24. CASE KeepRemoved \/ KeepWritten
  <2>1. status # "none"
    BY <1>24 DEF KeepRemoved, KeepWritten, Taking, Grounded, Working, Looping
  <2>2. stack' \in Seq(Pushes)
    BY <1>1, <1>8, <1>24, <2>1, PushType DEF KeepRemoved, KeepWritten
  <2> QED
    BY <1>6, <1>24, <2>2 DEF KeepRemoved, KeepWritten
<1>25. CASE RedoRemoved \/ RedoWritten \/ RedoStarted
  <2>1. status # "none"
    BY <1>25 DEF RedoRemoved, RedoWritten, RedoStarted, Taking, Grounded, Working, Looping
  <2> QED
    BY <1>5, <1>8, <1>25, <2>1 DEF RedoRemoved, RedoWritten, RedoStarted, Redo
<1> QED
  BY <1>2, <1>9, <1>10, <1>11, <1>12, <1>13, <1>14, <1>15, <1>16, <1>17, <1>18, <1>19, <1>20,
     <1>21, <1>22, <1>23, <1>24, <1>25
  DEF Next, ProcessStep, ExecutorStep, RecoveryStep, StopStep, AbandonStep, UserEdit

\* Every variable keeps its type.
LEMMA TypeKeeps == ASSUME TypeOK, Grounded, Next PROVE TypeOK'
BY RunTypeKeeps, JournalTypeKeeps, DiskTypeKeeps, ProcessTypeKeeps, CountTypeKeeps DEF TypeOK

\* Every step goes where the code goes next.
LEMMA ControlKeeps == ASSUME TypeOK, Control, Next PROVE Control'
<1> USE DEF Control, runVars, diskVars, procVars, envVars, Enter, Goto, Fault, Finish, Execute, AfterBreak,
      Looping, Failing, Undoing, Unwinding, Ending, Working, Prepared, Open, Terminal, IsFile
<1>1. /\ Action = 1..Len(plan) /\ Len(plan) \in Nat \ {0} /\ cur \in Action /\ plan' = plan
      /\ \A a \in Action : Kind(a)' = Kind(a) /\ Kind(a) \in ActionKinds
      /\ pc \in Steps /\ ready \in BOOLEAN
  BY PlanFixed, PlanFacts DEF TypeOK, RunType, ProcessType, Kind
<1>2. Known(cur) # "unknown" /\ (status # "none" => Last(cur).was # "unknown")
  BY <1>1, KnownType, LastType DEF Records
<1>3. CASE Start
  BY <1>1, <1>2, <1>3 DEF Start
<1>4. CASE Take
  BY <1>1, <1>2, <1>4 DEF Take, Entry
<1>5. CASE RecordDrift
  BY <1>1, <1>2, <1>5 DEF RecordDrift
<1>6. CASE Hold
  <2>1. CASE Finish("failed")
    BY <1>1, <1>6, <2>1 DEF Hold
  <2>2. CASE Kind(cur) = "human" /\ Finish("human")
    BY <1>1, <1>6, <2>2 DEF Hold
  <2>3. CASE Kind(cur) = "drift" /\ Finish("drift")
    BY <1>1, <1>6, <2>3 DEF Hold
  <2> QED
    BY <1>6, <2>1, <2>2, <2>3 DEF Hold
<1>7. CASE Prepare
  BY <1>1, <1>2, <1>7 DEF Prepare
<1>8. CASE JournalRunning
  BY <1>1, <1>2, <1>8 DEF JournalRunning
<1>9. CASE Mutate
  BY <1>1, <1>2, <1>9 DEF Mutate
<1>10. CASE Verify
  BY <1>1, <1>2, <1>10 DEF Verify
<1>11. CASE Commit
  BY <1>1, <1>2, <1>11 DEF Commit
<1>12. CASE Return
  BY <1>1, <1>2, <1>12 DEF Return
<1>13. CASE Undo
  BY <1>1, <1>2, <1>13 DEF Undo
<1>14. CASE Fail
  BY <1>1, <1>2, <1>14 DEF Fail
<1>15. CASE Disown
  BY <1>1, <1>2, <1>15 DEF Disown
<1>16. CASE Unwind
  BY <1>1, <1>2, <1>16 DEF Unwind
<1>17. CASE Unjournal
  BY <1>1, <1>2, <1>17 DEF Unjournal
<1>18. CASE Unwound
  BY <1>1, <1>2, <1>18 DEF Unwound
<1>19. CASE Skip
  BY <1>1, <1>2, <1>19 DEF Skip
<1>20. CASE Complete
  BY <1>1, <1>2, <1>20 DEF Complete, Outcome
<1>21. CASE Cleanup
  BY <1>1, <1>2, <1>21 DEF Cleanup
<1>22. CASE TakeSkipped
  BY <1>1, <1>2, <1>22 DEF TakeSkipped, Taking
<1>23. CASE TakeInstall
  <2>1. CASE Finish("verified")
    BY <1>1, <1>23, <2>1 DEF TakeInstall, Taking
  <2>2. CASE Finish("human")
    BY <1>1, <1>23, <2>2 DEF TakeInstall, Taking
  <2> QED
    BY <1>23, <2>1, <2>2 DEF TakeInstall
<1>24. CASE KeepRemoved
  BY <1>1, <1>2, <1>24 DEF KeepRemoved, Taking
<1>25. CASE KeepWritten
  BY <1>1, <1>2, <1>25 DEF KeepWritten, Taking
<1>26. CASE RedoRemoved
  BY <1>1, <1>2, <1>26 DEF RedoRemoved, Taking, Redo, Entry
<1>27. CASE RedoWritten
  BY <1>1, <1>2, <1>27 DEF RedoWritten, Taking, Redo, Entry
<1>28. CASE RedoStarted
  BY <1>1, <1>2, <1>28 DEF RedoStarted, Taking, Redo, Entry
<1>29. CASE InterruptedUndo
  BY <1>1, <1>2, <1>29 DEF InterruptedUndo
<1>30. CASE InterruptedJournal
  BY <1>1, <1>2, <1>30 DEF InterruptedJournal
<1>31. CASE Interrupted
  BY <1>1, <1>2, <1>31 DEF Interrupted
<1>32. CASE Discard
  BY <1>1, <1>2, <1>32 DEF Discard
<1>33. CASE Close
  BY <1>1, <1>2, <1>33 DEF Close
<1>34. CASE Recover
  BY <1>1, <1>2, <1>34 DEF Recover
<1>35. CASE Abandon
  BY <1>1, <1>2, <1>35 DEF Abandon
<1>36. CASE Crash
  BY <1>1, <1>2, <1>36 DEF Crash
<1>37. CASE Interrupt
  BY <1>1, <1>2, <1>37 DEF Interrupt, InAction
<1>38. ASSUME NEW p \in Path, UserEdit(p) PROVE Control'
  BY <1>1, <1>38 DEF UserEdit
<1> QED
  BY <1>3, <1>4, <1>5, <1>6, <1>7, <1>8, <1>9, <1>10, <1>11, <1>12, <1>13, <1>14, <1>15, <1>16,
      <1>17, <1>18, <1>19, <1>20, <1>21, <1>22, <1>23, <1>24, <1>25, <1>26, <1>27, <1>28, <1>29,
      <1>30, <1>31, <1>32, <1>33, <1>34, <1>35, <1>36, <1>37, <1>38
  DEF Next, ProcessStep, ExecutorStep, RecoveryStep, StopStep, AbandonStep

\* An event changes what is derived from the journal of its action alone.
LEMMA Writes ==
  ASSUME TypeOK, status # "none", plan' = plan, NEW a \in Action, NEW s \in States, NEW n \in Nat,
         NEW r \in BOOLEAN, NEW w \in Records, Journal(a, Event(s, n, r, w))
  PROVE  \A b \in Action :
           /\ HasReference(b)' <=> HasReference(b) \/ (b = a /\ r)
           /\ b = a => Last(b)' = Event(s, n, r, w) /\ Last(b)'.state = s
           /\ b # a => Last(b)' = Last(b)
<1>1. Event(s, n, r, w) \in Events /\ Event(s, n, r, w).ref = r /\ Event(s, n, r, w).state = s
  BY DEF Event, Events
<1> QED
  BY <1>1, Journaled, SameJournal

\* What an event without a reference changes.
LEMMA WritesBare ==
  ASSUME TypeOK, status # "none", plan' = plan, NEW a \in Action, NEW s \in States, NEW n \in Nat,
         NEW w \in Records, Journal(a, Event(s, n, FALSE, w))
  PROVE  \A b \in Action :
           /\ HasReference(b)' <=> HasReference(b)
           /\ b = a => Last(b)' = Event(s, n, FALSE, w) /\ Last(b)'.state = s
           /\ b # a => Last(b)' = Last(b)
<1>1. Event(s, n, FALSE, w) \in Events /\ Event(s, n, FALSE, w).ref = FALSE /\ Event(s, n, FALSE, w).state = s
  BY DEF Event, Events
<1> QED
  BY <1>1, Journaled, SameJournal

\* What an event with a reference changes.
LEMMA WritesReference ==
  ASSUME TypeOK, status # "none", plan' = plan, NEW a \in Action, NEW s \in States, NEW n \in Nat,
         NEW w \in Records, Journal(a, Event(s, n, TRUE, w))
  PROVE  \A b \in Action :
           /\ HasReference(b)' <=> HasReference(b) \/ b = a
           /\ b = a => Last(b)' = Event(s, n, TRUE, w) /\ Last(b)'.state = s
           /\ b # a => Last(b)' = Last(b)
<1>1. Event(s, n, TRUE, w) \in Events /\ Event(s, n, TRUE, w).ref = TRUE /\ Event(s, n, TRUE, w).state = s
  BY DEF Event, Events
<1> QED
  BY <1>1, Journaled, SameJournal

\* The journal keeps up with the loop, whichever process is in it.
LEMMA JournalsKeep == ASSUME TypeOK, Control, Journals, Stack, Next PROVE Journals'
<1> USE DEF Journals, Unreached, Referenced, Passed, runVars, diskVars, procVars, envVars, Enter, Goto, Fault, Finish, Execute, AfterBreak,
      Looping, Failing, Undoing, Unwinding, Ending, Working, Started, Open, Terminal
<1>1. /\ Action = 1..Len(plan) /\ Len(plan) \in Nat \ {0} /\ cur \in Action /\ plan' = plan
      /\ Action' = Action
      /\ \A a \in Action : /\ Kind(a)' = Kind(a) /\ Kind(a) \in ActionKinds /\ Target(a)' = Target(a)
                           /\ IsFile(a)' = IsFile(a)
      /\ pc \in Steps /\ ready \in BOOLEAN
  BY PlanFixed, PlanFacts DEF TypeOK, RunType, ProcessType, Kind, Target, IsFile, Action
<1>2. ASSUME UNCHANGED journal
      PROVE \A a \in Action : (HasReference(a)' <=> HasReference(a)) /\ Last(a)' = Last(a)
  BY <1>2, SameJournal
<1>3. \A a, b \in Action : b < a /\ Target(b) = Target(a) => IsFile(b)
  BY Pairs DEF TypeOK, RunType, IsFile
<1>4. /\ attempt \in Nat /\ Reference \in BOOLEAN /\ Known(cur) \in Records
      /\ "none" \in Records /\ TRUE \in BOOLEAN /\ FALSE \in BOOLEAN /\ 1 \in Nat
      /\ {"skipped", "running", "succeeded", "failed", "rolled-back"} \subseteq States
  BY <1>1, KnownType DEF TypeOK, ProcessType, Reference, Records, States
<1>5. CASE Start
  <2>1. \A a \in Action : journal'[a] = <<Event("pending", 0, FALSE, "none")>>
    BY <1>1, <1>5 DEF Start
  <2>2. \A a \in Action : ~HasReference(a)' /\ Last(a)'.state = "pending"
    BY <2>1 DEF HasReference, Last, Event
  <2> QED
    BY <1>1, <1>5, <2>2 DEF Start
<1>6. CASE Take
  BY <1>1, <1>2, <1>3, <1>6 DEF Take, Control, Entry
<1>7. CASE RecordDrift
  BY <1>1, <1>2, <1>3, <1>7 DEF RecordDrift, Control
<1>8. CASE Hold
  <2>1. CASE Fault("journal") /\ Finish("failed") /\ UNCHANGED journal
    BY <1>1, <1>2, <1>8, <2>1 DEF Hold, Control
  <2>2. CASE Journal(cur, Event("skipped", attempt, FALSE, "none")) /\ Finish(Kind(cur)) /\ UNCHANGED envVars
    <3>1. cur \in Action /\ status # "none"
      BY <1>1, <1>8 DEF Hold, Control
    <3>2. \A b \in Action :
            /\ HasReference(b)' <=> HasReference(b)
            /\ Last(b)'.state = IF b = cur THEN "skipped" ELSE Last(b).state
      BY <1>1, <1>4, <2>2, <3>1, WritesBare
    <3>3. pc = "hold" /\ pc' \in Ending /\ cur' = cur /\ ~IsFile(cur) /\ UNCHANGED <<status, mode>>
      BY <1>8, <2>2 DEF Hold, Control, IsFile
    <3>4. Unreached'
      BY <1>1, <3>1, <3>2, <3>3
    <3>5. Referenced'
      BY <1>1, <1>3, <3>1, <3>2, <3>3
    <3>6. Passed'
      BY <1>1, <3>1, <3>2, <3>3
    <3> QED
      BY <3>4, <3>5, <3>6
  <2> QED
    BY <1>8, <2>1, <2>2 DEF Hold
<1>9. CASE Prepare
  BY <1>1, <1>2, <1>3, <1>9 DEF Prepare, Control
<1>10. CASE JournalRunning
  <2>1. CASE Fault("journal") /\ Goto("undo") /\ UNCHANGED journal
    BY <1>1, <1>2, <1>10, <2>1 DEF JournalRunning, Control
  <2>2. CASE Journal(cur, Event("running", attempt, Reference, "none")) /\ Goto("mutate") /\ UNCHANGED envVars
    <3>1. cur \in Action /\ status # "none"
      BY <1>1, <1>10 DEF JournalRunning, Control
    <3>2. \A b \in Action :
            /\ HasReference(b)' <=> HasReference(b) \/ (b = cur /\ Reference)
            /\ Last(b)'.state = IF b = cur THEN "running" ELSE Last(b).state
      BY <1>1, <1>4, <2>2, <3>1, Writes
    <3>3. pc' = "mutate" /\ UNCHANGED <<status, mode, cur>> /\ (Reference <=> IsFile(cur))
      BY <1>10, <2>2 DEF JournalRunning, Control, Reference, Prepared
    <3>4. Unreached'
      BY <1>1, <1>10, <3>1, <3>2, <3>3 DEF JournalRunning
    <3>5. Referenced'
      BY <1>1, <1>3, <1>10, <3>1, <3>2, <3>3 DEF JournalRunning
    <3>6. Passed'
      BY <1>1, <1>10, <3>1, <3>2, <3>3 DEF JournalRunning
    <3> QED
      BY <3>4, <3>5, <3>6
  <2> QED
    BY <1>10, <2>1, <2>2 DEF JournalRunning
<1>11. CASE Mutate
  BY <1>1, <1>2, <1>3, <1>11 DEF Mutate, Control
<1>12. CASE Verify
  BY <1>1, <1>2, <1>3, <1>12 DEF Verify, Control
<1>13. CASE Commit
  <2>1. CASE Fault("journal") /\ Goto("undo") /\ UNCHANGED <<journal, record>>
    BY <1>1, <1>2, <1>13, <2>1 DEF Commit, Control
  <2>2. CASE Journal(cur, Event("succeeded", attempt, Reference, IF IsFile(cur) THEN Known(cur) ELSE "none")) /\ pc' = "return" /\ UNCHANGED <<mode, cur, attempt, ready, stack, failedRollbacks, result, envVars>>
    <3>1. cur \in Action /\ status # "none"
      BY <1>1, <1>13 DEF Commit, Control
    <3>2. \A b \in Action :
            /\ HasReference(b)' <=> HasReference(b) \/ (b = cur /\ Reference)
            /\ Last(b)'.state = IF b = cur THEN "succeeded" ELSE Last(b).state
      BY <1>1, <1>4, <2>2, <3>1, Writes
    <3>3. pc' = "return" /\ UNCHANGED <<status, mode, cur>> /\ (Reference <=> IsFile(cur)) /\ pc = "commit"
      BY <1>13, <2>2 DEF Commit, Control, Reference, Prepared
    <3>4. Unreached'
      BY <1>1, <3>1, <3>2, <3>3
    <3>5. Referenced'
      BY <1>1, <1>3, <3>1, <3>2, <3>3
    <3>6. Passed'
      BY <1>1, <3>1, <3>2, <3>3
    <3> QED
      BY <3>4, <3>5, <3>6
  <2> QED
    BY <1>13, <2>1, <2>2 DEF Commit
<1>14. CASE Return
  BY <1>1, <1>2, <1>3, <1>14 DEF Return, Control
<1>15. CASE Undo
  BY ZenonT(40), <1>1, <1>2, <1>3, <1>15 DEF Undo, Control
<1>16. CASE Fail
  <2>1. CASE UNCHANGED journal
    BY <1>1, <1>2, <1>16, <2>1 DEF Fail, Control
  <2>2. CASE Journal(cur, Event("failed", attempt, Reference, "none"))
    <3>1. cur \in Action /\ status # "none"
      BY <1>1, <1>16 DEF Fail, Control
    <3>2. \A b \in Action :
            /\ HasReference(b)' <=> HasReference(b) \/ (b = cur /\ Reference)
            /\ Last(b)'.state = IF b = cur THEN "failed" ELSE Last(b).state
      BY <1>1, <1>4, <2>2, <3>1, Writes
    <3> QED
      BY <1>1, <1>3, <1>16, <3>1, <3>2 DEF Fail, Control, Reference, Prepared
  <2> QED
    BY <1>16, <2>1, <2>2 DEF Fail
<1>17. CASE Disown
  <2>1. CASE UNCHANGED journal
    BY <1>1, <1>2, <1>17, <2>1 DEF Disown, Control
  <2>2. CASE Journal(cur, Event("rolled-back", attempt, FALSE, "none"))
    <3>1. cur \in Action /\ status # "none"
      BY <1>1, <1>17 DEF Disown, Control
    <3>2. \A b \in Action :
            /\ HasReference(b)' <=> HasReference(b)
            /\ Last(b)'.state = IF b = cur THEN "rolled-back" ELSE Last(b).state
      BY <1>1, <1>4, <2>2, <3>1, WritesBare
    <3> QED
      BY <1>1, <1>3, <1>17, <3>1, <3>2 DEF Disown, Control, Reference, Prepared
  <2> QED
    BY <1>17, <2>1, <2>2 DEF Disown
<1>18. CASE Unwind
  BY <1>1, <1>2, <1>3, <1>18 DEF Unwind, Control
<1>19. CASE Unjournal
  <2>1. CASE UNCHANGED journal
    BY <1>1, <1>2, <1>19, <2>1 DEF Unjournal, Control
  <2>2. CASE Journal(Top.action, Event("rolled-back", Top.attempt, TRUE, "none"))
    <3>0. Top = stack[1] /\ 1 \in DOMAIN stack /\ Top \in Pushes
      BY <1>19, Popped DEF Unjournal, Top, TypeOK, ProcessType, Stack
    <3>1. Top.action \in Action /\ status # "none" /\ Top.attempt \in Nat
      BY <1>1, <1>19, <3>0 DEF Unjournal, Control, Pushes
    <3>2. \A b \in Action :
            /\ HasReference(b)' <=> HasReference(b) \/ b = Top.action
            /\ Last(b)'.state = IF b = Top.action THEN "rolled-back" ELSE Last(b).state
      BY ZenonT(40), <1>1, <1>4, <2>2, <3>1, WritesReference
    <3>3. pc' = "unwind" /\ UNCHANGED <<status, mode, cur>> /\ HasReference(Top.action) /\ pc = "unjournal"
      BY <1>19, <3>0 DEF Unjournal, Stack
    <3> QED
      BY <1>1, <1>3, <3>1, <3>2, <3>3
  <2> QED
    BY <1>19, <2>1, <2>2 DEF Unjournal
<1>20. CASE Unwound
  BY <1>1, <1>2, <1>3, <1>20 DEF Unwound, Control
<1>21. CASE Skip
  <2>1. CASE UNCHANGED journal
    BY <1>1, <1>2, <1>21, <2>1 DEF Skip, Control
  <2>2. CASE Journal(cur + 1, Event("skipped", 1, FALSE, "none"))
    <3>1. cur + 1 \in Action /\ status # "none"
      BY <1>1, <1>21 DEF Skip, Control
    <3>2. \A b \in Action :
            /\ HasReference(b)' <=> HasReference(b)
            /\ Last(b)'.state = IF b = cur + 1 THEN "skipped" ELSE Last(b).state
      BY <1>1, <1>4, <2>2, <3>1, WritesBare
    <3> QED
      BY <1>1, <1>3, <1>21, <3>1, <3>2 DEF Skip, Control, Reference, Prepared
  <2> QED
    BY <1>21, <2>1, <2>2 DEF Skip
<1>22. CASE Complete
  BY <1>1, <1>2, <1>3, <1>22 DEF Complete, Control, Outcome
<1>23. CASE Cleanup
  BY <1>1, <1>2, <1>3, <1>23 DEF Cleanup, Control
<1>24. CASE TakeSkipped
  BY <1>1, <1>2, <1>3, <1>24 DEF TakeSkipped, Control, Taking
<1>25. CASE TakeInstall
  <2>1. status # "none" /\ NextAttempt(cur) \in Nat /\ ~IsFile(cur) /\ ~HasReference(cur)
    BY <1>1, <1>25, LastType DEF TakeInstall, Taking, Control, IsFile
  <2>2. CASE Fault("journal") /\ Finish("human") /\ UNCHANGED journal
    BY <1>1, <1>2, <1>25, <2>1, <2>2 DEF TakeInstall, Taking, Control
  <2>3. ASSUME NEW s \in {"succeeded", "skipped"}, Journal(cur, Event(s, NextAttempt(cur), FALSE, "none"))
        PROVE  Journals'
    <3>0. s \in States /\ cur \in Action /\ plan' = plan
      BY <1>1, <1>4, <2>3
    <3>1. \A b \in Action : (HasReference(b)' <=> HasReference(b)) /\ (b # cur => Last(b)' = Last(b))
      BY <1>4, <2>1, <2>3, <3>0, WritesBare
    <3>2. pc = "next" /\ mode = "recover" /\ mode' = mode /\ status' = status
      BY <1>25 DEF TakeInstall, Taking
    <3>3. cur' # cur => cur' = cur + 1
      BY <1>25 DEF TakeInstall
    <3>4. pc' \in {"next", "complete"}
      BY <1>25, <3>2 DEF TakeInstall
    <3> QED
      BY <1>1, <2>1, <3>1, <3>2, <3>3, <3>4
  <2> QED
    BY <1>25, <2>2, <2>3 DEF TakeInstall
<1>26. CASE KeepRemoved
  BY <1>1, <1>2, <1>3, <1>26 DEF KeepRemoved, Control, Taking
<1>27. CASE KeepWritten
  BY <1>1, <1>2, <1>3, <1>27 DEF KeepWritten, Control, Taking
<1>28. CASE RedoRemoved
  BY <1>1, <1>2, <1>3, <1>28 DEF RedoRemoved, Control, Taking, Redo, Entry
<1>29. CASE RedoWritten
  BY <1>1, <1>2, <1>3, <1>29 DEF RedoWritten, Control, Taking, Redo, Entry
<1>30. CASE RedoStarted
  BY <1>1, <1>2, <1>3, <1>30 DEF RedoStarted, Control, Taking, Redo, Entry
<1>31. CASE InterruptedUndo
  BY <1>1, <1>2, <1>3, <1>31 DEF InterruptedUndo, Control
<1>32. CASE InterruptedJournal
  <2>1. CASE UNCHANGED journal
    BY <1>1, <1>2, <1>32, <2>1 DEF InterruptedJournal, Control
  <2>2. CASE Journal(cur, Event("failed", attempt, Reference, "none"))
    <3>1. cur \in Action /\ status # "none"
      BY <1>1, <1>32 DEF InterruptedJournal, Control
    <3>2. \A b \in Action :
            /\ HasReference(b)' <=> HasReference(b) \/ (b = cur /\ Reference)
            /\ Last(b)'.state = IF b = cur THEN "failed" ELSE Last(b).state
      BY <1>1, <1>4, <2>2, <3>1, Writes
    <3> QED
      BY <1>1, <1>3, <1>32, <3>1, <3>2 DEF InterruptedJournal, Control, Reference, Prepared
  <2> QED
    BY <1>32, <2>1, <2>2 DEF InterruptedJournal
<1>33. CASE Interrupted
  BY <1>1, <1>2, <1>3, <1>33 DEF Interrupted, Control
<1>34. CASE Discard
  BY <1>1, <1>2, <1>3, <1>34 DEF Discard, Control
<1>35. CASE Close
  BY <1>1, <1>2, <1>3, <1>35 DEF Close, Control
<1>36. CASE Recover
  BY <1>1, <1>2, <1>3, <1>36 DEF Recover, Control
<1>37. CASE Abandon
  BY <1>1, <1>2, <1>3, <1>37 DEF Abandon, Control
<1>38. CASE Crash
  BY <1>1, <1>2, <1>3, <1>38 DEF Crash, Control
<1>39. CASE Interrupt
  BY <1>1, <1>2, <1>3, <1>39 DEF Interrupt, Control, InAction
<1>40. ASSUME NEW p \in Path, UserEdit(p) PROVE Journals'
  BY <1>1, <1>2, <1>40 DEF UserEdit, Control
<1> QED
  BY <1>5, <1>6, <1>7, <1>8, <1>9, <1>10, <1>11, <1>12, <1>13, <1>14, <1>15, <1>16, <1>17, <1>18,
      <1>19, <1>20, <1>21, <1>22, <1>23, <1>24, <1>25, <1>26, <1>27, <1>28, <1>29, <1>30, <1>31,
      <1>32, <1>33, <1>34, <1>35, <1>36, <1>37, <1>38, <1>39, <1>40
  DEF Next, ProcessStep, ExecutorStep, RecoveryStep, StopStep, AbandonStep

\* The first of the completed actions still to be rolled back.
LEMMA TopFacts ==
  ASSUME TypeOK, stack # <<>>
  PROVE  /\ Top = stack[1] /\ 1 \in DOMAIN stack /\ Top \in Pushes
         /\ Top.action \in Action /\ Top.attempt \in Nat /\ Top.prev \in Records
<1>1. Top = stack[1] /\ 1 \in DOMAIN stack /\ Top \in Pushes
  BY Popped DEF Top, TypeOK, ProcessType
<1> QED
  BY <1>1 DEF Pushes

\* Once a run is started, no step takes a rollback reference out of the journal,
\* and the one it may put there names a snapshot already relied on.
LEMMA ReferencesStay ==
  ASSUME TypeOK, Control, Stack, Next, status # "none"
  PROVE  \A a \in Action : (HasReference(a) => HasReference(a)') /\ (HasReference(a)' => Relied(a))
<1> USE DEF Relied, runVars, diskVars, procVars, envVars, Open,
            Looping, Failing, Undoing, Unwinding, Ending, Working
<1>1. /\ plan' = plan /\ cur \in Action /\ cur \in Nat /\ Action = 1..Len(plan) /\ Len(plan) \in Nat \ {0}
      /\ attempt \in Nat /\ Reference \in BOOLEAN /\ (Reference => Relied(cur)) /\ Known(cur) \in Records
      /\ "none" \in Records /\ TRUE \in BOOLEAN /\ FALSE \in BOOLEAN /\ 1 \in Nat
      /\ {"skipped", "running", "succeeded", "failed", "rolled-back"} \subseteq States
  BY PlanFixed, PlanFacts, KnownType DEF TypeOK, RunType, ProcessType, Reference, Records, States
<1>2. CASE UNCHANGED journal
  BY <1>2, SameJournal
<1>3. CASE Start
  BY <1>3 DEF Start
<1>4. CASE Hold
  <2>1. CASE Journal(cur, Event("skipped", attempt, FALSE, "none"))
    BY <1>1, <2>1, WritesBare
  <2> QED
    BY <1>2, <1>4, <2>1 DEF Hold
<1>5. CASE JournalRunning
  <2>1. CASE Journal(cur, Event("running", attempt, Reference, "none"))
    BY <1>1, <2>1, Writes
  <2> QED
    BY <1>2, <1>5, <2>1 DEF JournalRunning
<1>6. CASE Commit
  <2>1. CASE Journal(cur, Event("succeeded", attempt, Reference, IF IsFile(cur) THEN Known(cur) ELSE "none"))
    BY <1>1, <2>1, Writes
  <2> QED
    BY <1>2, <1>6, <2>1 DEF Commit
<1>7. CASE Fail
  <2>1. CASE Journal(cur, Event("failed", attempt, Reference, "none"))
    BY <1>1, <2>1, Writes
  <2> QED
    BY <1>2, <1>7, <2>1 DEF Fail
<1>8. CASE Disown
  <2>1. CASE Journal(cur, Event("rolled-back", attempt, FALSE, "none"))
    BY <1>1, <2>1, WritesBare
  <2> QED
    BY <1>2, <1>8, <2>1 DEF Disown
<1>9. CASE Unjournal
  <2>0. Top.action \in Action /\ Top.attempt \in Nat /\ HasReference(Top.action)
    BY <1>9, TopFacts DEF Unjournal, Stack
  <2>1. CASE Journal(Top.action, Event("rolled-back", Top.attempt, TRUE, "none"))
    BY <1>1, <2>1, <2>0, WritesReference
  <2> QED
    BY <1>2, <1>9, <2>1 DEF Unjournal
<1>10. CASE Skip
  <2>0. cur + 1 \in Action
    BY <1>1, <1>10 DEF Skip, Control
  <2>1. CASE Journal(cur + 1, Event("skipped", 1, FALSE, "none"))
    BY <1>1, <2>1, <2>0, WritesBare
  <2> QED
    BY <1>2, <1>10, <2>1 DEF Skip
<1>11. CASE TakeInstall
  <2>1. NextAttempt(cur) \in Nat
    BY <1>1, <1>11, LastType DEF TakeInstall, Taking, Control
  <2>2. ASSUME NEW s \in {"succeeded", "skipped"}, Journal(cur, Event(s, NextAttempt(cur), FALSE, "none"))
        PROVE  \A a \in Action : (HasReference(a) => HasReference(a)') /\ (HasReference(a)' => Relied(a))
    <3>1. s \in States
      BY <1>1, <2>2
    <3> QED
      BY <1>1, <2>1, <2>2, <3>1, WritesBare
  <2> QED
    BY <1>2, <1>11, <2>2 DEF TakeInstall
<1>12. CASE InterruptedJournal
  <2>1. CASE Journal(cur, Event("failed", attempt, Reference, "none"))
    BY <1>1, <2>1, Writes
  <2> QED
    BY <1>2, <1>12, <2>1 DEF InterruptedJournal
<1> QED
  BY <1>2, <1>3, <1>4, <1>5, <1>6, <1>7, <1>8, <1>9, <1>10, <1>11, <1>12
  DEF Next, ProcessStep, ExecutorStep, RecoveryStep, StopStep, AbandonStep, UserEdit,
      Take, RecordDrift, Prepare, Mutate, Verify, Return, Undo, Unwind, Unwound, Complete, Cleanup,
          TakeSkipped, KeepRemoved, KeepWritten, RedoRemoved, RedoWritten, RedoStarted,
          InterruptedUndo, Interrupted, Discard, Close, Recover, Abandon, Crash, Interrupt, Redo

\* The stack holds actions of the plan.
LEMMA StackedActions == ASSUME TypeOK PROVE \A i \in DOMAIN stack : stack[i].action \in Action
<1>1. stack \in Seq(Pushes)
  BY DEF TypeOK, ProcessType
<1>2. \A i \in DOMAIN stack : stack[i] \in Pushes
  BY <1>1, Elements
<1> QED
  BY <1>2 DEF Pushes

\* The steps that leave the stack alone.
LEMMA SameStack ==
  ASSUME TypeOK, Stack, plan' = plan, stack' = stack, pc' # "unjournal",
         \A a \in Action : HasReference(a) => HasReference(a)',
         pc' \in Looping \cup Failing \cup Undoing =>
           /\ pc \in Looping \cup Failing \cup Undoing
           /\ cur' = cur \/ (cur' = cur + 1 /\ ~IsFile(cur))
  PROVE  Stack'
<1>1. /\ Action' = Action /\ cur \in Action /\ Action \subseteq Nat
      /\ \A a \in Action : IsFile(a)' = IsFile(a) /\ Target(a)' = Target(a) /\ Stacked(a)' = Stacked(a)
  BY PlanFacts DEF TypeOK, RunType, ProcessType, Action, IsFile, Kind, Target, Stacked
<1>2. \A i \in DOMAIN stack : stack[i].action \in Action
  BY StackedActions
<1>3. \A i \in DOMAIN stack' :
         /\ stack'[i].action \in Action /\ IsFile(stack'[i].action) /\ HasReference(stack'[i].action)
         /\ \A k \in DOMAIN stack' : i < k => stack'[i].action > stack'[k].action
         /\ \A a \in Action : a < stack'[i].action /\ Target(a) = Target(stack'[i].action) => Stacked(a)'
  BY <1>1, <1>2 DEF Stack
<1>4. pc' \in Looping \cup Failing \cup Undoing => \A i \in DOMAIN stack' : stack'[i].action < cur'
  <2> SUFFICES ASSUME pc' \in Looping \cup Failing \cup Undoing, NEW i \in DOMAIN stack
               PROVE  stack[i].action < cur'
    OBVIOUS
  <2>1. stack[i].action \in Nat /\ cur \in Nat /\ stack[i].action < cur
    BY <1>1, <1>2 DEF Stack
  <2> QED
    BY <2>1
<1>5. pc' \in Looping \cup Failing \cup Undoing => \A a \in Action : a < cur' /\ IsFile(a) => Stacked(a)'
  <2> SUFFICES ASSUME pc' \in Looping \cup Failing \cup Undoing, NEW a \in Action, a < cur', IsFile(a)
               PROVE  Stacked(a)
    BY <1>1
  <2>1. a < cur
    BY <1>1
  <2> QED
    BY <2>1 DEF Stack
<1> QED
  BY <1>1, <1>2, <1>3, <1>4, <1>5 DEF Stack

\* The stack a command begins with.
LEMMA EmptyStack ==
  ASSUME stack' = <<>>, ~(pc' \in Looping \cup Failing \cup Undoing) \/ cur' = 1, pc' # "unjournal",
         Action' \subseteq Nat \ {0}
  PROVE  Stack'
BY DEF Stack

\* A completed action is put before those completed earlier.
LEMMA LongerStack ==
  ASSUME TypeOK, Stack, plan' = plan, UNCHANGED journal, NEW n \in Nat, NEW prev \in Records, Push(cur, n, prev),
         pc \in Looping, IsFile(cur), HasReference(cur), pc' # "unjournal", cur' \in {cur, cur + 1},
         pc' \in Looping \cup Failing \cup Undoing => cur' = cur + 1
  PROVE  Stack'
<1> DEFINE x == [action |-> cur, attempt |-> n, prev |-> prev]
<1>1. /\ Action' = Action /\ cur \in Action /\ Action \subseteq Nat
      /\ \A a \in Action : IsFile(a)' = IsFile(a) /\ Target(a)' = Target(a) /\ HasReference(a)' = HasReference(a)
  BY PlanFacts DEF TypeOK, RunType, ProcessType, Action, IsFile, Kind, Target, HasReference
<1>2. stack \in Seq(Pushes) /\ x \in Pushes /\ x.action = cur
  BY <1>1 DEF TypeOK, ProcessType, Pushes
<1>3. \A i \in DOMAIN stack : stack[i].action \in Action
  BY StackedActions
<1> HIDE DEF x
<1>4. stack' = <<x>> \o stack
  BY DEF Push, x
<1>5. /\ stack' \in Seq(Pushes) /\ DOMAIN stack' = 1..(Len(stack) + 1) /\ stack'[1] = x
      /\ \A i \in 1..Len(stack) : stack'[i + 1] = stack[i]
  BY <1>2, <1>4, Pushed
<1>6. DOMAIN stack = 1..Len(stack) /\ Len(stack) \in Nat
  BY <1>2
<1>7. \A i \in DOMAIN stack' : (i = 1 /\ stack'[i].action = cur)
         \/ (i - 1 \in DOMAIN stack /\ stack'[i] = stack[i - 1])
  BY <1>2, <1>5, <1>6
<1>8. \A a \in Action : Stacked(a)' <=> Stacked(a) \/ a = cur
  BY <1>2, <1>5, <1>6, <1>7 DEF Stacked
<1>9. \A i \in DOMAIN stack : stack[i].action < cur
  BY DEF Stack
<1>10. \A a \in Action : a < cur /\ IsFile(a) => Stacked(a)
  BY DEF Stack
<1>11. \A a \in Action : a < cur /\ Target(a) = Target(cur) => Stacked(a)
  BY <1>1, <1>10, Pairs DEF TypeOK, RunType, First
<1>12. \A i \in DOMAIN stack' :
         /\ stack'[i].action \in Action
         /\ IsFile(stack'[i].action) /\ HasReference(stack'[i].action)
         /\ stack'[i].action <= cur
         /\ \A a \in Action : a < stack'[i].action /\ Target(a) = Target(stack'[i].action) => Stacked(a)
  <2>1. \A i \in DOMAIN stack :
         /\ IsFile(stack[i].action) /\ HasReference(stack[i].action)
         /\ \A a \in Action : a < stack[i].action /\ Target(a) = Target(stack[i].action) => Stacked(a)
    BY DEF Stack
  <2> QED
    BY <1>1, <1>3, <1>7, <1>9, <1>11, <2>1
<1>13. \A i, k \in DOMAIN stack' : i < k => stack'[i].action > stack'[k].action
  <2> SUFFICES ASSUME NEW i \in DOMAIN stack', NEW k \in DOMAIN stack', i < k
               PROVE  stack'[i].action > stack'[k].action
    OBVIOUS
  <2>1. k - 1 \in DOMAIN stack /\ stack'[k] = stack[k - 1] /\ i \in Nat /\ k \in Nat
    BY <1>5, <1>6, <1>7
  <2>2. CASE i = 1
    BY <1>1, <1>3, <1>7, <1>9, <2>1, <2>2, <1>2, <1>5
  <2>3. CASE i # 1
    BY <1>7, <2>1, <2>3 DEF Stack
  <2> QED
    BY <2>2, <2>3
<1>14. \A i \in DOMAIN stack' :
         /\ stack'[i].action \in Action
         /\ IsFile(stack'[i].action) /\ HasReference(stack'[i].action)
         /\ pc' \in Looping \cup Failing \cup Undoing => stack'[i].action < cur'
         /\ \A a \in Action : a < stack'[i].action /\ Target(a) = Target(stack'[i].action) => Stacked(a)'
  <2> SUFFICES ASSUME NEW i \in DOMAIN stack'
               PROVE  /\ pc' \in Looping \cup Failing \cup Undoing => stack'[i].action < cur'
                      /\ \A a \in Action : Stacked(a) => Stacked(a)'
    BY <1>12
  <2>1. stack'[i].action <= cur /\ stack'[i].action \in Nat /\ cur \in Nat
    BY <1>1, <1>12
  <2> QED
    BY <1>8, <2>1
<1>15. pc' \in Looping \cup Failing \cup Undoing => \A a \in Action : a < cur' /\ IsFile(a)' => Stacked(a)'
  BY <1>1, <1>8, <1>10
<1> QED
  BY <1>1, <1>13, <1>14, <1>15 DEF Stack

\* The latest completed action is taken off.
LEMMA ShorterStack ==
  ASSUME TypeOK, Stack, plan' = plan, stack # <<>>, stack' = Tail(stack), pc' = "unwind",
         \A a \in Action : HasReference(a) => HasReference(a)'
  PROVE  Stack'
<1>1. /\ Action' = Action /\ Action \subseteq Nat
      /\ \A a \in Action : IsFile(a)' = IsFile(a) /\ Target(a)' = Target(a)
  BY PlanFacts DEF TypeOK, RunType, ProcessType, Action, IsFile, Kind, Target
<1>2. stack \in Seq(Pushes)
  BY DEF TypeOK, ProcessType
<1>3. \A i \in DOMAIN stack : stack[i].action \in Action
  BY StackedActions
<1>4. /\ Len(stack) \in Nat \ {0} /\ DOMAIN stack = 1..Len(stack) /\ DOMAIN stack' = 1..(Len(stack) - 1)
      /\ \A i \in 1..(Len(stack) - 1) : stack'[i] = stack[i + 1]
  BY <1>2, Popped
<1>5. \A i \in DOMAIN stack' : i \in Nat /\ i + 1 \in DOMAIN stack /\ 1 \in DOMAIN stack /\ 1 < i + 1
                              /\ stack'[i] = stack[i + 1]
  BY <1>4
<1>6. \A a \in Action : Stacked(a) /\ stack[1].action > a => Stacked(a)'
  <2> SUFFICES ASSUME NEW a \in Action, Stacked(a), stack[1].action > a PROVE \E i \in DOMAIN stack' : stack'[i].action = a
    BY DEF Stacked
  <2>1. PICK k \in DOMAIN stack : stack[k].action = a
    BY DEF Stacked
  <2>2. k # 1 /\ k - 1 \in DOMAIN stack'
    BY <1>1, <1>4, <2>1
  <2> QED
    BY <1>4, <2>1, <2>2
<1>7. \A i \in DOMAIN stack' : stack[1].action > stack'[i].action
  BY <1>5 DEF Stack
<1>8. \A i \in DOMAIN stack' :
         /\ IsFile(stack'[i].action) /\ HasReference(stack'[i].action)
         /\ stack'[i].action \in Action
         /\ \A a \in Action : a < stack'[i].action /\ Target(a) = Target(stack'[i].action) => Stacked(a)'
  <2>1. \A i \in DOMAIN stack :
         /\ IsFile(stack[i].action) /\ HasReference(stack[i].action)
         /\ \A a \in Action : a < stack[i].action /\ Target(a) = Target(stack[i].action) => Stacked(a)
    BY DEF Stack
  <2>2. \A i \in DOMAIN stack' : \A a \in Action : a < stack'[i].action => stack[1].action > a
    <3> SUFFICES ASSUME NEW i \in DOMAIN stack', NEW a \in Action, a < stack'[i].action PROVE stack[1].action > a
      OBVIOUS
    <3>1. stack'[i].action \in Nat /\ stack[1].action \in Nat /\ a \in Nat
      BY <1>1, <1>3, <1>5
    <3> QED
      BY <1>7, <3>1
  <2> QED
    BY <1>1, <1>3, <1>5, <1>6, <2>1, <2>2
<1>9. \A i, k \in DOMAIN stack' : i < k => stack'[i].action > stack'[k].action
  BY <1>5 DEF Stack
<1> QED
  BY <1>1, <1>8, <1>9 DEF Stack, Looping, Failing, Undoing

\* The stack holds what the loop has completed.
LEMMA StackKeeps == ASSUME TypeOK, Control, Journals, Stack, Next PROVE Stack'
<1> USE DEF runVars, diskVars, procVars, envVars, Enter, Goto, Fault, Finish, Execute, AfterBreak,
      Looping, Failing, Undoing, Unwinding, Ending, Working, Open
<1>1. /\ Action = 1..Len(plan) /\ Len(plan) \in Nat \ {0} /\ cur \in Action /\ plan' = plan
      /\ Action' = Action /\ Action' \subseteq Nat \ {0} /\ Kind(cur) \in ActionKinds /\ attempt \in Nat
  BY PlanFixed, PlanFacts DEF TypeOK, RunType, ProcessType, Action
<1>2. ASSUME status # "none" PROVE \A a \in Action : HasReference(a) => HasReference(a)'
  BY <1>2, ReferencesStay
<1>3. CASE Start
  BY <1>1, <1>3, EmptyStack DEF Start
<1>4. CASE Take
  BY <1>1, <1>2, <1>4, SameStack DEF Take, Control, Entry
<1>5. CASE RecordDrift
  BY <1>1, <1>2, <1>5, SameStack DEF RecordDrift, Control
<1>6. CASE Hold
  BY <1>1, <1>2, <1>6, SameStack DEF Hold, Control
<1>7. CASE Prepare
  BY <1>1, <1>2, <1>7, SameStack DEF Prepare, Control
<1>8. CASE JournalRunning
  BY <1>1, <1>2, <1>8, SameStack DEF JournalRunning, Control
<1>9. CASE Mutate
  BY <1>1, <1>2, <1>9, SameStack DEF Mutate, Control
<1>10. CASE Verify
  BY <1>1, <1>2, <1>10, SameStack DEF Verify, Control
<1>11. CASE Commit
  BY <1>1, <1>2, <1>11, SameStack DEF Commit, Control
<1>12. CASE Return
  <2>1. CASE IsFile(cur)
    <3>1. owner \in Records /\ HasReference(cur) /\ UNCHANGED journal
      BY <1>12, <2>1 DEF Return, TypeOK, ProcessType, Control, Journals, Passed
    <3> QED
      BY <1>1, <1>12, <2>1, <3>1, LongerStack DEF Return
  <2>2. CASE ~IsFile(cur)
    BY <1>1, <1>2, <1>12, <2>2, SameStack DEF Return, Control
  <2> QED
    BY <2>1, <2>2
<1>13. CASE Undo
  BY <1>1, <1>2, <1>13, SameStack DEF Undo, Control
<1>14. CASE Fail
  BY <1>1, <1>2, <1>14, SameStack DEF Fail, Control
<1>15. CASE Disown
  BY <1>1, <1>2, <1>15, SameStack DEF Disown, Control
<1>16. CASE Unwind
  <2>1. CASE stack' = Tail(stack) /\ pc' = pc
    BY <1>1, <1>2, <1>16, <2>1, ShorterStack DEF Unwind, Control
  <2>2. CASE Goto("unjournal")
    <3>1. status # "none" /\ stack' = stack /\ stack # <<>> /\ pc' = "unjournal" /\ journal' = journal
      BY <1>16, <2>2 DEF Unwind, Control
    <3>2. \A a \in Action : IsFile(a)' = IsFile(a) /\ Target(a)' = Target(a) /\ HasReference(a)' = HasReference(a) /\ Stacked(a)' = Stacked(a)
      BY <1>1, <3>1 DEF Action, IsFile, Kind, Target, HasReference, Stacked
    <3>3. \A i \in DOMAIN stack : stack[i].action \in Action
      BY StackedActions
    <3> QED
      BY <1>1, <3>1, <3>2, <3>3 DEF Stack
  <2> QED
    BY <1>16, <2>1, <2>2 DEF Unwind
<1>17. CASE Unjournal
  <2>1. stack # <<>>
    BY <1>17 DEF Unjournal, Stack
  <2> QED
    BY <1>1, <1>2, <1>17, <2>1, ShorterStack DEF Unjournal, Control
<1>18. CASE Unwound
  BY <1>1, <1>2, <1>18, SameStack DEF Unwound, Control
<1>19. CASE Skip
  BY <1>1, <1>2, <1>19, SameStack DEF Skip, Control
<1>20. CASE Complete
  BY <1>1, <1>2, <1>20, SameStack DEF Complete, Control
<1>21. CASE Cleanup
  BY <1>1, <1>21, EmptyStack DEF Cleanup
<1>22. CASE TakeSkipped
  <2>1. pc = "next" /\ UNCHANGED stack /\ cur' \in {cur, cur + 1} /\ pc' # "unjournal"
    BY <1>22 DEF TakeSkipped, Taking
  <2>2. cur' = cur + 1 \/ pc' \in Looping => ~IsFile(cur)
    BY <1>1, <1>22 DEF TakeSkipped, Taking, IsFile, Control
  <2> QED
    BY <1>1, <1>2, <1>22, <2>1, <2>2, SameStack DEF Control
<1>23. CASE TakeInstall
  <2>1. pc = "next" /\ UNCHANGED stack /\ cur' \in {cur, cur + 1} /\ pc' # "unjournal"
    BY <1>23 DEF TakeInstall, Taking
  <2>2. cur' = cur + 1 \/ pc' \in Looping => ~IsFile(cur)
    BY <1>1, <1>23 DEF TakeInstall, Taking, IsFile, Control
  <2> QED
    BY <1>1, <1>2, <1>23, <2>1, <2>2, SameStack DEF Control
<1>24. CASE KeepRemoved
  <2>1. /\ NextAttempt(cur) \in Nat /\ Last(cur).was \in Records
        /\ IsFile(cur) /\ HasReference(cur) /\ UNCHANGED journal
    BY <1>1, <1>24, LastType DEF KeepRemoved, Taking, Control, IsFile, Journals, Referenced
  <2> QED
    BY <1>1, <1>24, <2>1, LongerStack DEF KeepRemoved, Taking
<1>25. CASE KeepWritten
  <2>1. /\ NextAttempt(cur) \in Nat /\ Last(cur).was \in Records
        /\ IsFile(cur) /\ HasReference(cur) /\ UNCHANGED journal
    BY <1>1, <1>25, LastType DEF KeepWritten, Taking, Control, IsFile, Journals, Referenced
  <2> QED
    BY <1>1, <1>25, <2>1, LongerStack DEF KeepWritten, Taking
<1>26. CASE RedoRemoved
  BY <1>1, <1>2, <1>26, SameStack DEF RedoRemoved, Taking, Redo, Entry, Control, ActionKinds
<1>27. CASE RedoWritten
  BY <1>1, <1>2, <1>27, SameStack DEF RedoWritten, Taking, Redo, Entry, Control, ActionKinds
<1>28. CASE RedoStarted
  BY <1>1, <1>2, <1>28, SameStack DEF RedoStarted, Taking, Redo, Entry, Control, ActionKinds
<1>29. CASE InterruptedUndo
  BY <1>1, <1>2, <1>29, SameStack DEF InterruptedUndo, Control
<1>30. CASE InterruptedJournal
  BY <1>1, <1>2, <1>30, SameStack DEF InterruptedJournal, Control
<1>31. CASE Interrupted
  BY <1>1, <1>31, EmptyStack DEF Interrupted
<1>32. CASE Discard
  BY <1>1, <1>2, <1>32, SameStack DEF Discard, Control
<1>33. CASE Close
  BY <1>1, <1>33, EmptyStack DEF Close
<1>34. CASE Recover
  BY <1>1, <1>34, EmptyStack DEF Recover
<1>35. CASE Abandon
  BY <1>1, <1>35, EmptyStack DEF Abandon
<1>36. CASE Crash
  BY <1>1, <1>36, EmptyStack DEF Crash
<1>37. CASE Interrupt
  BY <1>1, <1>2, <1>37, SameStack DEF Interrupt, Control, InAction
<1>38. ASSUME NEW p \in Path, UserEdit(p) PROVE Stack'
  BY <1>1, <1>2, <1>38, SameStack DEF UserEdit, Control
<1> QED
  BY <1>3, <1>4, <1>5, <1>6, <1>7, <1>8, <1>9, <1>10, <1>11, <1>12, <1>13, <1>14, <1>15, <1>16,
      <1>17, <1>18, <1>19, <1>20, <1>21, <1>22, <1>23, <1>24, <1>25, <1>26, <1>27, <1>28, <1>29,
      <1>30, <1>31, <1>32, <1>33, <1>34, <1>35, <1>36, <1>37, <1>38
  DEF Next, ProcessStep, ExecutorStep, RecoveryStep, StopStep, AbandonStep

\* What a plan says of its actions does not change.
LEMMA SamePlan ==
  ASSUME TypeOK, plan' = plan
  PROVE  /\ Action' = Action /\ Action \subseteq Nat \ {0} /\ Action = 1..Len(plan) /\ Len(plan) \in Nat \ {0}
         /\ cur \in Action
         /\ \A a \in Action :
              /\ IsFile(a)' = IsFile(a) /\ Target(a)' = Target(a) /\ Kind(a)' = Kind(a)
              /\ First(a)' = First(a) /\ Final(a)' = Final(a) /\ Intended(a)' = Intended(a)
              /\ Target(a) \in Path /\ Intended(a) \in {"desired", "absent"} /\ Kind(a) \in ActionKinds
         /\ \A p \in Path : Base(plan, p)' = Base(plan, p)
<1>1. /\ Action' = Action /\ Action \subseteq Nat \ {0} /\ Action = 1..Len(plan) /\ Len(plan) \in Nat \ {0}
      /\ cur \in Action /\ \A a \in Action : Target(a) \in Path /\ Kind(a) \in ActionKinds
  BY PlanFacts DEF TypeOK, RunType, ProcessType, Action
<1>2. \A a \in Action : IsFile(a)' = IsFile(a) /\ Target(a)' = Target(a) /\ Kind(a)' = Kind(a)
  BY DEF IsFile, Target, Kind
<1> QED
  BY <1>1, <1>2 DEF First, Final, Intended, Base

\* A path has one action, or a removal of an applied resource and a write.
LEMMA Twins ==
  ASSUME plan \in Plans, NEW a \in Action, NEW b \in Action, a # b, Target(a) = Target(b)
  PROVE  /\ IsFile(a) /\ IsFile(b)
         /\ a < b => First(a) /\ Kind(a) = "remove" /\ plan[a].owned /\ Kind(b) = "write" /\ Final(b) /\ ~First(b) /\ ~Final(a)
<1>1. a < b \/ b < a
  BY PlanFacts
<1> QED
  BY <1>1, Pairs, PlanFacts DEF First, Final

\* Only the start of the run begins it.
LEMMA Begins == ASSUME Control, Fresh, Next, status = "none" PROVE Start
BY DEF Control, Fresh, Next, ProcessStep, ExecutorStep, RecoveryStep, StopStep, AbandonStep, Open,
   Take, RecordDrift, Hold, Prepare, JournalRunning, Mutate, Verify, Commit, Return, Undo, Fail, Disown,
   Unwind, Unjournal, Unwound, Skip, Complete, Cleanup, Taking, TakeSkipped, TakeInstall, KeepRemoved,
   KeepWritten, RedoRemoved, RedoWritten, RedoStarted, InterruptedUndo, InterruptedJournal, Interrupted,
   Discard, Close, Recover, Abandon, Crash, Interrupt, UserEdit, InAction

\* Only a preparation lets the run rely on another snapshot.
LEMMA RelianceShrinks ==
  ASSUME TypeOK, Control, Stack, Next, status # "none", plan' = plan, ready' => ready /\ cur' = cur
  PROVE  \A a \in Action : Relied(a)' => Relied(a)
BY ReferencesStay, SamePlan DEF Relied

\* The steps that leave the disk alone.
LEMMA FilesSame ==
  ASSUME TypeOK, Referenced, Files, plan' = plan, UNCHANGED <<file, snap, before>>,
         status # "none", status' # "none", Open, pc \in Working, pc' \in Working,
         pc' = "prepare" => cur' = cur /\ ~HasReference(cur),
         \A a \in Action : (HasReference(a) => HasReference(a)') /\ (Relied(a)' => Relied(a))
  PROVE  Files'
<1>1. /\ Action' = Action /\ cur \in Action /\ Action \subseteq Nat \ {0}
      /\ \A a \in Action : IsFile(a)' = IsFile(a) /\ Target(a)' = Target(a) /\ First(a)' = First(a) /\ Target(a) \in Path
  BY SamePlan
<1>2. pc' = "prepare" /\ First(cur) => file[Target(cur)] = before[Target(cur)]
  <2> SUFFICES ASSUME pc' = "prepare", First(cur)
               PROVE  \A a \in Action : Target(a) = Target(cur) => ~HasReference(a)
    BY <1>1 DEF Files, Untouched
  <2> QED
    BY <1>1 DEF Referenced, First
<1>3. pc' \notin {"idle", "discard", "close"}
  BY DEF Working, Looping, Failing, Undoing, Unwinding, Ending
<1>4. Fresh' /\ Aside'
  BY <1>3 DEF Fresh, Aside
<1>5. Kept' /\ Saved' /\ EditSaved'
  BY <1>1 DEF Files, Kept, Saved, EditSaved
<1>6. Untouched'
  BY <1>1 DEF Files, Untouched
<1>7. Clean'
  BY <1>1, <1>2 DEF Clean
<1> QED
  BY <1>4, <1>5, <1>6, <1>7 DEF Files

\* A target is put back as the snapshot of an action holds it.
LEMMA FilesRestored ==
  ASSUME TypeOK, Referenced, Passed, Files, plan' = plan, UNCHANGED <<snap, before>>,
         status # "none", status' # "none", Open, pc \in Working, pc' \in Working,
         NEW x \in Action, Relied(x), Restore(x),
         HasReference(x) \/ pc \in Looping \cup Failing \cup Undoing,
         pc' = "prepare" => cur' = x,
         \A a \in Action : (HasReference(a) => HasReference(a)') /\ (Relied(a)' => Relied(a))
  PROVE  Files' /\ (First(x) => file'[Target(x)] = before[Target(x)]) /\ (EditSaved => \A p \in Path : file[p] = "edited" /\ file'[p] # "edited" => \E a \in Action : Target(a) = p /\ snap[a] = "edited")
<1>1. /\ Action' = Action /\ cur \in Action /\ Action \subseteq Nat \ {0}
      /\ \A a \in Action : IsFile(a)' = IsFile(a) /\ Target(a)' = Target(a) /\ First(a)' = First(a) /\ Target(a) \in Path
  BY SamePlan
<1>2. file \in [Path -> Contents] /\ file' = [file EXCEPT ![Target(x)] = snap[x]]
  BY DEF TypeOK, DiskType, Restore
<1>3. file'[Target(x)] = snap[x] /\ \A p \in Path : p # Target(x) => file'[p] = file[p]
  BY <1>1, <1>2
<1>4. First(x) => file'[Target(x)] = before[Target(x)]
  BY <1>3 DEF Files, Saved
<1>5. pc' \notin {"idle", "discard", "close"}
  BY DEF Working, Looping, Failing, Undoing, Unwinding, Ending
<1>6. Fresh' /\ Aside'
  BY <1>5 DEF Fresh, Aside
<1>7. Kept' /\ Saved'
  BY <1>1 DEF Files, Kept, Saved
<1>8. EditSaved'
  BY <1>1, <1>3 DEF Files, EditSaved
<1>9. Untouched'
  <2>1. CASE First(x)
    BY <1>1, <1>3, <1>4, <2>1 DEF Files, Untouched
  <2>2. CASE ~First(x)
    <3>1. IsFile(x)
      BY DEF Relied, Referenced
    <3>2. PICK b \in Action : b < x /\ Target(b) = Target(x)
      BY <2>2, <3>1 DEF First
    <3>3. HasReference(b) \/ HasReference(x)
      <4>1. IsFile(b) /\ (HasReference(x) \/ x = cur)
        BY <3>2, Pairs DEF TypeOK, RunType, IsFile, Relied
      <4> QED
        BY <3>2, <4>1 DEF Passed
    <3> QED
      BY <1>1, <1>3, <3>2, <3>3 DEF Files, Untouched
  <2> QED
    BY <2>1, <2>2
<1>10. Clean'
  BY <1>1, <1>4 DEF Clean
<1>11. EditSaved => \A p \in Path : file[p] = "edited" /\ file'[p] # "edited" => \E a \in Action : Target(a) = p /\ snap[a] = "edited"
  BY <1>3 DEF EditSaved
<1> QED
  BY <1>4, <1>6, <1>7, <1>8, <1>9, <1>10, <1>11 DEF Files

\* A target gets the content its action intends.
LEMMA FilesApplied ==
  ASSUME TypeOK, Files, plan' = plan, UNCHANGED <<snap, before>>,
         status # "none", status' # "none", Open, pc \in Working, pc' \in Working \ {"prepare"},
         IsFile(cur) => HasReference(cur), Apply(cur),
         \A a \in Action : (HasReference(a) => HasReference(a)') /\ (Relied(a)' => Relied(a))
  PROVE  Files' /\ \A p \in Path : file[p] = "edited" /\ file'[p] # "edited" => \E a \in Action : Target(a) = p /\ snap[a] = "edited"
<1>1. /\ Action' = Action /\ cur \in Action /\ Action \subseteq Nat \ {0}
      /\ \A a \in Action : IsFile(a)' = IsFile(a) /\ Target(a)' = Target(a) /\ First(a)' = First(a) /\ Target(a) \in Path
      /\ Intended(cur) \in {"desired", "absent"}
  BY SamePlan
<1>2. file \in [Path -> Contents] /\ file' = IF IsFile(cur) THEN [file EXCEPT ![Target(cur)] = Intended(cur)] ELSE file
  BY DEF TypeOK, DiskType, Apply
<1>3. /\ IsFile(cur) => file'[Target(cur)] = Intended(cur) /\ \A p \in Path : p # Target(cur) => file'[p] = file[p]
      /\ ~IsFile(cur) => file' = file
  BY <1>1, <1>2
<1>5. pc' \notin {"idle", "discard", "close"}
  BY DEF Working, Looping, Failing, Undoing, Unwinding, Ending
<1>6. Fresh' /\ Aside' /\ Clean'
  BY <1>5 DEF Fresh, Aside, Clean
<1>7. Kept' /\ Saved'
  BY <1>1 DEF Files, Kept, Saved
<1>8. EditSaved'
  BY <1>1, <1>3 DEF Files, EditSaved
<1>9. Untouched'
  BY <1>1, <1>3 DEF Files, Untouched
<1>10. \A p \in Path : file[p] = "edited" /\ file'[p] # "edited" => \E a \in Action : Target(a) = p /\ snap[a] = "edited"
  BY <1>1, <1>3 DEF Files, EditSaved, Relied
<1> QED
  BY <1>6, <1>7, <1>8, <1>9, <1>10 DEF Files

\* A snapshot of what is there now takes the place of the action's earlier one.
LEMMA FilesCaptured ==
  ASSUME TypeOK, Files, plan' = plan, UNCHANGED <<file, before, journal, status>>, Open,
         pc = "prepare", pc' = "running", cur' = cur,
         snap' = IF IsFile(cur) THEN [snap EXCEPT ![cur] = file[Target(cur)]] ELSE snap
  PROVE  Files'
<1>1. /\ Action' = Action /\ cur \in Action /\ Action \subseteq Nat \ {0}
      /\ \A a \in Action : IsFile(a)' = IsFile(a) /\ Target(a)' = Target(a) /\ First(a)' = First(a) /\ Target(a) \in Path
                           /\ HasReference(a)' = HasReference(a)
  BY SamePlan DEF HasReference
<1>2. snap \in [Action -> Contents \cup {"missing"}] /\ file[Target(cur)] \in Contents /\ "missing" \notin Contents
  BY <1>1 DEF TypeOK, DiskType, Contents
<1>3. /\ IsFile(cur) => snap'[cur] = file[Target(cur)] /\ \A a \in Action : a # cur => snap'[a] = snap[a]
      /\ ~IsFile(cur) => snap' = snap
  BY <1>1, <1>2
<1>4. \A a \in Action : Relied(a)' => HasReference(a) \/ (a = cur /\ IsFile(cur))
  BY <1>1 DEF Relied
<1>5. pc \in Working /\ pc' \in Working /\ pc' \notin {"idle", "discard", "close"}
  BY DEF Working, Looping
<1>6. Fresh' /\ Aside' /\ Clean'
  BY <1>5 DEF Fresh, Aside, Clean, Open
<1>7. Kept'
  BY <1>1, <1>2, <1>3, <1>4, <1>5 DEF Files, Kept, Relied
<1>8. Saved'
  BY <1>1, <1>3, <1>4, <1>5 DEF Files, Saved, Clean, Relied
<1>9. EditSaved'
  <2> SUFFICES ASSUME NEW p \in Path, file[p] = "edited", NEW a \in Action, Target(a) = p, Relied(a)'
               PROVE  \E b \in Action : Target(b) = p /\ snap'[b] = "edited"
    BY <1>1 DEF EditSaved
  <2>1. CASE p = Target(cur) /\ IsFile(cur)
    BY <1>1, <1>3, <2>1
  <2>2. CASE ~(p = Target(cur) /\ IsFile(cur))
    <3>1. PICK b \in Action : Target(b) = p /\ snap[b] = "edited"
      BY <1>4, <1>5, <2>2 DEF Files, EditSaved, Relied
    <3> QED
      BY <1>1, <1>3, <2>2, <3>1
  <2> QED
    BY <2>1, <2>2
<1>10. Untouched'
  BY <1>1 DEF Files, Untouched, Open
<1> QED
  BY <1>6, <1>7, <1>8, <1>9, <1>10 DEF Files

\* A process leaves the run open behind it.
LEMMA FilesLeft ==
  ASSUME TypeOK, Files, plan' = plan, UNCHANGED <<file, snap, before, journal>>, status # "none", Open, pc \in Working,
         status' # "none", pc' = "idle"
  PROVE  Files'
<1>1. /\ Action' = Action /\ cur \in Action /\ Action \subseteq Nat \ {0}
      /\ \A a \in Action : IsFile(a)' = IsFile(a) /\ Target(a)' = Target(a) /\ First(a)' = First(a) /\ Target(a) \in Path
                           /\ HasReference(a)' = HasReference(a)
  BY SamePlan DEF HasReference
<1>2. pc' \notin Working /\ pc' # "prepare"
  BY DEF Working, Looping, Failing, Undoing, Unwinding, Ending
<1>3. Fresh' /\ Kept' /\ Saved' /\ EditSaved' /\ Clean'
  BY <1>2 DEF Fresh, Kept, Saved, EditSaved, Clean
<1>4. Aside'
  BY <1>1 DEF Files, Saved, Aside, Relied
<1>5. Untouched'
  BY <1>1 DEF Files, Untouched
<1> QED
  BY <1>3, <1>4, <1>5 DEF Files

\* An open run nobody works on, or that is being abandoned, stays as it is.
LEMMA FilesAside ==
  ASSUME TypeOK, Files, plan' = plan, UNCHANGED <<file, snap, before, journal, status>>, Open,
         {pc, pc'} \subseteq {"idle", "discard", "close"}
  PROVE  Files'
<1>1. /\ Action' = Action /\ cur \in Action /\ Action \subseteq Nat \ {0}
      /\ \A a \in Action : IsFile(a)' = IsFile(a) /\ Target(a)' = Target(a) /\ First(a)' = First(a) /\ Target(a) \in Path
                           /\ HasReference(a)' = HasReference(a)
      /\ \A p \in Path : Base(plan, p)' = Base(plan, p)
  BY SamePlan DEF HasReference
<1>2. pc' \notin Working /\ pc' # "prepare"
  BY DEF Working, Looping, Failing, Undoing, Unwinding, Ending
<1>3. Fresh' /\ Kept' /\ Saved' /\ EditSaved' /\ Clean'
  BY <1>2 DEF Fresh, Kept, Saved, EditSaved, Clean, Open
<1>4. Discarded' = Discarded
  BY <1>1 DEF Discarded
<1>5. Aside'
  BY <1>1, <1>4 DEF Files, Aside, Open
<1>6. Untouched'
  BY <1>1 DEF Files, Untouched, Open
<1> QED
  BY <1>3, <1>5, <1>6 DEF Files

\* A closed run relies on nothing.
LEMMA FilesClosed ==
  ASSUME status' # "none", ~Open', pc' \in {"idle", "cleanup"}
  PROVE  Files'
BY DEF Files, Fresh, Kept, Untouched, Saved, Aside, Clean, EditSaved, Working, Looping, Failing,
    Undoing, Unwinding, Ending

\* What the inspection of the targets establishes before a recovery touches
\* anything: a snapshot it relies on is there; the first snapshot of a path is
\* what the user left there; and an edited target is in a snapshot.
LEMMA Inspection ==
  ASSUME TypeOK, Referenced, Files, pc = "idle", Open, Recoverable
  PROVE  /\ \A a \in Action : HasReference(a) => snap[a] # "missing"
         /\ \A a \in Action : First(a) /\ HasReference(a) => snap[a] = before[Target(a)]
         /\ \A p \in Path : file[p] = "edited" /\ (\E a \in Action : Target(a) = p /\ HasReference(a)) =>
              \E a \in Action : Target(a) = p /\ snap[a] = "edited"
<1>1. plan \in Plans /\ Action \subseteq Nat \ {0}
  BY PlanFacts DEF TypeOK, RunType
<1>2. \A a \in Action : HasReference(a) => Inspected(a) /\ IsFile(a) /\ snap[a] # "missing" /\ ~Edited(a)
  BY DEF Open, Referenced, Inspected, Recoverable
<1>3. \A a \in Action : Kind(a) = "write" /\ HasReference(a) =>
        \/ file[Target(a)] \in {snap[a], "desired"}
        \/ \E b \in Action : b < a /\ Target(b) = Target(a) /\ HasReference(b) /\ file[Target(a)] = snap[b]
  BY <1>2 DEF Edited, Observed, Intended, Restored, Predecessors, Inspected
<1>4. \A a \in Action : Kind(a) = "remove" /\ HasReference(a) =>
        \/ file[Target(a)] \in {snap[a], "absent"}
        \/ \E b \in Action : /\ b > a /\ Target(b) = Target(a) /\ HasReference(b) /\ Kind(b) = "write"
                             /\ snap[b] \in {snap[a], "absent"}
  <2> SUFFICES ASSUME NEW a \in Action, Kind(a) = "remove", HasReference(a)
               PROVE  \/ file[Target(a)] \in {snap[a], "absent"}
                      \/ \E b \in Action : /\ b > a /\ Target(b) = Target(a) /\ HasReference(b) /\ Kind(b) = "write"
                                           /\ snap[b] \in {snap[a], "absent"}
    OBVIOUS
  <2>1. Predecessors(a) = {}
    BY <1>1, Pairs DEF Predecessors
  <2>2. Observed(a) \subseteq {snap[a], "absent"}
    BY <1>2, <2>1 DEF Edited, Intended, Restored
  <2>3. CASE Successors(a) = {}
    BY <2>2, <2>3 DEF Observed
  <2>4. CASE Successors(a) # {}
    <3>1. PICK b \in Successors(a) : TRUE
      BY <2>4
    <3>2. snap[b] \in {snap[a], "absent"}
      BY <2>2, <2>4 DEF Observed
    <3> QED
      BY <1>1, <3>1, <3>2, Pairs DEF Successors, Inspected
  <2> QED
    BY <2>3, <2>4
<1>5. ~Discarded
  BY <1>2 DEF Discarded, HasReference
<1>6. ASSUME NEW a \in Action, First(a), HasReference(a) PROVE snap[a] = before[Target(a)]
  <2>1. CASE snap[a] # before[Target(a)]
    <3>1. file[Target(a)] = before[Target(a)] /\ file[Target(a)] \in {"edited", Base(plan, Target(a))}
      BY <1>5, <1>6, <2>1 DEF Files, Aside
    <3>2. Base(plan, Target(a)) \in {"original", "absent"} /\ (Kind(a) = "remove" => Base(plan, Target(a)) = "original")
      BY <1>1, PlanFacts DEF Base, Target
    <3>3. CASE Kind(a) = "write"
      BY <1>3, <1>6, <2>1, <3>1, <3>2, <3>3 DEF First
    <3>4. CASE Kind(a) = "remove"
      <4>1. PICK b \in Action : /\ b > a /\ Target(b) = Target(a) /\ HasReference(b) /\ Kind(b) = "write"
                                /\ snap[b] \in {snap[a], "absent"}
        BY <1>4, <1>6, <2>1, <3>1, <3>2, <3>4
      <4>2. \A c \in Action : c < b /\ Target(c) = Target(b) => c = a
        BY <1>1, <4>1, Pairs DEF First
      <4>3. file[Target(a)] \in {snap[b], "desired"} \/ file[Target(a)] = snap[a]
        BY <1>3, <4>1, <4>2
      <4> QED
        BY <2>1, <3>1, <3>2, <3>4, <4>1, <4>3
    <3> QED
      BY <1>6, <3>3, <3>4 DEF First, IsFile
  <2> QED
    BY <2>1
<1>7. ASSUME NEW p \in Path, file[p] = "edited", NEW a \in Action, Target(a) = p, HasReference(a)
      PROVE  \E b \in Action : Target(b) = p /\ snap[b] = "edited"
  <2>1. ASSUME NEW b \in Action, Target(b) = p, HasReference(b), Kind(b) = "write"
        PROVE  \E c \in Action : Target(c) = p /\ snap[c] = "edited"
    BY <1>3, <1>7, <2>1
  <2>2. CASE Kind(a) = "write"
    BY <1>7, <2>1, <2>2
  <2>3. CASE Kind(a) = "remove"
    BY <1>4, <1>7, <2>1, <2>3
  <2> QED
    BY <1>2, <1>7, <2>2, <2>3 DEF IsFile
<1> QED
  BY <1>2, <1>6, <1>7

\* The snapshots and the files stay what the run relies on.
LEMMA FilesKeep == ASSUME TypeOK, Control, Journals, Stack, Files, Next PROVE Files'
<1> USE DEF runVars, diskVars, procVars, envVars, Goto, Fault, Execute, Open
<1>1. CASE status = "none"
  <2>1. Start
    BY <1>1, Begins DEF Files
  <2>2. /\ plan' = plan /\ pc' = "next" /\ UNCHANGED <<file, snap, before>> /\ ready' = FALSE /\ file = before
        /\ status' = "applying"
        /\ \A a \in Action : journal'[a] = <<Event("pending", 0, FALSE, "none")>>
    BY <1>1, <2>1, PlanFixed DEF Start, Enter, Files, Fresh
  <2>3. Action' = Action
    BY <2>2 DEF Action
  <2>4. \A a \in Action : ~HasReference(a)' /\ ~Relied(a)'
    BY <2>2 DEF HasReference, Event, Relied
  <2> QED
    BY <2>2, <2>3, <2>4 DEF Files, Fresh, Kept, Untouched, Saved, Aside, Clean, EditSaved
<1>2. CASE status # "none"
  <2>1. /\ plan' = plan /\ Action' = Action /\ cur \in Action
        /\ \A a \in Action : (HasReference(a) => HasReference(a)') /\ (HasReference(a)' => Relied(a))
        /\ (ready' => ready /\ cur' = cur) => \A a \in Action : Relied(a)' => Relied(a)
        /\ Referenced /\ Passed
    BY <1>2, PlanFixed, ReferencesStay, RelianceShrinks, SamePlan DEF Journals
  <2>2. CASE Start
    BY <1>2, <2>2 DEF Start
  <2>3. CASE Take
    <3>1. /\ pc \in Working /\ pc' \in Working /\ Open /\ status' = status
          /\ UNCHANGED <<file, snap, before, cur>> /\ ~HasReference(cur)
          /\ (ready' => ready /\ cur' = cur)
      BY <2>1, <2>3 DEF Take, Entry, Control, Journals, Unreached, Working, Looping, Failing,
          Undoing, Unwinding, Ending
    <3> QED
      BY <1>2, <2>1, <3>1, FilesSame
  <2>4. CASE RecordDrift
    <3>1. /\ pc \in Working /\ pc' \in Working \ {"prepare"} /\ Open /\ status' = status
          /\ UNCHANGED <<file, snap, before>> /\ (ready' => ready /\ cur' = cur)
      BY <2>1, <2>4 DEF RecordDrift, Finish, AfterBreak, Control, Working, Looping, Failing,
          Undoing, Unwinding, Ending
    <3> QED
      BY <1>2, <2>1, <3>1, FilesSame
  <2>5. CASE Hold
    <3>1. /\ pc \in Working /\ pc' \in Working \ {"prepare"} /\ Open /\ status' = status
          /\ UNCHANGED <<file, snap, before>> /\ (ready' => ready /\ cur' = cur)
      BY <2>1, <2>5 DEF Hold, Finish, AfterBreak, Control, Working, Looping, Failing, Undoing,
          Unwinding, Ending
    <3> QED
      BY <1>2, <2>1, <3>1, FilesSame
  <2>6. CASE Prepare
    <3>1. CASE pc' = "running"
      BY <2>1, <2>6, <3>1, FilesCaptured DEF Prepare, Control, Working, Looping, Failing, Undoing,
          Unwinding, Ending
    <3>2. CASE Goto("fail") /\ UNCHANGED snap
      BY <1>2, <2>1, <2>6, <3>2, FilesSame DEF Prepare, Control, Working, Looping, Failing, Undoing,
          Unwinding, Ending
    <3> QED
      BY <2>6, <3>1, <3>2 DEF Prepare
  <2>7. CASE JournalRunning
    <3>1. /\ pc \in Working /\ pc' \in Working \ {"prepare"} /\ Open /\ status' = status
          /\ UNCHANGED <<file, snap, before>> /\ (ready' => ready /\ cur' = cur)
      BY <2>1, <2>7 DEF JournalRunning, Control, Working, Looping, Failing, Undoing, Unwinding, Ending
    <3> QED
      BY <1>2, <2>1, <3>1, FilesSame
  <2>8. CASE Mutate
    <3>0. /\ pc \in Working /\ pc' \in Working \ {"prepare"} /\ Open /\ status' = status
          /\ UNCHANGED <<snap, before>> /\ (IsFile(cur) => HasReference(cur))
          /\ (ready' => ready /\ cur' = cur)
      BY <2>1, <2>8 DEF Mutate, Control, Passed, Working, Looping, Failing, Undoing, Unwinding, Ending
    <3>1. CASE Apply(cur)
      BY <1>2, <2>1, <3>0, <3>1, FilesApplied
    <3>2. CASE UNCHANGED file
      BY <1>2, <2>1, <3>0, <3>2, FilesSame
    <3> QED
      BY <2>8, <3>1, <3>2 DEF Mutate
  <2>9. CASE Verify
    <3>1. /\ pc \in Working /\ pc' \in Working \ {"prepare"} /\ Open /\ status' = status
          /\ UNCHANGED <<file, snap, before>> /\ (ready' => ready /\ cur' = cur)
      BY <2>1, <2>9 DEF Verify, Control, Working, Looping, Failing, Undoing, Unwinding, Ending
    <3> QED
      BY <1>2, <2>1, <3>1, FilesSame
  <2>10. CASE Commit
    <3>1. /\ pc \in Working /\ pc' \in Working \ {"prepare"} /\ Open /\ status' = status
          /\ UNCHANGED <<file, snap, before>> /\ (ready' => ready /\ cur' = cur)
      BY <2>1, <2>10 DEF Commit, Control, Working, Looping, Failing, Undoing, Unwinding, Ending
    <3> QED
      BY <1>2, <2>1, <3>1, FilesSame
  <2>11. CASE Return
    <3>1. /\ pc \in Working /\ pc' \in Working \ {"prepare"} /\ Open /\ status' = status
          /\ UNCHANGED <<file, snap, before>> /\ (ready' => ready /\ cur' = cur)
      BY <2>1, <2>11 DEF Return, Finish, AfterBreak, Control, Working, Looping, Failing, Undoing,
          Unwinding, Ending
    <3> QED
      BY <1>2, <2>1, <3>1, FilesSame
  <2>12. CASE Undo
    <3>0. /\ pc \in Working /\ pc' \in Working \ {"prepare"} /\ Open /\ status' = status
          /\ UNCHANGED <<snap, before>> /\ pc \in Failing \cup Undoing
          /\ (ready' => ready /\ cur' = cur)
      BY <2>1, <2>12 DEF Undo, Control, Working, Looping, Failing, Undoing, Unwinding, Ending
    <3>1. CASE Reference /\ Restore(cur)
      BY <1>2, <2>1, <3>0, <3>1, FilesRestored DEF Reference, Relied
    <3>2. CASE UNCHANGED file
      BY <1>2, <2>1, <3>0, <3>2, FilesSame
    <3> QED
      BY <2>12, <3>1, <3>2 DEF Undo
  <2>13. CASE Fail
    <3>1. /\ pc \in Working /\ pc' \in Working \ {"prepare"} /\ Open /\ status' = status
          /\ UNCHANGED <<file, snap, before>> /\ (ready' => ready /\ cur' = cur)
      BY <2>1, <2>13 DEF Fail, Finish, AfterBreak, Control, Working, Looping, Failing, Undoing,
          Unwinding, Ending
    <3> QED
      BY <1>2, <2>1, <3>1, FilesSame
  <2>14. CASE Disown
    <3>1. /\ pc \in Working /\ pc' \in Working \ {"prepare"} /\ Open /\ status' = status
          /\ UNCHANGED <<file, snap, before>> /\ (ready' => ready /\ cur' = cur)
      BY <2>1, <2>14 DEF Disown, Finish, AfterBreak, Control, Working, Looping, Failing, Undoing,
          Unwinding, Ending
    <3> QED
      BY <1>2, <2>1, <3>1, FilesSame
  <2>15. CASE Unwind
    <3>0. /\ pc \in Working /\ pc' \in Working \ {"prepare"} /\ Open /\ status' = status
          /\ UNCHANGED <<snap, before>> /\ Top.action \in Action /\ HasReference(Top.action)
          /\ (ready' => ready /\ cur' = cur)
      BY <2>1, <2>15, TopFacts DEF Unwind, Control, Stack, Working, Looping, Failing, Undoing,
          Unwinding, Ending
    <3>1. CASE Restore(Top.action)
      BY <1>2, <2>1, <3>0, <3>1, FilesRestored DEF Relied
    <3>2. CASE UNCHANGED file
      BY <1>2, <2>1, <3>0, <3>2, FilesSame
    <3> QED
      BY <2>15, <3>1, <3>2 DEF Unwind
  <2>16. CASE Unjournal
    <3>1. /\ pc \in Working /\ pc' \in Working \ {"prepare"} /\ Open /\ status' = status
          /\ UNCHANGED <<file, snap, before>> /\ (ready' => ready /\ cur' = cur)
      BY <2>1, <2>16 DEF Unjournal, Control, Working, Looping, Failing, Undoing, Unwinding, Ending
    <3> QED
      BY <1>2, <2>1, <3>1, FilesSame
  <2>17. CASE Unwound
    <3>1. /\ pc \in Working /\ pc' \in Working \ {"prepare"} /\ Open /\ status' = status
          /\ UNCHANGED <<file, snap, before>> /\ (ready' => ready /\ cur' = cur)
      BY <2>1, <2>17 DEF Unwound, AfterBreak, Control, Working, Looping, Failing, Undoing,
          Unwinding, Ending
    <3> QED
      BY <1>2, <2>1, <3>1, FilesSame
  <2>18. CASE Skip
    <3>1. /\ pc \in Working /\ pc' \in Working \ {"prepare"} /\ Open /\ status' = status
          /\ UNCHANGED <<file, snap, before>> /\ (ready' => ready /\ cur' = cur)
      BY <2>1, <2>18 DEF Skip, Prepared, Control, Working, Looping, Failing, Undoing, Unwinding, Ending
    <3> QED
      BY <1>2, <2>1, <3>1, FilesSame
  <2>19. CASE Complete
    BY <1>2, <2>19, FilesClosed DEF Complete, Control, Terminal, Enter, Outcome
  <2>20. CASE Cleanup
    BY <1>2, <2>20, FilesClosed DEF Cleanup, Control, Terminal, Enter
  <2>21. CASE TakeSkipped
    <3>1. /\ pc \in Working /\ pc' \in Working \ {"prepare"} /\ Open /\ status' = status
          /\ UNCHANGED <<file, snap, before>> /\ (ready' => ready /\ cur' = cur)
      BY <2>1, <2>21 DEF TakeSkipped, Taking, Finish, AfterBreak, Control, Working, Looping,
          Failing, Undoing, Unwinding, Ending
    <3> QED
      BY <1>2, <2>1, <3>1, FilesSame
  <2>22. CASE TakeInstall
    <3>1. /\ pc \in Working /\ pc' \in Working \ {"prepare"} /\ Open /\ status' = status
          /\ UNCHANGED <<file, snap, before>> /\ (ready' => ready /\ cur' = cur)
      BY <2>1, <2>22 DEF TakeInstall, Taking, Finish, AfterBreak, Control, Working, Looping,
          Failing, Undoing, Unwinding, Ending
    <3> QED
      BY <1>2, <2>1, <3>1, FilesSame
  <2>23. CASE KeepRemoved
    <3>1. /\ pc \in Working /\ pc' \in Working \ {"prepare"} /\ Open /\ status' = status
          /\ UNCHANGED <<file, snap, before>> /\ (ready' => ready /\ cur' = cur)
      BY <2>1, <2>23 DEF KeepRemoved, Taking, Finish, AfterBreak, Control, Working, Looping,
          Failing, Undoing, Unwinding, Ending
    <3> QED
      BY <1>2, <2>1, <3>1, FilesSame
  <2>24. CASE KeepWritten
    <3>1. /\ pc \in Working /\ pc' \in Working \ {"prepare"} /\ Open /\ status' = status
          /\ UNCHANGED <<file, snap, before>> /\ (ready' => ready /\ cur' = cur)
      BY <2>1, <2>24 DEF KeepWritten, Taking, Finish, AfterBreak, Control, Working, Looping,
          Failing, Undoing, Unwinding, Ending
    <3> QED
      BY <1>2, <2>1, <3>1, FilesSame
  <2>25. CASE RedoRemoved
    <3>0. /\ pc \in Working /\ pc' \in Working /\ Open /\ status' = status
          /\ UNCHANGED <<snap, before, cur>>
          /\ (ready' => ready /\ cur' = cur)
      BY <2>1, <2>25 DEF RedoRemoved, Taking, Redo, Entry, Control, Working, Looping, Failing,
          Undoing, Unwinding, Ending
    <3>1. CASE HasReference(cur) /\ Restore(cur)
      BY <1>2, <2>1, <3>0, <3>1, FilesRestored DEF Relied
    <3>2. CASE ~HasReference(cur) /\ UNCHANGED file
      BY <1>2, <2>1, <3>0, <3>2, FilesSame
    <3> QED
      BY <2>25, <3>1, <3>2 DEF RedoRemoved, Redo
  <2>26. CASE RedoWritten
    <3>0. /\ pc \in Working /\ pc' \in Working /\ Open /\ status' = status
          /\ UNCHANGED <<snap, before, cur>>
          /\ (ready' => ready /\ cur' = cur)
      BY <2>1, <2>26 DEF RedoWritten, Taking, Redo, Entry, Control, Working, Looping, Failing,
          Undoing, Unwinding, Ending
    <3>1. CASE HasReference(cur) /\ Restore(cur)
      BY <1>2, <2>1, <3>0, <3>1, FilesRestored DEF Relied
    <3>2. CASE ~HasReference(cur) /\ UNCHANGED file
      BY <1>2, <2>1, <3>0, <3>2, FilesSame
    <3> QED
      BY <2>26, <3>1, <3>2 DEF RedoWritten, Redo
  <2>27. CASE RedoStarted
    <3>0. /\ pc \in Working /\ pc' \in Working /\ Open /\ status' = status
          /\ UNCHANGED <<snap, before, cur>>
          /\ (ready' => ready /\ cur' = cur)
      BY <2>1, <2>27 DEF RedoStarted, Taking, Redo, Entry, Control, Working, Looping, Failing,
          Undoing, Unwinding, Ending
    <3>1. CASE HasReference(cur) /\ Restore(cur)
      BY <1>2, <2>1, <3>0, <3>1, FilesRestored DEF Relied
    <3>2. CASE ~HasReference(cur) /\ UNCHANGED file
      BY <1>2, <2>1, <3>0, <3>2, FilesSame
    <3> QED
      BY <2>27, <3>1, <3>2 DEF RedoStarted, Redo
  <2>28. CASE InterruptedUndo
    <3>0. /\ pc \in Working /\ pc' \in Working \ {"prepare"} /\ Open /\ status' = status
          /\ UNCHANGED <<snap, before>> /\ pc \in Failing \cup Undoing
          /\ (ready' => ready /\ cur' = cur)
      BY <2>1, <2>28 DEF InterruptedUndo, Control, Working, Looping, Failing, Undoing, Unwinding, Ending
    <3>1. CASE Reference /\ Restore(cur)
      BY <1>2, <2>1, <3>0, <3>1, FilesRestored DEF Reference, Relied
    <3>2. CASE UNCHANGED file
      BY <1>2, <2>1, <3>0, <3>2, FilesSame
    <3> QED
      BY <2>28, <3>1, <3>2 DEF InterruptedUndo
  <2>29. CASE InterruptedJournal
    <3>1. /\ pc \in Working /\ pc' \in Working \ {"prepare"} /\ Open /\ status' = status
          /\ UNCHANGED <<file, snap, before>> /\ (ready' => ready /\ cur' = cur)
      BY <2>1, <2>29 DEF InterruptedJournal, Control, Working, Looping, Failing, Undoing, Unwinding,
          Ending
    <3> QED
      BY <1>2, <2>1, <3>1, FilesSame
  <2>30. CASE Interrupted
    BY <1>2, <2>1, <2>30, FilesLeft DEF Interrupted, Control, Enter, Working, Looping, Failing,
        Undoing, Unwinding, Ending
  <2>31. CASE Discard
    <3>1. pc' = "close" /\ UNCHANGED <<plan, status, file, journal, before>> /\ Open
          /\ \A a \in Action : snap'[a] = "missing"
      BY <2>31 DEF Discard, Control
    <3>2. \A a \in Action : HasReference(a)' = HasReference(a) /\ Target(a)' = Target(a)
      BY <2>1, <3>1 DEF HasReference, Target
    <3>3. ~Discarded' => \A a \in Action : ~HasReference(a)'
      BY <2>1, <3>1 DEF Discarded, HasReference
    <3> QED
      BY <2>1, <3>1, <3>2, <3>3 DEF Files, Fresh, Kept, Untouched, Saved, Aside, Clean, EditSaved,
          Working, Looping, Failing, Undoing, Unwinding, Ending
  <2>32. CASE Close
    BY <1>2, <2>32, FilesClosed DEF Close, Control, Terminal, Enter
  <2>33. CASE Recover
    <3>1. pc' = "next" /\ UNCHANGED <<plan, status, file, snap, journal, before>> /\ Open /\ ready' = FALSE
          /\ pc = "idle" /\ Recoverable
      BY <2>33 DEF Recover, Enter
    <3>2. \A a \in Action : /\ HasReference(a)' = HasReference(a) /\ Target(a)' = Target(a) /\ First(a)' = First(a)
                             /\ Relied(a)' = HasReference(a) /\ Target(a) \in Path
      BY <2>1, <3>1, SamePlan DEF HasReference, Relied
    <3>3. /\ \A a \in Action : HasReference(a) => snap[a] # "missing"
          /\ \A a \in Action : First(a) /\ HasReference(a) => snap[a] = before[Target(a)]
          /\ \A p \in Path : file[p] = "edited" /\ (\E a \in Action : Target(a) = p /\ HasReference(a)) =>
               \E a \in Action : Target(a) = p /\ snap[a] = "edited"
      BY <2>1, <3>1, Inspection
    <3>4. Kept' /\ Saved' /\ EditSaved'
      BY <2>1, <3>1, <3>2, <3>3 DEF Kept, Saved, EditSaved
    <3> QED
      BY <2>1, <3>1, <3>2, <3>4 DEF Files, Fresh, Untouched, Aside, Clean
  <2>34. CASE Abandon
    BY <1>2, <2>1, <2>34, FilesAside DEF Abandon, Control, Enter
  <2>35. CASE Crash
    <3>1. CASE pc \in Working
      BY <1>2, <2>1, <2>35, <3>1, FilesLeft DEF Crash, Control, Enter
    <3>2. CASE pc \in {"discard", "close"}
      BY <1>2, <2>1, <2>35, <3>2, FilesAside DEF Crash, Control, Enter
    <3>3. CASE pc = "cleanup"
      BY <1>2, <2>35, <3>3, FilesClosed DEF Crash, Control, Enter, Terminal
    <3> QED
      BY <2>35, <3>1, <3>2, <3>3 DEF Crash, TypeOK, ProcessType, Steps, Working, Looping, Failing,
          Undoing, Unwinding, Ending
  <2>36. CASE Interrupt
    <3>1. /\ pc \in Working /\ pc' \in Working \ {"prepare"} /\ Open /\ status' = status
          /\ UNCHANGED <<file, snap, before>> /\ (ready' => ready /\ cur' = cur)
      BY <2>1, <2>36 DEF Interrupt, InAction, Control, Working, Looping, Failing, Undoing,
          Unwinding, Ending
    <3> QED
      BY <1>2, <2>1, <3>1, FilesSame
  <2>37. ASSUME NEW p \in Path, UserEdit(p) PROVE Files'
    <3>1. PICK c \in {"edited", Base(plan, p)} \ {file[p]} :
            file' = [file EXCEPT ![p] = c] /\ before' = [before EXCEPT ![p] = c]
      BY <2>37 DEF UserEdit
    <3>2. file'[p] = c /\ before'[p] = c /\ \A r \in Path : r # p => file'[r] = file[r] /\ before'[r] = before[r]
      BY <3>1 DEF TypeOK, DiskType
    <3>3. /\ \A a \in Action : /\ HasReference(a)' = HasReference(a) /\ Target(a)' = Target(a) /\ First(a)' = First(a)
                                /\ Target(a) \in Path
          /\ \A r \in Path : Base(plan, r)' = Base(plan, r)
          /\ Discarded' = Discarded
      BY <2>1, <2>37, SamePlan DEF UserEdit, HasReference, Discarded
    <3>4. pc = "idle" /\ pc' = "idle" /\ status' = status /\ Open /\ snap' = snap
      BY <2>37 DEF UserEdit
    <3>5. Untouched'
      BY <2>1, <3>2, <3>3, <3>4 DEF Files, Untouched
    <3>6. Aside'
      BY <2>1, <3>2, <3>3, <3>4 DEF Files, Aside
    <3> QED
      BY <3>4, <3>5, <3>6 DEF Files, Fresh, Kept, Saved, Clean, EditSaved, Working, Looping,
          Failing, Undoing, Unwinding, Ending
  <2> QED
    BY <2>2, <2>3, <2>4, <2>5, <2>6, <2>7, <2>8, <2>9, <2>10, <2>11, <2>12, <2>13, <2>14, <2>15,
        <2>16, <2>17, <2>18, <2>19, <2>20, <2>21, <2>22, <2>23, <2>24, <2>25, <2>26, <2>27, <2>28,
        <2>29, <2>30, <2>31, <2>32, <2>33, <2>34, <2>35, <2>36, <2>37
    DEF Next, ProcessStep, ExecutorStep, RecoveryStep, StopStep, AbandonStep
<1> QED
  BY <1>1, <1>2

\* What was verified holds until its success is journaled.
LEMMA VerifiedKeeps == ASSUME TypeOK, Control, Journals, Stack, Files, Progress, Next PROVE Verified'
<1> USE DEF runVars, diskVars, procVars, envVars, Enter, Goto, Fault, Finish, Execute, AfterBreak, Action
<1>1. /\ cur \in Action /\ plan' = plan /\ Target(cur) \in Path /\ Kind(cur) \in ActionKinds
      /\ \A a \in Action : IsFile(a)' = IsFile(a) /\ Target(a)' = Target(a) /\ Intended(a)' = Intended(a)
  BY PlanFixed, SamePlan
<1>2. CASE Start
  BY <1>1, <1>2 DEF Start, Verified
<1>3. CASE Take
  BY <1>1, <1>3 DEF Take, Entry, Verified
<1>4. CASE RecordDrift
  BY <1>1, <1>4 DEF RecordDrift, Verified
<1>5. CASE Hold
  BY <1>1, <1>5 DEF Hold, Verified
<1>6. CASE Prepare
  BY <1>1, <1>6 DEF Prepare, Verified
<1>7. CASE JournalRunning
  BY <1>1, <1>7 DEF JournalRunning, Verified
<1>8. CASE Mutate
  <2>1. CASE pc' = "undo"
    BY <2>1 DEF Verified
  <2>2. CASE Apply(cur)
    BY ZenonT(40), <1>1, <1>8, <2>2 DEF Mutate, Control, Prepared, Apply, Holds, Verified, IsFile, ActionKinds,
        TypeOK, DiskType
  <2> QED
    BY <1>8, <2>1, <2>2 DEF Mutate
<1>9. CASE Verify
  BY <1>1, <1>9 DEF Verify, Verified, Holds
<1>10. CASE Commit
  BY <1>1, <1>10 DEF Commit, Verified, Progress, Holds
<1>11. CASE Return
  BY <1>1, <1>11 DEF Return, Verified
<1>12. CASE Undo
  BY <1>1, <1>12 DEF Undo, Verified
<1>13. CASE Fail
  BY <1>1, <1>13 DEF Fail, Verified
<1>14. CASE Disown
  BY <1>1, <1>14 DEF Disown, Verified
<1>15. CASE Unwind
  BY <1>1, <1>15 DEF Unwind, Verified
<1>16. CASE Unjournal
  BY <1>1, <1>16 DEF Unjournal, Verified
<1>17. CASE Unwound
  BY <1>1, <1>17 DEF Unwound, Verified
<1>18. CASE Skip
  BY <1>1, <1>18 DEF Skip, Verified
<1>19. CASE Complete
  BY <1>1, <1>19 DEF Complete, Verified
<1>20. CASE Cleanup
  BY <1>1, <1>20 DEF Cleanup, Verified
<1>21. CASE TakeSkipped
  BY <1>1, <1>21 DEF TakeSkipped, Taking, Verified
<1>22. CASE TakeInstall
  BY <1>1, <1>22 DEF TakeInstall, Taking, Verified
<1>23. CASE KeepRemoved
  BY <1>1, <1>23 DEF KeepRemoved, Taking, Verified
<1>24. CASE KeepWritten
  BY <1>1, <1>24 DEF KeepWritten, Taking, Verified
<1>25. CASE RedoRemoved
  BY <1>1, <1>25 DEF RedoRemoved, Taking, Redo, Entry, Verified
<1>26. CASE RedoWritten
  BY <1>1, <1>26 DEF RedoWritten, Taking, Redo, Entry, Verified
<1>27. CASE RedoStarted
  BY <1>1, <1>27 DEF RedoStarted, Taking, Redo, Entry, Verified
<1>28. CASE InterruptedUndo
  BY <1>1, <1>28 DEF InterruptedUndo, Verified
<1>29. CASE InterruptedJournal
  BY <1>1, <1>29 DEF InterruptedJournal, Verified
<1>30. CASE Interrupted
  BY <1>1, <1>30 DEF Interrupted, Verified
<1>31. CASE Discard
  BY <1>1, <1>31 DEF Discard, Verified
<1>32. CASE Close
  BY <1>1, <1>32 DEF Close, Verified
<1>33. CASE Recover
  BY <1>1, <1>33 DEF Recover, Verified
<1>34. CASE Abandon
  BY <1>1, <1>34 DEF Abandon, Verified
<1>35. CASE Crash
  BY <1>1, <1>35 DEF Crash, Verified
<1>36. CASE Interrupt
  BY <1>1, <1>36 DEF Interrupt, InAction, Verified
<1>37. ASSUME NEW p \in Path, UserEdit(p) PROVE Verified'
  BY <1>1, <1>37 DEF UserEdit, Verified
<1> QED
  BY <1>2, <1>3, <1>4, <1>5, <1>6, <1>7, <1>8, <1>9, <1>10, <1>11, <1>12, <1>13, <1>14, <1>15,
      <1>16, <1>17, <1>18, <1>19, <1>20, <1>21, <1>22, <1>23, <1>24, <1>25, <1>26, <1>27, <1>28,
      <1>29, <1>30, <1>31, <1>32, <1>33, <1>34, <1>35, <1>36, <1>37
  DEF Next, ProcessStep, ExecutorStep, RecoveryStep, StopStep, AbandonStep

\* The loop goes on with the same action, or elsewhere.
LEMMA DoneSame ==
  ASSUME TypeOK, Done, plan' = plan, UNCHANGED file,
         pc' \in Looping \/ (pc' = "complete" /\ result' = "verified") => pc' # "complete" /\ pc \in Looping /\ cur' = cur
  PROVE  Done'
BY SamePlan DEF Done

\* The loop leaves an action that is as the plan intends it.
LEMMA DoneNext ==
  ASSUME TypeOK, Done, plan' = plan, UNCHANGED file, pc \in Looping, Finish("verified"),
         Kind(cur) \notin {"human", "drift"}, Final(cur) => file[Target(cur)] = Intended(cur)
  PROVE  Done'
<1>1. /\ Action' = Action /\ Action = 1..Len(plan) /\ Len(plan) \in Nat /\ cur \in 1..Len(plan)
      /\ \A a \in Action : /\ Kind(a)' = Kind(a) /\ Final(a)' = Final(a) /\ Target(a)' = Target(a) /\ Intended(a)' = Intended(a)
  BY SamePlan
<1>2. \A a \in Action : a < cur \/ a = cur =>
        Kind(a) \notin {"human", "drift"} /\ (Final(a) => file[Target(a)] = Intended(a))
  BY DEF Done
<1>3. \A a \in Action : a < cur' \/ pc' = "complete" => a < cur \/ a = cur
  <2>1. CASE cur < Len(plan)
    BY <1>1, <2>1 DEF Finish
  <2>2. CASE ~(cur < Len(plan))
    BY <1>1, <2>2
  <2> QED
    BY <2>1, <2>2
<1> QED
  BY <1>1, <1>2, <1>3 DEF Done

\* The content of a path is replaced by the last action on it, or the loop is left.
LEMMA DonePath ==
  ASSUME TypeOK, Done, plan' = plan, pc \in Looping, cur' = cur, pc' # "complete", IsFile(cur),
         NEW c, file' = [file EXCEPT ![Target(cur)] = c]
  PROVE  Done'
<1>1. /\ Action' = Action /\ Action \subseteq Nat /\ cur \in Action
      /\ \A a \in Action : /\ Kind(a)' = Kind(a) /\ Final(a)' = Final(a) /\ Target(a)' = Target(a) /\ Intended(a)' = Intended(a)
                           /\ Target(a) \in Path
  BY SamePlan
<1>2. \A a \in Action : Target(a) # Target(cur) => file'[Target(a)] = file[Target(a)]
  BY <1>1 DEF TypeOK, DiskType
<1>3. \A a \in Action : a < cur /\ Final(a) => Target(a) # Target(cur)
  BY <1>1 DEF Final
<1> QED
  BY <1>1, <1>2, <1>3 DEF Done

\* The loop leaves an action only when its target is as the plan intends it, and
\* what is done later on the same path belongs to a later action.
LEMMA DoneKeeps == ASSUME TypeOK, Control, Journals, Stack, Files, Progress, Next PROVE Done'
<1> USE DEF runVars, diskVars, procVars, envVars, Enter, Goto, Fault, Finish, Execute, AfterBreak, Action
<1>1. /\ cur \in Action /\ plan' = plan /\ Kind(cur) \in ActionKinds /\ result \in {"verified", "failed", "human", "drift"}
  BY PlanFixed, SamePlan DEF TypeOK, ProcessType
<1>2. CASE Start
  BY <1>1, <1>2, SamePlan DEF Start, Done
<1>3. CASE Take
  BY <1>1, <1>3, DoneSame DEF Take, Entry, Progress, Control, Working, Looping, Failing, Undoing,
      Unwinding, Ending
<1>4. CASE RecordDrift
  BY <1>1, <1>4, DoneSame DEF RecordDrift, Progress, Control, Working, Looping, Failing, Undoing,
      Unwinding, Ending
<1>5. CASE Hold
  <2>1. pc' # "next" /\ UNCHANGED file /\ result' # "verified" /\ pc' \notin Looping
    BY <1>1, <1>5 DEF Hold, Control, Looping
  <2> QED
    BY <1>1, <2>1, DoneSame DEF Progress
<1>6. CASE Prepare
  BY <1>1, <1>6, DoneSame DEF Prepare, Progress, Control, Working, Looping, Failing, Undoing,
      Unwinding, Ending
<1>7. CASE JournalRunning
  BY <1>1, <1>7, DoneSame DEF JournalRunning, Progress, Control, Working, Looping, Failing, Undoing,
      Unwinding, Ending
<1>8. CASE Mutate
  <2>1. pc \in Looping /\ cur' = cur /\ pc' # "complete"
    BY <1>8 DEF Mutate, Looping
  <2>2. CASE UNCHANGED file
    BY <1>1, <2>1, <2>2, DoneSame DEF Progress
  <2>3. CASE IsFile(cur) /\ Apply(cur)
    BY <1>1, <2>1, <2>3, DonePath DEF Progress, Apply
  <2> QED
    BY <1>8, <2>2, <2>3 DEF Mutate, Apply
<1>9. CASE Verify
  BY <1>1, <1>9, DoneSame DEF Verify, Progress, Control, Working, Looping, Failing, Undoing,
      Unwinding, Ending
<1>10. CASE Commit
  BY <1>1, <1>10, DoneSame DEF Commit, Progress, Control, Working, Looping, Failing, Undoing,
      Unwinding, Ending
<1>11. CASE Return
  <2>1. pc = "return" /\ Finish("verified") /\ UNCHANGED file /\ Kind(cur) \notin {"human", "drift"}
        /\ (Final(cur) => file[Target(cur)] = Intended(cur)) /\ pc \in Looping
    BY <1>11 DEF Return, Control, Prepared, Progress, Verified, Holds, Final, Looping
  <2> QED
    BY <1>1, <2>1, DoneNext DEF Progress
<1>12. CASE Undo
  BY <1>1, <1>12 DEF Undo, Done, Working, Looping, Failing, Undoing, Unwinding, Ending
<1>13. CASE Fail
  BY <1>1, <1>13, DoneSame DEF Fail, Progress, Control, Working, Looping, Failing, Undoing,
      Unwinding, Ending
<1>14. CASE Disown
  BY <1>1, <1>14, DoneSame DEF Disown, Progress, Control, Working, Looping, Failing, Undoing,
      Unwinding, Ending
<1>15. CASE Unwind
  BY <1>1, <1>15 DEF Unwind, Done, Working, Looping, Failing, Undoing, Unwinding, Ending
<1>16. CASE Unjournal
  BY <1>1, <1>16, DoneSame DEF Unjournal, Progress, Control, Working, Looping, Failing, Undoing,
      Unwinding, Ending
<1>17. CASE Unwound
  <2>1. result # "verified"
    BY <1>17 DEF Unwound, Control, Unwinding
  <2> QED
    BY <1>1, <1>17, <2>1 DEF Unwound, Done, Looping
<1>18. CASE Skip
  <2>1. result # "verified"
    BY <1>18 DEF Skip, Control
  <2> QED
    BY <1>1, <1>18, <2>1 DEF Skip, Done, Looping
<1>19. CASE Complete
  BY <1>1, <1>19, DoneSame DEF Complete, Progress, Control, Working, Looping, Failing, Undoing,
      Unwinding, Ending
<1>20. CASE Cleanup
  BY <1>1, <1>20, DoneSame DEF Cleanup, Progress, Control, Working, Looping, Failing, Undoing,
      Unwinding, Ending
<1>21. CASE TakeSkipped
  BY <1>1, <1>21, DoneSame DEF TakeSkipped, Taking, Progress, Control, Working, Looping, Failing,
      Undoing, Unwinding, Ending
<1>22. CASE TakeInstall
  <2>1. UNCHANGED file /\ Kind(cur) \notin {"human", "drift"} /\ pc \in Looping /\ ~Final(cur) /\ mode = "recover"
    BY <1>22 DEF TakeInstall, Taking, Final, IsFile, Looping
  <2>2. CASE Finish("verified")
    BY <1>1, <2>1, <2>2, DoneNext DEF Progress
  <2>3. CASE Finish("human")
    BY <1>1, <2>1, <2>3, DoneSame DEF Progress, Looping
  <2> QED
    BY <1>22, <2>2, <2>3 DEF TakeInstall
<1>23. CASE KeepRemoved
  <2>1. Finish("verified") /\ UNCHANGED file /\ Kind(cur) \notin {"human", "drift"} /\ pc \in Looping
        /\ ~Final(cur)
    BY <1>23 DEF KeepRemoved, Taking, Final, Looping, SuccessorWrites, Successors
  <2> QED
    BY <1>1, <2>1, DoneNext DEF Progress
<1>24. CASE KeepWritten
  <2>1. Finish("verified") /\ UNCHANGED file /\ Kind(cur) \notin {"human", "drift"} /\ pc \in Looping
        /\ (Final(cur) => file[Target(cur)] = Intended(cur))
    BY <1>24 DEF KeepWritten, Taking, Holds, Final, Looping
  <2> QED
    BY <1>1, <2>1, DoneNext DEF Progress
<1>25. CASE RedoRemoved
  <2>1. pc \in Looping /\ cur' = cur /\ pc' # "complete"
    BY <1>25 DEF RedoRemoved, Taking, Redo, Entry, Looping
  <2>2. CASE UNCHANGED file
    BY <1>1, <2>1, <2>2, DoneSame DEF Progress
  <2>3. CASE HasReference(cur) /\ Restore(cur)
    <3>1. IsFile(cur)
      BY <1>1, <1>25, <2>3 DEF Journals, Referenced, RedoRemoved, Taking, Redo, Entry, Control,
          Open, Working, Looping
    <3> QED
      BY <1>1, <2>1, <2>3, <3>1, DonePath DEF Progress, Restore
  <2> QED
    BY <1>25, <2>2, <2>3 DEF RedoRemoved, Taking, Redo, Entry
<1>26. CASE RedoWritten
  <2>1. pc \in Looping /\ cur' = cur /\ pc' # "complete"
    BY <1>26 DEF RedoWritten, Taking, Redo, Entry, Looping
  <2>2. CASE UNCHANGED file
    BY <1>1, <2>1, <2>2, DoneSame DEF Progress
  <2>3. CASE HasReference(cur) /\ Restore(cur)
    <3>1. IsFile(cur)
      BY <1>1, <1>26, <2>3 DEF Journals, Referenced, RedoWritten, Taking, Redo, Entry, Control,
          Open, Working, Looping
    <3> QED
      BY <1>1, <2>1, <2>3, <3>1, DonePath DEF Progress, Restore
  <2> QED
    BY <1>26, <2>2, <2>3 DEF RedoWritten, Taking, Redo, Entry
<1>27. CASE RedoStarted
  <2>1. pc \in Looping /\ cur' = cur /\ pc' # "complete"
    BY <1>27 DEF RedoStarted, Taking, Redo, Entry, Looping
  <2>2. CASE UNCHANGED file
    BY <1>1, <2>1, <2>2, DoneSame DEF Progress
  <2>3. CASE HasReference(cur) /\ Restore(cur)
    <3>1. IsFile(cur)
      BY <1>1, <1>27, <2>3 DEF Journals, Referenced, RedoStarted, Taking, Redo, Entry, Control,
          Open, Working, Looping
    <3> QED
      BY <1>1, <2>1, <2>3, <3>1, DonePath DEF Progress, Restore
  <2> QED
    BY <1>27, <2>2, <2>3 DEF RedoStarted, Taking, Redo, Entry
<1>28. CASE InterruptedUndo
  BY <1>1, <1>28 DEF InterruptedUndo, Done, Working, Looping, Failing, Undoing, Unwinding, Ending
<1>29. CASE InterruptedJournal
  BY <1>1, <1>29, DoneSame DEF InterruptedJournal, Progress, Control, Working, Looping, Failing,
      Undoing, Unwinding, Ending
<1>30. CASE Interrupted
  BY <1>1, <1>30, DoneSame DEF Interrupted, Progress, Control, Working, Looping, Failing, Undoing,
      Unwinding, Ending
<1>31. CASE Discard
  BY <1>1, <1>31, DoneSame DEF Discard, Progress, Control, Working, Looping, Failing, Undoing,
      Unwinding, Ending
<1>32. CASE Close
  BY <1>1, <1>32, DoneSame DEF Close, Progress, Control, Working, Looping, Failing, Undoing,
      Unwinding, Ending
<1>33. CASE Recover
  BY <1>1, <1>33, SamePlan DEF Recover, Done
<1>34. CASE Abandon
  BY <1>1, <1>34, DoneSame DEF Abandon, Progress, Control, Working, Looping, Failing, Undoing,
      Unwinding, Ending
<1>35. CASE Crash
  BY <1>1, <1>35, DoneSame DEF Crash, Progress, Control, Working, Looping, Failing, Undoing,
      Unwinding, Ending
<1>36. CASE Interrupt
  BY <1>1, <1>36, DoneSame DEF Interrupt, InAction, Progress, Control, Working, Looping, Failing,
      Undoing, Unwinding, Ending
<1>37. ASSUME NEW p \in Path, UserEdit(p) PROVE Done'
  BY <1>1, <1>37 DEF UserEdit, Done, Looping
<1> QED
  BY <1>2, <1>3, <1>4, <1>5, <1>6, <1>7, <1>8, <1>9, <1>10, <1>11, <1>12, <1>13, <1>14, <1>15,
      <1>16, <1>17, <1>18, <1>19, <1>20, <1>21, <1>22, <1>23, <1>24, <1>25, <1>26, <1>27, <1>28,
      <1>29, <1>30, <1>31, <1>32, <1>33, <1>34, <1>35, <1>36, <1>37
  DEF Next, ProcessStep, ExecutorStep, RecoveryStep, StopStep, AbandonStep

\* A failed action whose inverse succeeded has left its path as the user did.
LEMMA UndoneKeeps == ASSUME TypeOK, Control, Journals, Stack, Files, Progress, Next PROVE Undone'
<1> USE DEF runVars, diskVars, procVars, envVars, Enter, Goto, Fault, Finish, Execute, AfterBreak, Action
<1>1. /\ cur \in Action /\ plan' = plan
      /\ \A a \in Action : First(a)' = First(a) /\ Target(a)' = Target(a) /\ (First(a) => IsFile(a)) /\ Target(a) \in Path
  BY PlanFixed, SamePlan DEF First
<1>2. CASE Start
  BY <1>1, <1>2 DEF Start, Progress, Undone
<1>3. CASE Take
  BY <1>1, <1>3 DEF Take, Entry, Progress, Undone
<1>4. CASE RecordDrift
  BY <1>1, <1>4 DEF RecordDrift, Progress, Undone
<1>5. CASE Hold
  BY <1>1, <1>5 DEF Hold, Progress, Undone
<1>6. CASE Prepare
  BY <1>1, <1>6 DEF Prepare, Undone, Files, Clean
<1>7. CASE JournalRunning
  BY <1>1, <1>7 DEF JournalRunning, Progress, Undone
<1>8. CASE Mutate
  BY <1>1, <1>8 DEF Mutate, Progress, Undone
<1>9. CASE Verify
  BY <1>1, <1>9 DEF Verify, Progress, Undone
<1>10. CASE Commit
  BY <1>1, <1>10 DEF Commit, Progress, Undone
<1>11. CASE Return
  BY <1>1, <1>11 DEF Return, Progress, Undone
<1>12. CASE Undo
  <2>1. CASE failedRollbacks' # {}
    BY <2>1 DEF Undone
  <2>2. CASE First(cur) /\ failedRollbacks' = {}
    <3>1. Reference /\ Restore(cur) /\ snap[cur] = before[Target(cur)]
      BY <1>1, <1>12, <2>2 DEF Undo, Control, Reference, Files, Saved, Relied, Working, Failing
    <3>2. file'[Target(cur)] = snap[cur] /\ cur' = cur /\ before' = before
      BY <1>1, <1>12, <3>1 DEF Undo, Restore, TypeOK, DiskType
    <3> QED
      BY <1>1, <3>1, <3>2 DEF Undone
  <2> QED
    BY <1>1, <1>12, <2>1, <2>2 DEF Undo, Undone
<1>13. CASE Fail
  BY <1>1, <1>13 DEF Fail, Progress, Undone
<1>14. CASE Disown
  BY <1>1, <1>14 DEF Disown, Progress, Undone
<1>15. CASE Unwind
  BY <1>1, <1>15 DEF Unwind, Progress, Undone
<1>16. CASE Unjournal
  BY <1>1, <1>16 DEF Unjournal, Progress, Undone
<1>17. CASE Unwound
  BY <1>1, <1>17 DEF Unwound, Progress, Undone
<1>18. CASE Skip
  BY <1>1, <1>18 DEF Skip, Progress, Undone
<1>19. CASE Complete
  BY <1>1, <1>19 DEF Complete, Progress, Undone
<1>20. CASE Cleanup
  BY <1>1, <1>20 DEF Cleanup, Progress, Undone
<1>21. CASE TakeSkipped
  BY <1>1, <1>21 DEF TakeSkipped, Taking, Progress, Undone
<1>22. CASE TakeInstall
  BY <1>1, <1>22 DEF TakeInstall, Taking, Progress, Undone
<1>23. CASE KeepRemoved
  BY <1>1, <1>23 DEF KeepRemoved, Taking, Progress, Undone
<1>24. CASE KeepWritten
  BY <1>1, <1>24 DEF KeepWritten, Taking, Progress, Undone
<1>25. CASE RedoRemoved
  BY <1>1, <1>25 DEF RedoRemoved, Taking, Redo, Entry, Progress, Undone
<1>26. CASE RedoWritten
  BY <1>1, <1>26 DEF RedoWritten, Taking, Redo, Entry, Progress, Undone
<1>27. CASE RedoStarted
  BY <1>1, <1>27 DEF RedoStarted, Taking, Redo, Entry, Progress, Undone
<1>28. CASE InterruptedUndo
  BY <1>1, <1>28 DEF InterruptedUndo, Progress, Undone
<1>29. CASE InterruptedJournal
  BY <1>1, <1>29 DEF InterruptedJournal, Progress, Undone
<1>30. CASE Interrupted
  BY <1>1, <1>30 DEF Interrupted, Progress, Undone
<1>31. CASE Discard
  BY <1>1, <1>31 DEF Discard, Progress, Undone
<1>32. CASE Close
  BY <1>1, <1>32 DEF Close, Progress, Undone
<1>33. CASE Recover
  BY <1>1, <1>33 DEF Recover, Progress, Undone
<1>34. CASE Abandon
  BY <1>1, <1>34 DEF Abandon, Progress, Undone
<1>35. CASE Crash
  BY <1>1, <1>35 DEF Crash, Progress, Undone
<1>36. CASE Interrupt
  BY <1>1, <1>36 DEF Interrupt, InAction, Progress, Undone
<1>37. ASSUME NEW p \in Path, UserEdit(p) PROVE Undone'
  BY <1>1, <1>37 DEF UserEdit, Progress, Undone
<1> QED
  BY <1>2, <1>3, <1>4, <1>5, <1>6, <1>7, <1>8, <1>9, <1>10, <1>11, <1>12, <1>13, <1>14, <1>15,
      <1>16, <1>17, <1>18, <1>19, <1>20, <1>21, <1>22, <1>23, <1>24, <1>25, <1>26, <1>27, <1>28,
      <1>29, <1>30, <1>31, <1>32, <1>33, <1>34, <1>35, <1>36, <1>37
  DEF Next, ProcessStep, ExecutorStep, RecoveryStep, StopStep, AbandonStep

\* The inverse of the first action on a path leaves it as the user did.
LEMMA ReinstatedKeeps == ASSUME TypeOK, Control, Journals, Stack, Files, Progress, Next PROVE Reinstated'
<1> USE DEF runVars, diskVars, procVars, envVars, Enter, Goto, Fault, Finish, Execute, AfterBreak, Action
<1>1. /\ cur \in Action /\ plan' = plan
      /\ \A a \in Action : First(a)' = First(a) /\ Target(a)' = Target(a) /\ (First(a) => IsFile(a)) /\ Target(a) \in Path
  BY PlanFixed, SamePlan DEF First
<1>2. CASE Start
  BY <1>1, <1>2 DEF Start, Reinstated
<1>3. CASE Take
  BY <1>1, <1>3 DEF Take, Entry, Reinstated
<1>4. CASE RecordDrift
  BY <1>1, <1>4 DEF RecordDrift, Reinstated
<1>5. CASE Hold
  BY <1>1, <1>5 DEF Hold, Reinstated
<1>6. CASE Prepare
  BY <1>1, <1>6 DEF Prepare, Reinstated
<1>7. CASE JournalRunning
  BY <1>1, <1>7 DEF JournalRunning, Reinstated
<1>8. CASE Mutate
  BY <1>1, <1>8 DEF Mutate, Reinstated
<1>9. CASE Verify
  BY <1>1, <1>9 DEF Verify, Reinstated
<1>10. CASE Commit
  BY <1>1, <1>10 DEF Commit, Reinstated
<1>11. CASE Return
  BY <1>1, <1>11 DEF Return, Reinstated
<1>12. CASE Undo
  BY <1>1, <1>12 DEF Undo, Reinstated
<1>13. CASE Fail
  BY <1>1, <1>13 DEF Fail, Reinstated
<1>14. CASE Disown
  BY <1>1, <1>14 DEF Disown, Reinstated
<1>15. CASE Unwind
  <2>1. CASE pc' # "unjournal"
    BY <2>1 DEF Reinstated
  <2>2. CASE Restore(Top.action) /\ Goto("unjournal")
    <3>1. /\ Top.action \in Action /\ HasReference(Top.action) /\ Top = stack[1] /\ stack' = stack /\ before' = before
          /\ pc \in Working
      BY <1>15, <2>2, TopFacts DEF Unwind, Stack, Working, Unwinding
    <3>2. file'[Target(Top.action)] = snap[Top.action]
      BY <1>1, <2>2, <3>1 DEF Restore, TypeOK, DiskType
    <3>3. First(Top.action) => snap[Top.action] = before[Target(Top.action)]
      BY <3>1 DEF Files, Saved, Relied
    <3> QED
      BY <1>1, <3>1, <3>2, <3>3 DEF Reinstated
  <2> QED
    BY <1>15, <2>1, <2>2 DEF Unwind
<1>16. CASE Unjournal
  BY <1>1, <1>16 DEF Unjournal, Reinstated
<1>17. CASE Unwound
  BY <1>1, <1>17 DEF Unwound, Reinstated
<1>18. CASE Skip
  BY <1>1, <1>18 DEF Skip, Reinstated
<1>19. CASE Complete
  BY <1>1, <1>19 DEF Complete, Reinstated
<1>20. CASE Cleanup
  BY <1>1, <1>20 DEF Cleanup, Reinstated
<1>21. CASE TakeSkipped
  BY <1>1, <1>21 DEF TakeSkipped, Taking, Reinstated
<1>22. CASE TakeInstall
  BY <1>1, <1>22 DEF TakeInstall, Taking, Reinstated
<1>23. CASE KeepRemoved
  BY <1>1, <1>23 DEF KeepRemoved, Taking, Reinstated
<1>24. CASE KeepWritten
  BY <1>1, <1>24 DEF KeepWritten, Taking, Reinstated
<1>25. CASE RedoRemoved
  BY <1>1, <1>25 DEF RedoRemoved, Taking, Redo, Entry, Reinstated
<1>26. CASE RedoWritten
  BY <1>1, <1>26 DEF RedoWritten, Taking, Redo, Entry, Reinstated
<1>27. CASE RedoStarted
  BY <1>1, <1>27 DEF RedoStarted, Taking, Redo, Entry, Reinstated
<1>28. CASE InterruptedUndo
  BY <1>1, <1>28 DEF InterruptedUndo, Reinstated
<1>29. CASE InterruptedJournal
  BY <1>1, <1>29 DEF InterruptedJournal, Reinstated
<1>30. CASE Interrupted
  BY <1>1, <1>30 DEF Interrupted, Reinstated
<1>31. CASE Discard
  BY <1>1, <1>31 DEF Discard, Reinstated
<1>32. CASE Close
  BY <1>1, <1>32 DEF Close, Reinstated
<1>33. CASE Recover
  BY <1>1, <1>33 DEF Recover, Reinstated
<1>34. CASE Abandon
  BY <1>1, <1>34 DEF Abandon, Reinstated
<1>35. CASE Crash
  BY <1>1, <1>35 DEF Crash, Reinstated
<1>36. CASE Interrupt
  BY <1>1, <1>36 DEF Interrupt, Reinstated
<1>37. ASSUME NEW p \in Path, UserEdit(p) PROVE Reinstated'
  BY <1>1, <1>37 DEF UserEdit, Reinstated
<1> QED
  BY <1>2, <1>3, <1>4, <1>5, <1>6, <1>7, <1>8, <1>9, <1>10, <1>11, <1>12, <1>13, <1>14, <1>15,
      <1>16, <1>17, <1>18, <1>19, <1>20, <1>21, <1>22, <1>23, <1>24, <1>25, <1>26, <1>27, <1>28,
      <1>29, <1>30, <1>31, <1>32, <1>33, <1>34, <1>35, <1>36, <1>37
  DEF Next, ProcessStep, ExecutorStep, RecoveryStep, StopStep, AbandonStep

\* A failure begins to unwind what was completed before it.
LEMMA UnwindBegins ==
  ASSUME TypeOK, Control, Journals, Stack, Files, plan' = plan, UNCHANGED <<file, before, stack>>,
         pc \in Looping \cup Failing, Open, Finish("failed"),
         failedRollbacks = {} /\ First(cur) => file[Target(cur)] = before[Target(cur)],
         pc \in {"fail", "disown"} \/ ~IsFile(cur) \/ ~HasReference(cur)
  PROVE  Unwinds'
<1>1. /\ Action' = Action /\ cur \in Action /\ Action \subseteq Nat
      /\ \A a \in Action : First(a)' = First(a) /\ Target(a)' = Target(a) /\ Stacked(a)' = Stacked(a)
                           /\ Target(a) \in Path /\ (First(a) => IsFile(a))
  BY SamePlan DEF Stacked, First
<1>2. cur' = cur /\ mode' = mode /\ failedRollbacks' = failedRollbacks
  BY DEF Finish
<1>3. \A a \in Action : First(a) /\ a < cur => Stacked(a)
  BY <1>1 DEF Stack
<1>4. ASSUME NEW a \in Action, First(a), a > cur, mode = "run" PROVE file[Target(a)] = before[Target(a)]
  <2>1. \A b \in Action : Target(b) = Target(a) => b >= a
    BY <1>1, <1>4 DEF First
  <2>2. \A b \in Action : b > cur => ~HasReference(b)
    BY <1>4 DEF Journals, Unreached, Working
  <2>3. \A b \in Action : Target(b) = Target(a) => ~HasReference(b)
    <3> SUFFICES ASSUME NEW b \in Action, Target(b) = Target(a) PROVE b > cur
      BY <2>2
    <3>1. b >= a /\ a > cur /\ a \in Nat /\ b \in Nat /\ cur \in Nat
      BY <1>1, <1>4, <2>1
    <3> QED
      BY <3>1
  <2> QED
    BY <1>1, <2>3 DEF Files, Untouched
<1> QED
  BY <1>1, <1>2, <1>3, <1>4 DEF Unwinds

\* A path that is not as the user left it has its first action among those
\* still to be rolled back.
LEMMA UnwindsKeeps == ASSUME TypeOK, Control, Journals, Stack, Files, Progress, Next PROVE Unwinds'
<1> USE DEF runVars, diskVars, procVars, envVars, Enter, Goto, Fault, Finish, Execute, AfterBreak, Steps
<1>1. /\ Action' = Action /\ cur \in Action /\ plan' = plan /\ Action \subseteq Nat
      /\ \A a \in Action : First(a)' = First(a) /\ Target(a)' = Target(a) /\ (First(a) => IsFile(a)) /\ Target(a) \in Path
  BY PlanFixed, SamePlan DEF First
<1>2. CASE Start
  BY <1>1, <1>2 DEF Start, Unwinds, Unwinding, Ending
<1>3. CASE Take
  BY <1>1, <1>3 DEF Take, Entry, Unwinds, Unwinding, Ending
<1>4. CASE RecordDrift
  <2>1. CASE Finish("failed")
    BY <1>1, <1>4, <2>1, UnwindBegins DEF RecordDrift, Control, IsFile, First, Working, Looping,
        Failing, Undoing, Unwinding, Ending
  <2>2. CASE Goto("hold")
    BY <2>2 DEF Unwinds, Unwinding, Ending
  <2> QED
    BY <1>4, <2>1, <2>2 DEF RecordDrift
<1>5. CASE Hold
  <2>1. CASE Finish("failed")
    BY <1>1, <1>5, <2>1, UnwindBegins DEF Hold, Control, IsFile, First, Working, Looping, Failing,
        Undoing, Unwinding, Ending
  <2>2. CASE Finish(Kind(cur))
    BY <1>5, <2>2 DEF Hold, Control, Unwinds, Unwinding, Ending
  <2> QED
    BY <1>5, <2>1, <2>2 DEF Hold
<1>6. CASE Prepare
  BY <1>1, <1>6 DEF Prepare, Unwinds, Unwinding, Ending
<1>7. CASE JournalRunning
  BY <1>1, <1>7 DEF JournalRunning, Unwinds, Unwinding, Ending
<1>8. CASE Mutate
  BY <1>1, <1>8 DEF Mutate, Unwinds, Unwinding, Ending
<1>9. CASE Verify
  BY <1>1, <1>9 DEF Verify, Unwinds, Unwinding, Ending
<1>10. CASE Commit
  BY <1>1, <1>10 DEF Commit, Unwinds, Unwinding, Ending
<1>11. CASE Return
  BY <1>1, <1>11 DEF Return, Unwinds, Unwinding, Ending
<1>12. CASE Undo
  BY <1>1, <1>12 DEF Undo, Unwinds, Unwinding, Ending
<1>13. CASE Fail
  <2>1. CASE Finish("failed") /\ UNCHANGED stack
    BY <1>1, <1>13, <2>1, UnwindBegins DEF Fail, Control, Progress, Undone, Working, Looping,
        Failing, Undoing, Unwinding, Ending
  <2>2. CASE Goto("disown")
    BY <2>2 DEF Unwinds, Unwinding, Ending
  <2> QED
    BY <1>13, <2>1, <2>2 DEF Fail
<1>14. CASE Disown
  BY <1>1, <1>14, UnwindBegins DEF Disown, Control, Progress, Undone, Working, Looping, Failing,
      Undoing, Unwinding, Ending
<1>15. CASE Unwind
  <2>1. CASE failedRollbacks' # {}
    BY <2>1 DEF Unwinds
  <2>2. CASE Restore(Top.action) /\ Goto("unjournal")
    <3>1. /\ Top.action \in Action /\ Top = stack[1] /\ 1 \in DOMAIN stack /\ HasReference(Top.action)
          /\ UNCHANGED <<stack, before, mode, cur, failedRollbacks, result>> /\ pc \in Working /\ pc \in Unwinding
      BY <1>15, <2>2, TopFacts DEF Unwind, Stack, Working, Unwinding
    <3>2. \A a \in Action : Target(a) # Target(Top.action) => file'[Target(a)] = file[Target(a)]
      BY <1>1, <2>2, <3>1 DEF Restore, TypeOK, DiskType
    <3>3. file'[Target(Top.action)] = snap[Top.action]
      BY <1>1, <2>2, <3>1 DEF Restore, TypeOK, DiskType
    <3>4. ASSUME NEW a \in Action, First(a), Target(a) = Target(Top.action)
          PROVE  file'[Target(a)] = before[Target(a)] \/ Stacked(a)
      <4>1. CASE a = Top.action
        BY <3>1, <3>3, <3>4, <4>1 DEF Files, Saved, Relied
      <4>2. CASE a # Top.action
        <5>1. a < Top.action
          <6>1. ~(Top.action < a)
            BY <3>1, <3>4 DEF First
          <6>2. a \in Nat /\ Top.action \in Nat
            BY <1>1, <3>1
          <6> QED
            BY <4>2, <6>1, <6>2
        <5> QED
          BY <3>1, <3>4, <5>1 DEF Stack
      <4> QED
        BY <4>1, <4>2
    <3>5. \A a \in Action : Stacked(a)' = Stacked(a)
      BY <3>1 DEF Stacked
    <3> QED
      BY <1>1, <3>1, <3>2, <3>4, <3>5 DEF Progress, Unwinds
  <2> QED
    BY <1>15, <2>1, <2>2 DEF Unwind
<1>16. CASE Unjournal
  <2>1. /\ Top.action \in Action /\ Top = stack[1] /\ stack # <<>> /\ stack' = Tail(stack) /\ stack \in Seq(Pushes)
        /\ UNCHANGED <<file, before, mode, cur, failedRollbacks, result>> /\ pc = "unjournal"
    BY <1>16, TopFacts DEF Unjournal, Stack, TypeOK, ProcessType
  <2>2. \A a \in Action : Stacked(a) => Stacked(a)' \/ a = stack[1].action
    <3> SUFFICES ASSUME NEW a \in Action, Stacked(a), a # stack[1].action PROVE \E i \in DOMAIN stack' : stack'[i].action = a
      BY DEF Stacked
    <3>1. PICK k \in DOMAIN stack : stack[k].action = a
      BY DEF Stacked
    <3>2. k # 1 /\ k - 1 \in DOMAIN stack' /\ stack'[k - 1] = stack[k]
      BY <2>1, <3>1, Popped
    <3> QED
      BY <3>1, <3>2
  <2> QED
    BY <1>1, <2>1, <2>2 DEF Progress, Unwinds, Reinstated, Unwinding
<1>17. CASE Unwound
  <2>1. /\ UNCHANGED <<file, before, stack, mode, failedRollbacks, result>> /\ pc \in Unwinding \cup Ending
        /\ (cur' = cur \/ mode = "run")
    BY <1>17 DEF Unwound, Control, Unwinding, Ending
  <2>2. \A a \in Action : Stacked(a)' = Stacked(a)
    BY <2>1 DEF Stacked
  <2> QED
    BY <1>1, <2>1, <2>2 DEF Progress, Unwinds
<1>18. CASE Skip
  <2>1. /\ UNCHANGED <<file, before, stack, mode, failedRollbacks, result>> /\ pc \in Unwinding \cup Ending
        /\ (cur' = cur \/ mode = "run")
    BY <1>18 DEF Skip, Control, Unwinding, Ending
  <2>2. \A a \in Action : Stacked(a)' = Stacked(a)
    BY <2>1 DEF Stacked
  <2> QED
    BY <1>1, <2>1, <2>2 DEF Progress, Unwinds
<1>19. CASE Complete
  BY <1>1, <1>19 DEF Complete, Unwinds, Unwinding, Ending
<1>20. CASE Cleanup
  BY <1>1, <1>20 DEF Cleanup, Unwinds, Unwinding, Ending
<1>21. CASE TakeSkipped
  <2>1. CASE Finish("failed")
    <3>1. ~HasReference(cur) /\ Open /\ pc = "next" /\ UNCHANGED <<file, before, stack>>
      BY <1>1, <1>21 DEF TakeSkipped, Taking, Control, Journals, Referenced, Started, Open, Working,
          Looping, Failing, Undoing, Unwinding, Ending
    <3>2. First(cur) => file[Target(cur)] = before[Target(cur)]
      <4>1. First(cur) => \A a \in Action : Target(a) = Target(cur) => ~HasReference(a)
        BY <1>1, <3>1, SamePlan DEF Journals, Referenced, First, Open
      <4> QED
        BY <1>1, <3>1, <4>1 DEF Files, Untouched
    <3> QED
      BY <1>1, <2>1, <3>1, <3>2, UnwindBegins DEF Looping
  <2>2. CASE ~Finish("failed")
    BY <1>21, <2>2 DEF TakeSkipped, Unwinds, Unwinding, Ending
  <2> QED
    BY <2>1, <2>2
<1>22. CASE TakeInstall
  BY <1>1, <1>22 DEF TakeInstall, Taking, Unwinds, Unwinding, Ending
<1>23. CASE KeepRemoved
  BY <1>1, <1>23 DEF KeepRemoved, Taking, Unwinds, Unwinding, Ending
<1>24. CASE KeepWritten
  BY <1>1, <1>24 DEF KeepWritten, Taking, Unwinds, Unwinding, Ending
<1>25. CASE RedoRemoved
  BY <1>1, <1>25 DEF RedoRemoved, Taking, Redo, Entry, Unwinds, Unwinding, Ending
<1>26. CASE RedoWritten
  BY <1>1, <1>26 DEF RedoWritten, Taking, Redo, Entry, Unwinds, Unwinding, Ending
<1>27. CASE RedoStarted
  BY <1>1, <1>27 DEF RedoStarted, Taking, Redo, Entry, Unwinds, Unwinding, Ending
<1>28. CASE InterruptedUndo
  BY <1>1, <1>28 DEF InterruptedUndo, Unwinds, Unwinding, Ending
<1>29. CASE InterruptedJournal
  BY <1>1, <1>29 DEF InterruptedJournal, Unwinds, Unwinding, Ending
<1>30. CASE Interrupted
  BY <1>1, <1>30 DEF Interrupted, Unwinds, Unwinding, Ending
<1>31. CASE Discard
  BY <1>1, <1>31 DEF Discard, Unwinds, Unwinding, Ending
<1>32. CASE Close
  BY <1>1, <1>32 DEF Close, Unwinds, Unwinding, Ending
<1>33. CASE Recover
  BY <1>1, <1>33 DEF Recover, Unwinds, Unwinding, Ending
<1>34. CASE Abandon
  BY <1>1, <1>34 DEF Abandon, Unwinds, Unwinding, Ending
<1>35. CASE Crash
  BY <1>1, <1>35 DEF Crash, Unwinds, Unwinding, Ending
<1>36. CASE Interrupt
  BY <1>1, <1>36 DEF Interrupt, InAction, Unwinds, Unwinding, Ending
<1>37. ASSUME NEW p \in Path, UserEdit(p) PROVE Unwinds'
  BY <1>1, <1>37 DEF UserEdit, Unwinds, Unwinding, Ending
<1> QED
  BY <1>2, <1>3, <1>4, <1>5, <1>6, <1>7, <1>8, <1>9, <1>10, <1>11, <1>12, <1>13, <1>14, <1>15,
      <1>16, <1>17, <1>18, <1>19, <1>20, <1>21, <1>22, <1>23, <1>24, <1>25, <1>26, <1>27, <1>28,
      <1>29, <1>30, <1>31, <1>32, <1>33, <1>34, <1>35, <1>36, <1>37
  DEF Next, ProcessStep, ExecutorStep, RecoveryStep, StopStep, AbandonStep

\* A run is reported converged only by a loop that left its last action verified.
LEMMA ConvergedKeeps == ASSUME TypeOK, Control, Progress, ConvergedIsDesired, Next PROVE ConvergedIsDesired'
<1> USE DEF runVars, diskVars, procVars, envVars, Enter, Goto, Fault, Finish, Execute, AfterBreak, Action
<1>1. /\ plan' = plan /\ Action' = Action /\ cur \in Action
      /\ \A a \in Action : /\ Kind(a)' = Kind(a) /\ Final(a)' = Final(a) /\ Target(a)' = Target(a) /\ Intended(a)' = Intended(a)
                           /\ IsFile(a)' = IsFile(a) /\ Applied(a)' = Applied(a)
  BY PlanFixed, SamePlan DEF Applied
<1>2. CASE Start
  BY <1>1, <1>2 DEF Start, Control, ConvergedIsDesired, Open, Working, Looping, Failing, Undoing,
      Unwinding, Ending
<1>3. CASE Take
  BY <1>1, <1>3 DEF Take, Entry, Control, ConvergedIsDesired, Open, Working, Looping, Failing,
      Undoing, Unwinding, Ending
<1>4. CASE RecordDrift
  BY <1>1, <1>4 DEF RecordDrift, Control, ConvergedIsDesired, Open, Working, Looping, Failing,
      Undoing, Unwinding, Ending
<1>5. CASE Hold
  BY <1>1, <1>5 DEF Hold, Control, ConvergedIsDesired, Open, Working, Looping, Failing, Undoing,
      Unwinding, Ending
<1>6. CASE Prepare
  BY <1>1, <1>6 DEF Prepare, Control, ConvergedIsDesired, Open, Working, Looping, Failing, Undoing,
      Unwinding, Ending
<1>7. CASE JournalRunning
  BY <1>1, <1>7 DEF JournalRunning, Control, ConvergedIsDesired, Open, Working, Looping, Failing,
      Undoing, Unwinding, Ending
<1>8. CASE Mutate
  BY <1>1, <1>8 DEF Mutate, Control, ConvergedIsDesired, Open, Working, Looping, Failing, Undoing,
      Unwinding, Ending
<1>9. CASE Verify
  BY <1>1, <1>9 DEF Verify, Control, ConvergedIsDesired, Open, Working, Looping, Failing, Undoing,
      Unwinding, Ending
<1>10. CASE Commit
  BY <1>1, <1>10 DEF Commit, Control, ConvergedIsDesired, Open, Working, Looping, Failing, Undoing,
      Unwinding, Ending
<1>11. CASE Return
  BY <1>1, <1>11 DEF Return, Control, ConvergedIsDesired, Open, Working, Looping, Failing, Undoing,
      Unwinding, Ending
<1>12. CASE Undo
  BY <1>1, <1>12 DEF Undo, Control, ConvergedIsDesired, Open, Working, Looping, Failing, Undoing,
      Unwinding, Ending
<1>13. CASE Fail
  BY <1>1, <1>13 DEF Fail, Control, ConvergedIsDesired, Open, Working, Looping, Failing, Undoing,
      Unwinding, Ending
<1>14. CASE Disown
  BY <1>1, <1>14 DEF Disown, Control, ConvergedIsDesired, Open, Working, Looping, Failing, Undoing,
      Unwinding, Ending
<1>15. CASE Unwind
  BY <1>1, <1>15 DEF Unwind, Control, ConvergedIsDesired, Open, Working, Looping, Failing, Undoing,
      Unwinding, Ending
<1>16. CASE Unjournal
  BY <1>1, <1>16 DEF Unjournal, Control, ConvergedIsDesired, Open, Working, Looping, Failing,
      Undoing, Unwinding, Ending
<1>17. CASE Unwound
  BY <1>1, <1>17 DEF Unwound, Control, ConvergedIsDesired, Open, Working, Looping, Failing, Undoing,
      Unwinding, Ending
<1>18. CASE Skip
  BY <1>1, <1>18 DEF Skip, Control, ConvergedIsDesired, Open, Working, Looping, Failing, Undoing,
      Unwinding, Ending
<1>19. CASE Complete
  <2>1. CASE Outcome # "Converged"
    BY <1>19, <2>1 DEF Complete, ConvergedIsDesired
  <2>2. CASE Outcome = "Converged"
    <3>1. result = "verified"
      BY <2>2 DEF Outcome, TypeOK, ProcessType
    <3>2. \A a \in Action : Kind(a) \notin {"human", "drift"} /\ (Final(a) => file[Target(a)] = Intended(a))
      BY <1>19, <3>1 DEF Complete, Progress, Done
    <3>3. \A a \in Action : IsFile(a) => record'[a] = Applied(a)
      BY <1>19, <2>2 DEF Complete, FinalRecords
    <3>4. file' = file
      BY <1>19 DEF Complete
    <3> QED
      BY <1>1, <3>2, <3>3, <3>4 DEF ConvergedIsDesired, Final
  <2> QED
    BY <2>1, <2>2
<1>20. CASE Cleanup
  BY <1>1, <1>20 DEF Cleanup, ConvergedIsDesired
<1>21. CASE TakeSkipped
  BY <1>1, <1>21 DEF TakeSkipped, Taking, Control, ConvergedIsDesired, Open, Working, Looping,
      Failing, Undoing, Unwinding, Ending
<1>22. CASE TakeInstall
  BY <1>1, <1>22 DEF TakeInstall, Taking, Control, ConvergedIsDesired, Open, Working, Looping,
      Failing, Undoing, Unwinding, Ending
<1>23. CASE KeepRemoved
  BY <1>1, <1>23 DEF KeepRemoved, Taking, Control, ConvergedIsDesired, Open, Working, Looping,
      Failing, Undoing, Unwinding, Ending
<1>24. CASE KeepWritten
  BY <1>1, <1>24 DEF KeepWritten, Taking, Control, ConvergedIsDesired, Open, Working, Looping,
      Failing, Undoing, Unwinding, Ending
<1>25. CASE RedoRemoved
  BY <1>1, <1>25 DEF RedoRemoved, Taking, Redo, Entry, Control, ConvergedIsDesired, Open, Working,
      Looping, Failing, Undoing, Unwinding, Ending
<1>26. CASE RedoWritten
  BY <1>1, <1>26 DEF RedoWritten, Taking, Redo, Entry, Control, ConvergedIsDesired, Open, Working,
      Looping, Failing, Undoing, Unwinding, Ending
<1>27. CASE RedoStarted
  BY <1>1, <1>27 DEF RedoStarted, Taking, Redo, Entry, Control, ConvergedIsDesired, Open, Working,
      Looping, Failing, Undoing, Unwinding, Ending
<1>28. CASE InterruptedUndo
  BY <1>1, <1>28 DEF InterruptedUndo, Control, ConvergedIsDesired, Open, Working, Looping, Failing,
      Undoing, Unwinding, Ending
<1>29. CASE InterruptedJournal
  BY <1>1, <1>29 DEF InterruptedJournal, Control, ConvergedIsDesired, Open, Working, Looping,
      Failing, Undoing, Unwinding, Ending
<1>30. CASE Interrupted
  BY <1>1, <1>30 DEF Interrupted, Control, ConvergedIsDesired, Open, Working, Looping, Failing,
      Undoing, Unwinding, Ending
<1>31. CASE Discard
  BY <1>1, <1>31 DEF Discard, Control, ConvergedIsDesired, Open, Working, Looping, Failing, Undoing,
      Unwinding, Ending
<1>32. CASE Close
  BY <1>1, <1>32 DEF Close, Control, ConvergedIsDesired, Open, Working, Looping, Failing, Undoing,
      Unwinding, Ending
<1>33. CASE Recover
  BY <1>1, <1>33 DEF Recover, Control, ConvergedIsDesired, Open, Working, Looping, Failing, Undoing,
      Unwinding, Ending
<1>34. CASE Abandon
  BY <1>1, <1>34 DEF Abandon, Control, ConvergedIsDesired, Open, Working, Looping, Failing, Undoing,
      Unwinding, Ending
<1>35. CASE Crash
  BY <1>1, <1>35 DEF Crash, ConvergedIsDesired
<1>36. CASE Interrupt
  BY <1>1, <1>36 DEF Interrupt, InAction, Control, ConvergedIsDesired, Open, Working, Looping,
      Failing, Undoing, Unwinding, Ending
<1>37. ASSUME NEW p \in Path, UserEdit(p) PROVE ConvergedIsDesired'
  BY <1>1, <1>37 DEF UserEdit, Control, ConvergedIsDesired, Open, Working, Looping, Failing,
      Undoing, Unwinding, Ending
<1> QED
  BY <1>2, <1>3, <1>4, <1>5, <1>6, <1>7, <1>8, <1>9, <1>10, <1>11, <1>12, <1>13, <1>14, <1>15,
      <1>16, <1>17, <1>18, <1>19, <1>20, <1>21, <1>22, <1>23, <1>24, <1>25, <1>26, <1>27, <1>28,
      <1>29, <1>30, <1>31, <1>32, <1>33, <1>34, <1>35, <1>36, <1>37
  DEF Next, ProcessStep, ExecutorStep, RecoveryStep, StopStep, AbandonStep

\* A run is reported failed only when nothing is left to roll back.
LEMMA FailureKeeps == ASSUME TypeOK, Control, Progress, Next PROVE FailureRestoresFiles'
<1> USE DEF runVars, diskVars, procVars, envVars, Enter, Goto, Fault, Finish, Execute, AfterBreak, Action
<1>1. /\ plan' = plan /\ Action' = Action /\ cur \in Action /\ Action \subseteq Nat
      /\ \A a \in Action : IsFile(a)' = IsFile(a) /\ Target(a)' = Target(a)
  BY PlanFixed, SamePlan
<1>2. CASE Start
  BY <1>2 DEF Start, FailureRestoresFiles
<1>3. CASE Take
  BY <1>3 DEF Take, Entry, FailureRestoresFiles
<1>4. CASE RecordDrift
  BY <1>4 DEF RecordDrift, FailureRestoresFiles
<1>5. CASE Hold
  BY <1>5 DEF Hold, FailureRestoresFiles
<1>6. CASE Prepare
  BY <1>6 DEF Prepare, FailureRestoresFiles
<1>7. CASE JournalRunning
  BY <1>7 DEF JournalRunning, FailureRestoresFiles
<1>8. CASE Mutate
  BY <1>8 DEF Mutate, FailureRestoresFiles
<1>9. CASE Verify
  BY <1>9 DEF Verify, FailureRestoresFiles
<1>10. CASE Commit
  BY <1>10 DEF Commit, FailureRestoresFiles
<1>11. CASE Return
  BY <1>11 DEF Return, FailureRestoresFiles
<1>12. CASE Undo
  BY <1>12 DEF Undo, FailureRestoresFiles
<1>13. CASE Fail
  BY <1>13 DEF Fail, FailureRestoresFiles
<1>14. CASE Disown
  BY <1>14 DEF Disown, FailureRestoresFiles
<1>15. CASE Unwind
  BY <1>15 DEF Unwind, FailureRestoresFiles
<1>16. CASE Unjournal
  BY <1>16 DEF Unjournal, FailureRestoresFiles
<1>17. CASE Unwound
  BY <1>17 DEF Unwound, FailureRestoresFiles
<1>18. CASE Skip
  BY <1>18 DEF Skip, FailureRestoresFiles
<1>19. CASE Complete
  <2> SUFFICES ASSUME status' = "Failed", failedRollbacks' = {}
               PROVE  \A a \in Action : IsFile(a) /\ (mode = "run" \/ a <= cur) => file[Target(a)] = before[Target(a)]
    BY <1>1, <1>19 DEF Complete, FailureRestoresFiles
  <2>1. result = "failed" /\ failedRollbacks = {} /\ pc = "complete" /\ stack = <<>>
    BY <1>19 DEF Complete, Outcome, Control, Ending
  <2>2. \A a \in Action : ~Stacked(a)
    BY <2>1 DEF Stacked
  <2>3. \A a \in Action : First(a) /\ (mode = "run" \/ a <= cur) => file[Target(a)] = before[Target(a)]
    BY <2>1, <2>2 DEF Progress, Unwinds, Ending
  <2>4. ASSUME NEW a \in Action, IsFile(a), mode = "run" \/ a <= cur PROVE file[Target(a)] = before[Target(a)]
    <3>1. CASE First(a)
      BY <2>3, <2>4, <3>1
    <3>2. CASE ~First(a)
      <4>1. PICK b \in Action : b < a /\ Target(b) = Target(a)
        BY <2>4, <3>2 DEF First
      <4>2. First(b)
        BY <4>1, Pairs DEF TypeOK, RunType
      <4>3. a <= cur => b <= cur
        BY <1>1, <4>1
      <4> QED
        BY <2>3, <2>4, <4>1, <4>2, <4>3
    <3> QED
      BY <3>1, <3>2
  <2> QED
    BY <2>4
<1>20. CASE Cleanup
  BY <1>20 DEF Cleanup, FailureRestoresFiles
<1>21. CASE TakeSkipped
  BY <1>21 DEF TakeSkipped, Taking, FailureRestoresFiles
<1>22. CASE TakeInstall
  BY <1>22 DEF TakeInstall, Taking, FailureRestoresFiles
<1>23. CASE KeepRemoved
  BY <1>23 DEF KeepRemoved, Taking, FailureRestoresFiles
<1>24. CASE KeepWritten
  BY <1>24 DEF KeepWritten, Taking, FailureRestoresFiles
<1>25. CASE RedoRemoved
  BY <1>25 DEF RedoRemoved, Taking, Redo, Entry, FailureRestoresFiles
<1>26. CASE RedoWritten
  BY <1>26 DEF RedoWritten, Taking, Redo, Entry, FailureRestoresFiles
<1>27. CASE RedoStarted
  BY <1>27 DEF RedoStarted, Taking, Redo, Entry, FailureRestoresFiles
<1>28. CASE InterruptedUndo
  BY <1>28 DEF InterruptedUndo, FailureRestoresFiles
<1>29. CASE InterruptedJournal
  BY <1>29 DEF InterruptedJournal, FailureRestoresFiles
<1>30. CASE Interrupted
  BY <1>30 DEF Interrupted, FailureRestoresFiles
<1>31. CASE Discard
  BY <1>31 DEF Discard, FailureRestoresFiles
<1>32. CASE Close
  BY <1>32 DEF Close, FailureRestoresFiles
<1>33. CASE Recover
  BY <1>33 DEF Recover, FailureRestoresFiles
<1>34. CASE Abandon
  BY <1>34 DEF Abandon, FailureRestoresFiles
<1>35. CASE Crash
  BY <1>35 DEF Crash, FailureRestoresFiles
<1>36. CASE Interrupt
  BY <1>36 DEF Interrupt, InAction, FailureRestoresFiles
<1>37. ASSUME NEW p \in Path, UserEdit(p) PROVE FailureRestoresFiles'
  BY <1>37 DEF UserEdit, FailureRestoresFiles
<1> QED
  BY <1>2, <1>3, <1>4, <1>5, <1>6, <1>7, <1>8, <1>9, <1>10, <1>11, <1>12, <1>13, <1>14, <1>15,
      <1>16, <1>17, <1>18, <1>19, <1>20, <1>21, <1>22, <1>23, <1>24, <1>25, <1>26, <1>27, <1>28,
      <1>29, <1>30, <1>31, <1>32, <1>33, <1>34, <1>35, <1>36, <1>37
  DEF Next, ProcessStep, ExecutorStep, RecoveryStep, StopStep, AbandonStep

\* The invariant is what the types rest on.
LEMMA Grounds == ASSUME IInv PROVE Grounded
<1>1. TypeOK /\ Control /\ Stack /\ Files
  BY DEF IInv
<1>2. pc \in Working => \A a \in Action : Relied(a) => snap[a] # "missing"
  BY <1>1 DEF Files, Kept
<1>3. cur \in Action /\ \A i \in DOMAIN stack : stack[i].action \in Action /\ HasReference(stack[i].action)
  BY <1>1, StackedActions DEF TypeOK, ProcessType, Stack
<1> QED
  BY <1>1, <1>2, <1>3
  DEF Grounded, Control, Stack, Open, Relied, Reference, Working, Looping, Failing, Undoing,
      Unwinding, Ending

\* It holds before the run.
LEMMA Initially == ASSUME Init PROVE IInv
<1>1. /\ plan \in Plans /\ Action = 1..Len(plan) /\ Len(plan) \in Nat \ {0} /\ \A a \in Action : Target(a) \in Path
  BY PlanFacts DEF Init
<1>2. TypeOK
  <2>1. RunType /\ CountType
    BY DEF Init, RunType, CountType
  <2>2. \A a \in Action : Prior(a) \in Records
    BY DEF Prior, Records
  <2>3. <<>> \in Seq(Events) /\ <<>> \in Seq(Pushes)
    OBVIOUS
  <2>4. JournalType
    BY <2>2, <2>3 DEF Init, JournalType
  <2>5. \A p \in Path : Base(plan, p) \in Contents
    BY DEF Base, Contents
  <2>6. DiskType
    BY <2>5 DEF Init, DiskType
  <2>7. ProcessType
    <3>1. cur \in Action /\ attempt \in Nat /\ stack \in Seq(Pushes) /\ failedRollbacks \subseteq Action
      BY <1>1, <2>3 DEF Init
    <3> QED
      BY <3>1 DEF Init, ProcessType, Steps
  <2> QED
    BY <2>1, <2>4, <2>6, <2>7 DEF TypeOK
<1>3. Control
  BY DEF Init, Control, Open, Terminal, Working, Prepared, Looping, Failing, Undoing, Unwinding, Ending
<1>4. Journals
  BY DEF Init, Journals, Unreached, Referenced, Passed, Working, Looping, Failing, Undoing,
      Unwinding, Ending
<1>5. Stack
  BY DEF Init, Stack, Looping, Failing, Undoing
<1>6. Files
  BY <1>1 DEF Init, Files, Fresh, Kept, Untouched, Saved, Aside, Clean, EditSaved, Open,
     Working, Looping, Failing, Undoing, Unwinding, Ending
<1>7. Progress
  BY DEF Init, Progress, Verified, Done, Undone, Unwinds, Reinstated, Looping, Unwinding, Ending
<1>8. ConvergedIsDesired /\ FailureRestoresFiles
  BY DEF Init, ConvergedIsDesired, FailureRestoresFiles
<1> QED
  BY <1>2, <1>3, <1>4, <1>5, <1>6, <1>7, <1>8 DEF IInv

\* It depends on the variables alone.
LEMMA Stuttering == ASSUME IInv, UNCHANGED vars PROVE IInv'
<1>1. /\ plan' = plan /\ status' = status /\ incomplete' = incomplete /\ journal' = journal /\ drifted' = drifted
      /\ record' = record /\ file' = file /\ snap' = snap /\ tool' = tool /\ pc' = pc /\ mode' = mode /\ cur' = cur
      /\ attempt' = attempt /\ ready' = ready /\ owner' = owner /\ stack' = stack /\ failedRollbacks' = failedRollbacks
      /\ result' = result /\ before' = before /\ crashes' = crashes /\ interrupts' = interrupts /\ faults' = faults /\ edits' = edits
  BY DEF vars, runVars, diskVars, procVars, envVars
<1>2. /\ Action' = Action
      /\ \A a \in Action : /\ Kind(a)' = Kind(a) /\ Target(a)' = Target(a) /\ IsFile(a)' = IsFile(a)
                           /\ HasReference(a)' = HasReference(a) /\ Last(a)' = Last(a) /\ Started(a)' = Started(a)
                           /\ Stacked(a)' = Stacked(a) /\ Relied(a)' = Relied(a)
                           /\ Intended(a)' = Intended(a) /\ Applied(a)' = Applied(a) /\ First(a)' = First(a) /\ Final(a)' = Final(a)
      /\ Open' = Open /\ Holds(cur)' = Holds(cur) /\ Discarded' = Discarded
  BY <1>1
  DEF Action, Kind, Target, IsFile, HasReference, Last, Started, Stacked, Relied, Intended, Applied,
      First, Final, Open, Holds, Discarded
<1>3. TypeOK'
  BY <1>1, <1>2 DEF IInv, TypeOK, RunType, JournalType, DiskType, ProcessType, CountType, Pushes
<1>4. Control'
  BY <1>1, <1>2 DEF IInv, Control, Open, IsFile, Kind
<1>5. Journals'
  <2>0. cur \in Action
    BY DEF IInv, TypeOK, ProcessType
  <2>1. Unreached' /\ Passed'
    BY <1>1, <1>2, <2>0 DEF IInv, Journals, Unreached, Passed
  <2>2. Referenced'
    BY <1>1, <1>2 DEF IInv, Journals, Referenced
  <2> QED
    BY <2>1, <2>2 DEF Journals
<1>6. Stack'
  BY <1>1, <1>2, StackedActions DEF IInv, Stack, IsFile, Kind, Target, HasReference, Stacked
<1>7. Files'
  BY <1>1, <1>2 DEF IInv, Files, Fresh, Kept, Untouched, Saved, Aside, Clean, EditSaved, Base,
      First, IsFile, Kind, Target
<1>8. Progress'
  BY <1>1, <1>2 DEF IInv, Progress, Verified, Done, Undone, Unwinds, Reinstated, First, IsFile,
      Kind, Target
<1>9. ConvergedIsDesired' /\ FailureRestoresFiles'
  BY <1>1, <1>2 DEF IInv, ConvergedIsDesired, FailureRestoresFiles
<1> QED
  BY <1>3, <1>4, <1>5, <1>6, <1>7, <1>8, <1>9 DEF IInv

\* Every step keeps it.
LEMMA Inductive == ASSUME IInv, [Next]_vars PROVE IInv'
<1>1. CASE Next
  <2>1. TypeOK /\ Control /\ Journals /\ Stack /\ Files /\ Progress /\ ConvergedIsDesired /\ FailureRestoresFiles /\ Grounded
    BY Grounds DEF IInv
  <2>2. TypeOK'
    BY <1>1, <2>1, TypeKeeps
  <2>3. Control' /\ Journals'
    BY <1>1, <2>1, ControlKeeps, JournalsKeep
  <2>4. Stack' /\ Files'
    BY <1>1, <2>1, StackKeeps, FilesKeep
  <2>5. Progress'
    BY <1>1, <2>1, VerifiedKeeps, DoneKeeps, UndoneKeeps, UnwindsKeeps, ReinstatedKeeps DEF Progress
  <2>6. ConvergedIsDesired' /\ FailureRestoresFiles'
    BY <1>1, <2>1, ConvergedKeeps, FailureKeeps
  <2> QED
    BY <2>2, <2>3, <2>4, <2>5, <2>6 DEF IInv
<1> QED
  BY <1>1, Stuttering

\* Whatever crashes, errors, interruptions and edits come between its steps,
\* the run, its journal and the machine keep the invariant.
LEMMA Always == Spec => []IInv
<1>1. Init => IInv
  BY Initially
<1>2. IInv /\ [Next]_vars => IInv'
  BY Inductive
<1> QED
  BY <1>1, <1>2, PTL DEF Spec

\* Every variable keeps its type.
THEOREM TypeCorrect == Spec => []TypeOK
BY Always, PTL DEF IInv

\* A run the executor or its recovery reports converged has each file as the
\* plan intends it and each record saying so, for every plan and any number of
\* crashes, interruptions, errors and edits.
THEOREM ConvergedRunsAreDesired == Spec => []ConvergedIsDesired
BY Always, PTL DEF IInv

\* A run reported failed with no rollback missing has each file it reached as
\* the user left it.
THEOREM FailuresRestoreFiles == Spec => []FailureRestoresFiles
BY Always, PTL DEF IInv

\* Journaled before mutated: the first action on a changed path has a snapshot
\* of what the user left there, and its journal says so.
THEOREM MutationsAreJournaled == Spec => []MutationIsJournaled
<1>1. IInv => MutationIsJournaled
  <2> SUFFICES ASSUME IInv, Open, ~Discarded, NEW p \in Path, file[p] # before[p]
               PROVE  \E a \in Action : Target(a) = p /\ Inspected(a) /\ snap[a] = before[p]
    BY DEF MutationIsJournaled
  <2>1. PICK b \in Action : Target(b) = p /\ HasReference(b)
    BY DEF IInv, Files, Untouched
  <2>2. PICK a \in Action : Target(a) = p /\ HasReference(a) /\ First(a)
    <3>1. IsFile(b)
      BY <2>1 DEF IInv, Journals, Referenced, Open
    <3>2. CASE First(b)
      BY <2>1, <3>2
    <3>3. CASE ~First(b)
      <4>1. PICK a \in Action : a < b /\ Target(a) = Target(b)
        BY <3>1, <3>3 DEF First
      <4> QED
        BY <2>1, <4>1, Pairs DEF IInv, Journals, Referenced, Open, TypeOK, RunType
    <3> QED
      BY <3>2, <3>3
  <2>3. Inspected(a)
    BY <2>2 DEF Inspected, IInv, Journals, Referenced, Open
  <2>4. pc \in Working \cup {"idle", "discard", "close"}
    BY DEF IInv, TypeOK, ProcessType, Steps, Control, Open, Terminal, Working, Looping, Failing,
        Undoing, Unwinding, Ending
  <2>5. snap[a] = before[Target(a)]
    BY <2>2, <2>4 DEF IInv, Files, Saved, Aside, Relied
  <2> QED
    BY <2>2, <2>3, <2>5
<1> QED
  BY <1>1, Always, PTL

\* What a step of the program replaces is an edit only when a snapshot has it.
LEMMA EditsKeep == ASSUME TypeOK, Control, Journals, Stack, Files, Next
                   PROVE  \A p \in Path : file[p] = "edited" /\ file'[p] # "edited" /\ edits' = edits =>
         \E a \in Action : Target(a) = p /\ snap[a] = "edited"
<1> USE DEF runVars, diskVars, procVars, envVars, Enter, Goto, Fault, Finish, Execute, AfterBreak
<1>1. CASE UNCHANGED file
  BY <1>1
<1>2. /\ cur \in Action /\ \A a \in Action : Target(a) \in Path /\ Intended(a) \in {"desired", "absent"}
      /\ file \in [Path -> Contents]
  BY PlanFixed, SamePlan DEF TypeOK, DiskType
<1>3. ASSUME NEW x \in Action, Relied(x), pc \in Working, file' = [file EXCEPT ![Target(x)] = snap[x]] \/ file' = [file EXCEPT ![Target(x)] = Intended(x)]
      PROVE  \A p \in Path : file[p] = "edited" /\ file'[p] # "edited" /\ edits' = edits =>
         \E a \in Action : Target(a) = p /\ snap[a] = "edited"
  <2>1. \A p \in Path : p # Target(x) => file'[p] = file[p]
    BY <1>2, <1>3
  <2> QED
    BY <1>2, <1>3, <2>1 DEF Files, EditSaved
<1>4. CASE Mutate
  <2>1. IsFile(cur) => HasReference(cur)
    BY <1>4 DEF Mutate, Journals, Passed
  <2> QED
    BY <1>1, <1>2, <1>3, <1>4, <2>1 DEF Mutate, Apply, Relied, Working, Looping
<1>5. CASE Undo
  BY <1>1, <1>2, <1>3, <1>5 DEF Undo, Restore, Reference, Relied, Working, Failing
<1>6. CASE InterruptedUndo
  BY <1>1, <1>2, <1>3, <1>6 DEF InterruptedUndo, Restore, Reference, Relied, Working, Undoing
<1>7. CASE Unwind
  <2>1. Top.action \in Action /\ HasReference(Top.action)
    BY <1>7, TopFacts DEF Unwind, Stack
  <2> QED
    BY <1>1, <1>3, <1>7, <2>1 DEF Unwind, Restore, Relied, Working, Unwinding
<1>8. CASE RedoRemoved \/ RedoWritten \/ RedoStarted
  BY <1>1, <1>2, <1>3, <1>8 DEF RedoRemoved, RedoWritten, RedoStarted, Taking, Redo, Restore,
      Relied, Working, Looping
<1>9. ASSUME NEW p \in Path, UserEdit(p) PROVE edits' # edits
  BY <1>9 DEF UserEdit, TypeOK, CountType
<1> QED
  BY <1>1, <1>4, <1>5, <1>6, <1>7, <1>8, <1>9
  DEF Next, ProcessStep, ExecutorStep, RecoveryStep, StopStep, AbandonStep,
      Start, Take, RecordDrift, Hold, Prepare, JournalRunning, Verify, Commit, Return, Fail, Disown,
          Unjournal, Unwound, Skip, Complete, Cleanup, TakeSkipped, TakeInstall, KeepRemoved,
          KeepWritten, InterruptedJournal, Interrupted, Discard, Close, Recover, Abandon, Crash,
          Interrupt, Taking

\* No step of the program, in whatever order errors and crashes put them,
\* replaces an edited file that no snapshot of the run holds.
THEOREM ProgramKeepsEdits == Spec => EditsAreKept
<1>1. IInv /\ [Next]_vars =>
        (\A p \in Path : file[p] = "edited" /\ file'[p] # "edited" /\ edits' = edits =>
           \E a \in Action : Target(a) = p /\ snap[a] = "edited")
  <2> SUFFICES ASSUME IInv, [Next]_vars
               PROVE  \A p \in Path : file[p] = "edited" /\ file'[p] # "edited" /\ edits' = edits =>
         \E a \in Action : Target(a) = p /\ snap[a] = "edited"
    OBVIOUS
  <2>1. CASE Next
    BY <2>1, EditsKeep DEF IInv
  <2>2. CASE UNCHANGED vars
    BY <2>2 DEF vars, diskVars
  <2> QED
    BY <2>1, <2>2
<1> QED
  BY <1>1, Always, PTL DEF Spec, EditsAreKept

-----------------------------------------------------------------------------
(****************************************************************************)
(* The second half: the journal and the outcomes of a run.  A recovery      *)
(* never meets a journal it has to refuse, no run fails without an error,   *)
(* its records tell the truth, a failed run hands them back, a run is one   *)
(* transaction on its files, and a stopped run stays recoverable.           *)
(*                                                                          *)
(* validateJournal accepts an attempt that has ended only when nothing but  *)
(* the rollback of its success follows.  Attempts, the strengthening that   *)
(* makes that inductive, says the attempt of the action in hand has not     *)
(* ended, and that the stack holds each completed action with the attempt   *)
(* its success ended last.  It holds unless an interrupt can land between   *)
(* the commit of a success and the return of its action (MaySplitCommit):   *)
(* the failure it then journals is one more event after that success.       *)
(*                                                                          *)
(* Each theorem names what it needs of the environment.  A failed call to   *)
(* the journal leaves the record of a file as it is, so the records are     *)
(* handed back only where none fails ("journal" \notin Faults).  A recovery *)
(* that cannot confirm an installation stops before a write that was begun  *)
(* again with the record of its first execution: without installations      *)
(* (NoInstalls) there is no such stop.  MaySplitCommit breaks the journal.  *)
(*                                                                          *)
(* The inductive invariants, beside those of the journal: Outcomes relates  *)
(* the files to the journal in every process; Ownership relates the records *)
(* to it until the run is stopped a second time, when a recovery no longer  *)
(* knows the record from before the run; Untampered says that the files     *)
(* nobody edited hold only contents a recovery knows.                       *)
(****************************************************************************)

-----------------------------------------------------------------------------
(* The journal.                                                            *)

\* An event without an end may follow in the attempt n.
Unended(events, n) ==
  /\ n >= 1 /\ events[Len(events)].attempt <= n
  /\ \A i \in DOMAIN events : events[i].attempt = n => events[i].state \notin {"succeeded", "skipped"}

\* The attempt n has just ended with a success.
JustDone(events, n) ==
  n >= 1 /\ events[Len(events)].state = "succeeded" /\ events[Len(events)].attempt = n

\* The attempts of a journal never go back.
Ascending(events) == \A i, k \in DOMAIN events : i < k => events[i].attempt <= events[k].attempt

\* The same, of the journal of an action.
Appendable(a, n) == Unended(journal[a], n)

\* A rolled-back event may follow too, after the success it takes back.
Undoable(a, n) == Unended(journal[a], n) \/ JustDone(journal[a], n)

Ordered(a) == Ascending(journal[a])

\* Every journal of a run is one validateJournal accepts.
Valid == status # "none" => \A a \in Action : JournalValid(a) /\ Ordered(a)

\* The action in hand has not ended in its attempt, before its success is journaled.
InAttempt ==
  /\ pc \in (Looping \ {"next", "return"}) \cup Failing \cup Undoing => Appendable(cur, attempt)
  /\ pc = "return" => Undoable(cur, attempt)

\* A completed action can be journaled as rolled back.
StackAttempts == \A i \in DOMAIN stack : Undoable(stack[i].action, stack[i].attempt)

\* The actions a first execution has not reached are pending.
FreshJournals ==
  pc \in Working /\ mode = "run" =>
    \A a \in Action : a > cur \/ (a = cur /\ pc = "next") => Len(journal[a]) = 1

Attempts == InAttempt /\ StackAttempts /\ FreshJournals

\* The last event of an action is in its journal.
LEMMA LastIsIn ==
  ASSUME TypeOK, status # "none", NEW a \in Action
  PROVE  /\ journal[a] \in Seq(Events) /\ Len(journal[a]) \in Nat \ {0} /\ DOMAIN journal[a] = 1..Len(journal[a])
         /\ Last(a) = journal[a][Len(journal[a])] /\ Last(a) \in Events
         /\ \A i \in DOMAIN journal[a] : journal[a][i] \in Events
         /\ Last(a).attempt \in Nat
<1>1. journal[a] \in Seq(Events) /\ journal[a] # <<>>
  BY DEF TypeOK, JournalType
<1>2. Len(journal[a]) \in Nat \ {0} /\ DOMAIN journal[a] = 1..Len(journal[a])
      /\ \A i \in DOMAIN journal[a] : journal[a][i] \in Events
  BY <1>1, Elements
<1>3. Last(a) = journal[a][Len(journal[a])] /\ Last(a) \in Events
  BY <1>2 DEF Last
<1> QED
  BY <1>1, <1>2, <1>3 DEF Events

\* What one more event does to the events of an action.
LEMMA OneMoreEvent ==
  ASSUME NEW j \in Seq(Events), EventsValid(j), Ascending(j), NEW n \in Nat, NEW e \in Events,
         e.attempt = n, e.state # "pending", NEW k, k = Append(j, e),
         Unended(j, n) \/ (e.state = "rolled-back" /\ JustDone(j, n))
  PROVE  /\ EventsValid(k) /\ Ascending(k)
         /\ Unended(j, n) /\ e.state \notin {"succeeded", "skipped"} => Unended(k, n)
         /\ e.state = "succeeded" => JustDone(k, n)
<1>1. PICK m \in Nat \ {0} : m = Len(j)
  BY Elements DEF EventsValid
<1>2. /\ DOMAIN j = 1..m /\ k \in Seq(Events) /\ Len(k) = m + 1 /\ DOMAIN k = 1..(m + 1)
      /\ k[m + 1] = e /\ \A i \in 1..m : k[i] = j[i]
  BY <1>1
<1>3. \A i \in 1..m : j[i].attempt \in Nat
  <2>1. \A i \in 1..m : j[i] \in Events
    BY <1>1, Elements
  <2> QED
    BY <2>1 DEF Events
<1>4. n >= 1 /\ j[m].attempt <= n
  BY <1>1, <1>3 DEF Unended, JustDone
<1>5. /\ j[1].state = "pending" /\ j[1].attempt = 0
      /\ \A i \in 2..m : /\ j[i].state # "pending" /\ j[i].attempt >= 1 /\ (i > 2 => j[i].attempt >= j[i - 1].attempt)
                         /\ AttemptValid(j, j[i].attempt)
  BY <1>1 DEF EventsValid
<1>6. \A i, l \in 1..m : i < l => j[i].attempt <= j[l].attempt
  BY <1>2 DEF Ascending
<1>7. \A i \in 1..m : j[i].attempt <= n
  <2> SUFFICES ASSUME NEW i \in 1..m PROVE j[i].attempt <= n
    OBVIOUS
  <2>1. j[i].attempt \in Nat /\ j[m].attempt \in Nat
    BY <1>3
  <2>2. CASE i = m
    BY <1>4, <2>2
  <2>3. CASE i # m
    <3>1. j[i].attempt <= j[m].attempt
      BY <1>6, <2>3
    <3> QED
      BY <1>4, <2>1, <3>1
  <2> QED
    BY <2>2, <2>3
<1>8. Ascending(k)
  <2> SUFFICES ASSUME NEW i \in 1..(m + 1), NEW l \in 1..(m + 1), i < l PROVE k[i].attempt <= k[l].attempt
    BY <1>2 DEF Ascending
  <2>1. i \in 1..m /\ k[i] = j[i]
    BY <1>2
  <2>2. CASE l = m + 1
    BY <1>2, <1>7, <2>1, <2>2
  <2>3. CASE l # m + 1
    <3>1. l \in 1..m /\ k[l] = j[l]
      BY <1>2, <2>3
    <3> QED
      BY <1>6, <2>1, <3>1
  <2> QED
    BY <2>2, <2>3
<1>9. /\ \A x \in Nat \ {n} : OfAttempt(k, x) = OfAttempt(j, x)
      /\ OfAttempt(k, n) = OfAttempt(j, n) \cup {m + 1}
      /\ \A x \in Nat : OfAttempt(j, x) \subseteq 2..m
  <2>1. \A x \in Nat : OfAttempt(j, x) = {i \in 2..m : j[i].attempt = x}
    BY <1>1 DEF OfAttempt
  <2>2. \A x \in Nat : OfAttempt(k, x) = {i \in 2..(m + 1) : k[i].attempt = x}
    BY <1>2 DEF OfAttempt
  <2>3. 2..(m + 1) = 2..m \cup {m + 1} /\ \A i \in 2..m : k[i] = j[i]
    BY <1>2
  <2>4. \A x \in Nat : OfAttempt(j, x) \subseteq 2..m
    BY <2>1
  <2>5. ASSUME NEW x \in Nat \ {n} PROVE OfAttempt(k, x) = OfAttempt(j, x)
    <3>1. \A i : i \in OfAttempt(k, x) <=> i \in OfAttempt(j, x)
      BY <1>2, <2>1, <2>2, <2>3
    <3> QED
      BY <3>1
  <2>6. OfAttempt(k, n) = OfAttempt(j, n) \cup {m + 1}
    <3>1. \A i : i \in OfAttempt(k, n) <=> i \in OfAttempt(j, n) \/ i = m + 1
      BY <1>2, <2>1, <2>2, <2>3
    <3> QED
      BY <3>1
  <2> QED
    BY <2>4, <2>5, <2>6
<1>10. ASSUME NEW x \in Nat, x # n, AttemptValid(j, x) PROVE AttemptValid(k, x)
  <2>1. OfAttempt(k, x) = OfAttempt(j, x) /\ \A i \in OfAttempt(j, x) : k[i] = j[i]
    BY <1>2, <1>9, <1>10
  <2>2. Ends(k, x) = Ends(j, x) /\ \A i \in Ends(j, x) : k[i] = j[i]
    BY <2>1 DEF Ends
  <2>3. \A i : {l \in OfAttempt(k, x) : l > i} = {l \in OfAttempt(j, x) : l > i}
    BY <2>1
  <2>4. Ends(j, x) \subseteq OfAttempt(j, x)
    BY DEF Ends
  <2> SUFFICES ASSUME NEW i \in Ends(j, x), \A l \in Ends(j, x) : i <= l
               PROVE  \/ \A l \in OfAttempt(j, x) : l <= i
                      \/ /\ k[i].state = "succeeded"
                         /\ \E l \in OfAttempt(j, x) :
                              {o \in OfAttempt(k, x) : o > i} = {l} /\ k[l].state = "rolled-back"
    BY ZenonT(40), <2>1, <2>2 DEF AttemptValid
  <2>5. \/ \A l \in OfAttempt(j, x) : l <= i
        \/ /\ j[i].state = "succeeded"
           /\ \E l \in OfAttempt(j, x) : {o \in OfAttempt(j, x) : o > i} = {l} /\ j[l].state = "rolled-back"
    BY <1>10 DEF AttemptValid
  <2>6. ASSUME NEW l \in OfAttempt(j, x), {o \in OfAttempt(j, x) : o > i} = {l}, j[l].state = "rolled-back"
        PROVE  {o \in OfAttempt(k, x) : o > i} = {l} /\ k[l].state = "rolled-back"
    BY <2>1, <2>3, <2>6
  <2>7. k[i] = j[i]
    BY <2>2
  <2> QED
    BY <2>5, <2>6, <2>7
<1>11. AttemptValid(k, n)
  <2>1. CASE Unended(j, n)
    <3>1. \A i \in OfAttempt(j, n) : j[i].state \notin {"succeeded", "skipped"} /\ k[i] = j[i]
      BY <1>1, <1>2, <1>9, <2>1 DEF Unended, OfAttempt
    <3>2. Ends(k, n) \subseteq {m + 1}
      BY <1>9, <3>1 DEF Ends
    <3>3. \A l \in OfAttempt(k, n) : l <= m + 1
      BY <1>9
    <3> QED
      BY <3>2, <3>3 DEF AttemptValid
  <2>2. CASE ~Unended(j, n)
    <3>1. e.state = "rolled-back" /\ j[m].state = "succeeded" /\ j[m].attempt = n
      BY <1>1, <2>2 DEF JustDone
    <3>2. m \in 2..m /\ AttemptValid(j, n)
      BY <1>5, <3>1
    <3>3. m \in Ends(j, n) /\ m \in OfAttempt(j, n)
      BY <1>1, <3>1, <3>2 DEF Ends, OfAttempt
    <3>4. ASSUME NEW i \in Ends(j, n), \A l \in Ends(j, n) : i <= l PROVE i = m
      <4>1. i \in 2..m /\ i <= m
        BY <1>9, <3>4 DEF Ends
      <4>2. CASE \A l \in OfAttempt(j, n) : l <= i
        BY <3>3, <4>1, <4>2
      <4>3. ASSUME NEW l \in OfAttempt(j, n), {o \in OfAttempt(j, n) : o > i} = {l}, j[l].state = "rolled-back" PROVE i = m
        <5>1. m \notin {o \in OfAttempt(j, n) : o > i}
          BY <3>1, <4>3
        <5> QED
          BY <3>3, <4>1, <5>1
      <4> QED
        BY <3>2, <3>4, <4>2, <4>3 DEF AttemptValid
    <3>5. Ends(k, n) = Ends(j, n)
      BY <1>2, <1>9, <3>1 DEF Ends
    <3>6. {o \in OfAttempt(k, n) : o > m} = {m + 1} /\ k[m + 1].state = "rolled-back" /\ k[m].state = "succeeded"
          /\ m + 1 \in OfAttempt(k, n)
      BY <1>2, <1>9, <3>1, <3>2
    <3>7. \A i \in Ends(k, n) : (\A l \in Ends(k, n) : i <= l) => i = m
      BY <3>4, <3>5
    <3> SUFFICES ASSUME NEW i \in Ends(k, n), i = m
                 PROVE  /\ k[i].state = "succeeded"
                        /\ \E l \in OfAttempt(k, n) :
                             {o \in OfAttempt(k, n) : o > i} = {l} /\ k[l].state = "rolled-back"
      BY <3>7 DEF AttemptValid
    <3> QED
      BY <3>6
  <2> QED
    BY <2>1, <2>2
<1>12. EventsValid(k)
  <2>1. k # <<>> /\ k[1].state = "pending" /\ k[1].attempt = 0
    BY <1>2, <1>5
  <2>2. ASSUME NEW i \in 2..(m + 1)
        PROVE  /\ k[i].state # "pending" /\ k[i].attempt >= 1 /\ (i > 2 => k[i].attempt >= k[i - 1].attempt)
               /\ AttemptValid(k, k[i].attempt)
    <3>0. i - 1 \in 1..m /\ k[i - 1] = j[i - 1]
      BY <1>2
    <3>1. CASE i = m + 1
      BY <1>2, <1>4, <1>7, <1>11, <3>0, <3>1
    <3>2. CASE i # m + 1
      <4>1. i \in 2..m /\ i \in 1..m
        BY <3>2
      <4>2. k[i] = j[i] /\ j[i].attempt \in Nat
        BY <1>2, <1>3, <4>1
      <4>3. AttemptValid(k, j[i].attempt)
        BY <1>5, <1>10, <1>11, <4>1, <4>2
      <4> QED
        BY <1>5, <3>0, <4>1, <4>2, <4>3
    <3> QED
      BY <3>1, <3>2
  <2> QED
    BY <1>2, <2>1, <2>2 DEF EventsValid
<1>13. Unended(j, n) /\ e.state \notin {"succeeded", "skipped"} => Unended(k, n)
  BY <1>2, <1>4 DEF Unended
<1>14. e.state = "succeeded" => JustDone(k, n)
  BY <1>2, <1>4 DEF JustDone
<1> QED
  BY <1>8, <1>12, <1>13, <1>14

\* What an event of the running attempt leaves valid.
LEMMA Appends ==
  ASSUME TypeOK, Valid, status # "none", plan' = plan, NEW a \in Action,
         NEW n \in Nat, NEW e \in Events, e.attempt = n, e.state # "pending", Journal(a, e),
         Appendable(a, n) \/ (e.state = "rolled-back" /\ Undoable(a, n))
  PROVE  /\ \A b \in Action : JournalValid(b)' /\ Ordered(b)'
         /\ \A b \in Action : b # a => journal'[b] = journal[b]
         /\ Appendable(a, n) /\ e.state \notin {"succeeded", "skipped"} => Appendable(a, n)'
         /\ e.state = "succeeded" => Undoable(a, n)'
<1>1. /\ journal[a] \in Seq(Events) /\ EventsValid(journal[a]) /\ Ascending(journal[a])
      /\ Unended(journal[a], n) \/ (e.state = "rolled-back" /\ JustDone(journal[a], n))
  BY DEF TypeOK, JournalType, Valid, JournalValid, Ordered, Appendable, Undoable
<1>2. journal'[a] = Append(journal[a], e) /\ \A b \in Action : b # a => journal'[b] = journal[b]
  BY DEF Journal, TypeOK, JournalType
<1>3. /\ EventsValid(journal'[a]) /\ Ascending(journal'[a])
      /\ Unended(journal[a], n) /\ e.state \notin {"succeeded", "skipped"} => Unended(journal'[a], n)
      /\ e.state = "succeeded" => JustDone(journal'[a], n)
  BY <1>1, <1>2, OneMoreEvent
<1>4. \A b \in Action : b # a => EventsValid(journal'[b]) /\ Ascending(journal'[b])
  BY <1>2 DEF Valid, JournalValid, Ordered
<1> QED
  BY <1>2, <1>3, <1>4 DEF JournalValid, Ordered, Appendable, Undoable

\* A pending action can be journaled in a first attempt.
LEMMA FirstAttempt ==
  ASSUME TypeOK, NEW a \in Action, JournalValid(a), Len(journal[a]) = 1 PROVE Appendable(a, 1)
<1>1. journal[a][1].state = "pending" /\ journal[a][1].attempt = 0
  BY DEF JournalValid, EventsValid
<1>2. DOMAIN journal[a] = {1}
  BY Elements DEF TypeOK, JournalType
<1> QED
  BY <1>1, <1>2 DEF Appendable, Unended

\* Any action can be journaled in the attempt after its last.
LEMMA LaterAttempt ==
  ASSUME TypeOK, status # "none", NEW a \in Action, Ordered(a)
  PROVE  Appendable(a, NextAttempt(a)) /\ NextAttempt(a) \in Nat
<1> DEFINE m == Len(journal[a])
<1>1. /\ m \in Nat \ {0} /\ DOMAIN journal[a] = 1..m
      /\ Last(a) = journal[a][m] /\ \A i \in 1..m : journal[a][i] \in Events
  BY LastIsIn
<1>2. \A i \in 1..m : journal[a][i].attempt \in Nat
  BY <1>1 DEF Events
<1>3. NextAttempt(a) \in Nat /\ NextAttempt(a) >= 1 /\ NextAttempt(a) > Last(a).attempt
  BY <1>1, <1>2 DEF NextAttempt
<1>4. \A i \in 1..m : i < m => journal[a][i].attempt <= Last(a).attempt
  BY <1>1 DEF Ordered, Ascending
<1>5. ASSUME NEW i \in 1..m PROVE journal[a][i].attempt # NextAttempt(a)
  <2>1. journal[a][i].attempt \in Nat /\ journal[a][m].attempt \in Nat
    BY <1>1, <1>2
  <2>2. CASE i = m
    BY <1>1, <1>3, <2>1, <2>2
  <2>3. CASE i # m
    BY <1>1, <1>3, <1>4, <2>1, <2>3
  <2> QED
    BY <2>2, <2>3
<1> QED
  BY <1>1, <1>2, <1>3, <1>5 DEF Appendable, Unended

\* Which journals a step adds to, and that they stay acceptable.
LEMMA ValidKeeps ==
  ASSUME ~MaySplitCommit, IInv, Valid, Attempts, Next
  PROVE  /\ Valid'
         /\ status # "none" => \A a \in Action :
              \/ journal'[a] = journal[a]
              \/ a = cur /\ pc \in Looping \cup Failing \cup Undoing
              \/ a = Top.action /\ pc = "unjournal"
              \/ a = cur + 1 /\ pc = "skip"
<1> USE DEF runVars, diskVars, procVars, envVars, Enter, Goto, Fault
<1>1. /\ plan' = plan /\ Action' = Action /\ cur \in Action /\ Action = 1..Len(plan) /\ Len(plan) \in Nat
      /\ TypeOK /\ Control /\ Journals /\ Stack /\ Files
      /\ attempt \in Nat /\ Reference \in BOOLEAN /\ Known(cur) \in Records
  BY PlanFixed, SamePlan, KnownType DEF IInv, TypeOK, ProcessType, Reference
<1>2. CASE status = "none"
  <2>1. Start
    BY <1>1, <1>2, Begins DEF Files
  <2>2. \A a \in Action : journal'[a] = <<Event("pending", 0, FALSE, "none")>>
    BY <1>1, <2>1 DEF Start
  <2>3. EventsValid(<<Event("pending", 0, FALSE, "none")>>) /\ Ascending(<<Event("pending", 0, FALSE, "none")>>)
    BY DEF EventsValid, Ascending, Event
  <2> QED
    BY <1>1, <1>2, <2>2, <2>3 DEF Valid, JournalValid, Ordered
<1> SUFFICES ASSUME status # "none"
             PROVE  /\ \A a \in Action : JournalValid(a)' /\ Ordered(a)'
                    /\ \A a \in Action :
                         \/ journal'[a] = journal[a]
                         \/ a = cur /\ pc \in Looping \cup Failing \cup Undoing
                         \/ a = Top.action /\ pc = "unjournal"
                         \/ a = cur + 1 /\ pc = "skip"
  BY <1>1, <1>2 DEF Valid
<1>3. CASE UNCHANGED journal
  BY <1>1, <1>3 DEF Valid, JournalValid, Ordered
<1>4. /\ "none" \in Records /\ 1 \in Nat
      /\ {"skipped", "running", "succeeded", "failed", "rolled-back"} \subseteq States \ {"pending"}
  BY DEF Records, States
<1>5. \A s \in States, n \in Nat, r \in BOOLEAN, w \in Records :
        /\ Event(s, n, r, w) \in Events
        /\ Event(s, n, r, w).state = s /\ Event(s, n, r, w).attempt = n
  BY DEF Event, Events
<1>6. ASSUME NEW a \in Action, NEW n \in Nat, NEW e \in Events, e.attempt = n, e.state # "pending", Journal(a, e),
             Appendable(a, n) \/ (e.state = "rolled-back" /\ Undoable(a, n)),
             \/ a = cur /\ pc \in Looping \cup Failing \cup Undoing
             \/ a = Top.action /\ pc = "unjournal"
             \/ a = cur + 1 /\ pc = "skip"
      PROVE  /\ \A b \in Action : JournalValid(b)' /\ Ordered(b)'
             /\ \A b \in Action :
                  \/ journal'[b] = journal[b]
                  \/ b = cur /\ pc \in Looping \cup Failing \cup Undoing
                  \/ b = Top.action /\ pc = "unjournal"
                  \/ b = cur + 1 /\ pc = "skip"
  BY <1>1, <1>6, Appends
<1>7. CASE Hold
  <2>1. pc \in Looping \cup Failing \cup Undoing /\ Appendable(cur, attempt)
    BY <1>1, <1>7 DEF Hold, Attempts, InAttempt, Looping, Failing, Undoing
  <2>2. /\ Event("skipped", attempt, FALSE, "none") \in Events
        /\ Event("skipped", attempt, FALSE, "none").state = "skipped"
        /\ Event("skipped", attempt, FALSE, "none").attempt = attempt
    BY <1>1, <1>4 DEF Event, Events
  <2>3. CASE Journal(cur, Event("skipped", attempt, FALSE, "none"))
    BY <1>1, <1>6, <2>1, <2>2, <2>3
  <2> QED
    BY <1>3, <1>7, <2>3 DEF Hold
<1>8. CASE JournalRunning
  <2>1. pc \in Looping \cup Failing \cup Undoing /\ Appendable(cur, attempt)
    BY <1>1, <1>8 DEF JournalRunning, Attempts, InAttempt, Looping, Failing, Undoing
  <2>2. /\ Event("running", attempt, Reference, "none") \in Events
        /\ Event("running", attempt, Reference, "none").state = "running"
        /\ Event("running", attempt, Reference, "none").attempt = attempt
    BY <1>1, <1>4 DEF Event, Events
  <2>3. CASE Journal(cur, Event("running", attempt, Reference, "none"))
    BY <1>1, <1>6, <2>1, <2>2, <2>3
  <2> QED
    BY <1>3, <1>8, <2>3 DEF JournalRunning
<1>9. CASE Commit
  <2>1. pc \in Looping \cup Failing \cup Undoing /\ Appendable(cur, attempt)
    BY <1>1, <1>9 DEF Commit, Attempts, InAttempt, Looping, Failing, Undoing
  <2>2. /\ Event("succeeded", attempt, Reference, IF IsFile(cur) THEN Known(cur) ELSE "none") \in Events
        /\ Event("succeeded", attempt, Reference, IF IsFile(cur) THEN Known(cur) ELSE "none").state = "succeeded"
        /\ Event("succeeded", attempt, Reference, IF IsFile(cur) THEN Known(cur) ELSE "none").attempt = attempt
    BY <1>1, <1>4 DEF Event, Events
  <2>3. CASE Journal(cur, Event("succeeded", attempt, Reference, IF IsFile(cur) THEN Known(cur) ELSE "none"))
    BY <1>1, <1>6, <2>1, <2>2, <2>3
  <2> QED
    BY <1>3, <1>9, <2>3 DEF Commit
<1>10. CASE Fail
  <2>1. pc \in Looping \cup Failing \cup Undoing /\ Appendable(cur, attempt)
    BY <1>1, <1>10 DEF Fail, Attempts, InAttempt, Looping, Failing, Undoing
  <2>2. /\ Event("failed", attempt, Reference, "none") \in Events
        /\ Event("failed", attempt, Reference, "none").state = "failed"
        /\ Event("failed", attempt, Reference, "none").attempt = attempt
    BY <1>1, <1>4 DEF Event, Events
  <2>3. CASE Journal(cur, Event("failed", attempt, Reference, "none"))
    BY <1>1, <1>6, <2>1, <2>2, <2>3
  <2> QED
    BY <1>3, <1>10, <2>3 DEF Fail
<1>11. CASE Disown
  <2>1. pc \in Looping \cup Failing \cup Undoing /\ Appendable(cur, attempt)
    BY <1>1, <1>11 DEF Disown, Attempts, InAttempt, Looping, Failing, Undoing
  <2>2. /\ Event("rolled-back", attempt, FALSE, "none") \in Events
        /\ Event("rolled-back", attempt, FALSE, "none").state = "rolled-back"
        /\ Event("rolled-back", attempt, FALSE, "none").attempt = attempt
    BY <1>1, <1>4 DEF Event, Events
  <2>3. CASE Journal(cur, Event("rolled-back", attempt, FALSE, "none"))
    BY <1>1, <1>6, <2>1, <2>2, <2>3
  <2> QED
    BY <1>3, <1>11, <2>3 DEF Disown
<1>12. CASE Unjournal
  <2>1. Top.action \in Action /\ Top.attempt \in Nat /\ pc = "unjournal" /\ Undoable(Top.action, Top.attempt)
    BY <1>1, <1>12, TopFacts DEF Unjournal, Stack, Attempts, StackAttempts
  <2>2. /\ Event("rolled-back", Top.attempt, TRUE, "none") \in Events
        /\ Event("rolled-back", Top.attempt, TRUE, "none").state = "rolled-back"
        /\ Event("rolled-back", Top.attempt, TRUE, "none").attempt = Top.attempt
    BY <1>1, <1>4, <2>1 DEF Event, Events
  <2>3. CASE Journal(Top.action, Event("rolled-back", Top.attempt, TRUE, "none"))
    BY <1>1, <1>6, <2>1, <2>2, <2>3
  <2> QED
    BY <1>3, <1>12, <2>3 DEF Unjournal
<1>13. CASE Skip
  <2>1. cur + 1 \in Action /\ pc = "skip" /\ Appendable(cur + 1, 1)
    BY <1>1, <1>13, FirstAttempt DEF Skip, Control, Valid, Attempts, FreshJournals, Working, Ending
  <2>2. /\ Event("skipped", 1, FALSE, "none") \in Events
        /\ Event("skipped", 1, FALSE, "none").state = "skipped"
        /\ Event("skipped", 1, FALSE, "none").attempt = 1
    BY <1>1, <1>4 DEF Event, Events
  <2>3. CASE Journal(cur + 1, Event("skipped", 1, FALSE, "none"))
    BY <1>1, <1>6, <2>1, <2>2, <2>3
  <2> QED
    BY <1>3, <1>13, <2>3 DEF Skip
<1>14. CASE TakeInstall
  <2>1. pc \in Looping /\ NextAttempt(cur) \in Nat /\ Appendable(cur, NextAttempt(cur))
    BY <1>1, <1>14, LaterAttempt DEF TakeInstall, Taking, Valid, Looping
  <2>2. ASSUME NEW s \in {"succeeded", "skipped"}, Journal(cur, Event(s, NextAttempt(cur), FALSE, "none"))
        PROVE  /\ \A b \in Action : JournalValid(b)' /\ Ordered(b)'
               /\ \A b \in Action : journal'[b] = journal[b] \/ b = cur
    <3>1. /\ Event(s, NextAttempt(cur), FALSE, "none") \in Events
          /\ Event(s, NextAttempt(cur), FALSE, "none").state = s
          /\ Event(s, NextAttempt(cur), FALSE, "none").attempt = NextAttempt(cur)
      BY <1>4, <2>1, <2>2 DEF Event, Events
    <3> QED
      BY <1>1, <2>1, <2>2, <3>1, Appends
  <2> QED
    BY <1>3, <1>14, <2>1, <2>2 DEF TakeInstall
<1>15. CASE InterruptedJournal
  <2>1. pc \in Looping \cup Failing \cup Undoing /\ Appendable(cur, attempt)
    BY <1>1, <1>15 DEF InterruptedJournal, Attempts, InAttempt, Looping, Failing, Undoing
  <2>2. /\ Event("failed", attempt, Reference, "none") \in Events
        /\ Event("failed", attempt, Reference, "none").state = "failed"
        /\ Event("failed", attempt, Reference, "none").attempt = attempt
    BY <1>1, <1>4 DEF Event, Events
  <2>3. CASE Journal(cur, Event("failed", attempt, Reference, "none"))
    BY <1>1, <1>6, <2>1, <2>2, <2>3
  <2> QED
    BY <1>3, <1>15, <2>3 DEF InterruptedJournal
<1> QED
  BY <1>3, <1>7, <1>8, <1>9, <1>10, <1>11, <1>12, <1>13, <1>14, <1>15
  DEF Next, ProcessStep, ExecutorStep, RecoveryStep, StopStep, AbandonStep, UserEdit,
      Start, Take, RecordDrift, Prepare, Mutate, Verify, Return, Undo, Unwind, Unwound, Complete,
          Cleanup, TakeSkipped, KeepRemoved, KeepWritten, RedoRemoved, RedoWritten, RedoStarted,
          InterruptedUndo, Interrupted, Discard, Close, Recover, Abandon, Crash, Interrupt, Redo

\* The attempt in hand has not ended, but for the success about to be returned.
LEMMA InAttemptKeeps == ASSUME ~MaySplitCommit, IInv, Valid, Attempts, Next PROVE InAttempt'
<1> USE DEF runVars, diskVars, procVars, envVars, Enter, Goto, Fault, Finish, Execute, AfterBreak, Action
<1>1. /\ plan' = plan /\ Action' = Action /\ cur \in Action /\ Action = 1..Len(plan) /\ Len(plan) \in Nat
      /\ TypeOK /\ Control /\ Journals /\ Stack /\ Files
      /\ attempt \in Nat /\ Reference \in BOOLEAN /\ Known(cur) \in Records /\ Kind(cur) \in ActionKinds
  BY PlanFixed, SamePlan, KnownType DEF IInv, TypeOK, ProcessType, Reference
<1>2. ASSUME UNCHANGED journal PROVE \A a \in Action, n \in Nat : Appendable(a, n)' = Appendable(a, n) /\ Undoable(a, n)' = Undoable(a, n)
  BY <1>2 DEF Appendable, Undoable
<1>3. /\ "none" \in Records /\ 1 \in Nat
      /\ {"skipped", "running", "succeeded", "failed", "rolled-back"} \subseteq States \ {"pending"}
  BY DEF Records, States
<1>4. CASE Start
  BY <1>4 DEF Start, InAttempt, Working, Looping, Failing, Undoing, Unwinding, Ending
<1>5. CASE Take
  <2>1. Appendable(cur, 1)
    BY <1>1, <1>5, FirstAttempt DEF Take, Control, Valid, Attempts, FreshJournals, Open, Working,
        Looping
  <2> QED
    BY <1>1, <1>2, <1>3, <1>5, <2>1 DEF Take, Entry, InAttempt
<1>6. CASE RecordDrift
  BY <1>1, <1>2, <1>6 DEF RecordDrift, Attempts, InAttempt, Working, Looping, Failing, Undoing,
      Unwinding, Ending
<1>7. CASE Hold
  BY <1>1, <1>7 DEF Hold, Control, InAttempt, Working, Looping, Failing, Undoing, Unwinding, Ending
<1>8. CASE Prepare
  BY <1>1, <1>2, <1>8 DEF Prepare, Attempts, InAttempt, Working, Looping, Failing, Undoing,
      Unwinding, Ending
<1>9. CASE JournalRunning
  <2>1. pc \in Looping \cup Failing \cup Undoing /\ Appendable(cur, attempt) /\ status # "none" /\ Valid
    BY <1>1, <1>9 DEF JournalRunning, Attempts, InAttempt, Control, Open, Working, Looping, Failing,
        Undoing, Unwinding, Ending
  <2>2. /\ Event("running", attempt, Reference, "none") \in Events
        /\ Event("running", attempt, Reference, "none").state = "running"
        /\ Event("running", attempt, Reference, "none").attempt = attempt
    BY <1>1, <1>3 DEF Event, Events
  <2>3. CASE Journal(cur, Event("running", attempt, Reference, "none"))
    <3>1. \A a \in Action, n \in Nat : a = cur /\ n = attempt => Appendable(a, n)'
      BY <1>1, <2>1, <2>2, <2>3, Appends
    <3> QED
      BY <1>1, <1>9, <3>1, <2>3 DEF JournalRunning, InAttempt, Working, Looping, Failing, Undoing,
          Unwinding, Ending
  <2>4. CASE UNCHANGED journal /\ Goto("undo")
    BY <1>1, <1>2, <2>1, <2>4 DEF InAttempt
  <2> QED
    BY <1>9, <2>3, <2>4 DEF JournalRunning
<1>10. CASE Mutate
  BY <1>1, <1>2, <1>10 DEF Mutate, Attempts, InAttempt, Working, Looping, Failing, Undoing,
      Unwinding, Ending
<1>11. CASE Verify
  BY <1>1, <1>2, <1>11 DEF Verify, Attempts, InAttempt, Working, Looping, Failing, Undoing,
      Unwinding, Ending
<1>12. CASE Commit
  <2>1. pc \in Looping \cup Failing \cup Undoing /\ Appendable(cur, attempt) /\ status # "none" /\ Valid
    BY <1>1, <1>12 DEF Commit, Attempts, InAttempt, Control, Open, Working, Looping, Failing,
        Undoing, Unwinding, Ending
  <2>2. /\ Event("succeeded", attempt, Reference, IF IsFile(cur) THEN Known(cur) ELSE "none") \in Events
        /\ Event("succeeded", attempt, Reference, IF IsFile(cur) THEN Known(cur) ELSE "none").state = "succeeded"
        /\ Event("succeeded", attempt, Reference, IF IsFile(cur) THEN Known(cur) ELSE "none").attempt = attempt
    BY <1>1, <1>3 DEF Event, Events
  <2>3. CASE Journal(cur, Event("succeeded", attempt, Reference, IF IsFile(cur) THEN Known(cur) ELSE "none"))
             /\ pc' = "return" /\ UNCHANGED <<cur, attempt>>
    <3>1. \A a \in Action, n \in Nat : a = cur /\ n = attempt => Undoable(a, n)'
      BY <1>1, <2>1, <2>2, <2>3, Appends
    <3> QED
      BY <1>1, <1>12, <3>1, <2>3 DEF Commit, InAttempt, Working, Looping, Failing, Undoing,
          Unwinding, Ending
  <2>4. CASE UNCHANGED journal /\ Goto("undo")
    BY <1>1, <1>2, <2>1, <2>4 DEF InAttempt
  <2> QED
    BY <1>12, <2>3, <2>4 DEF Commit
<1>13. CASE Return
  BY <1>1, <1>2, <1>13 DEF Return, Attempts, InAttempt, Working, Looping, Failing, Undoing,
      Unwinding, Ending
<1>14. CASE Undo
  BY <1>1, <1>2, <1>14 DEF Undo, Attempts, InAttempt, Working, Looping, Failing, Undoing, Unwinding,
      Ending
<1>15. CASE Fail
  <2>1. pc \in Looping \cup Failing \cup Undoing /\ Appendable(cur, attempt) /\ status # "none" /\ Valid
    BY <1>1, <1>15 DEF Fail, Attempts, InAttempt, Control, Open, Working, Looping, Failing, Undoing,
        Unwinding, Ending
  <2>2. /\ Event("failed", attempt, Reference, "none") \in Events
        /\ Event("failed", attempt, Reference, "none").state = "failed"
        /\ Event("failed", attempt, Reference, "none").attempt = attempt
    BY <1>1, <1>3 DEF Event, Events
  <2>3. CASE Journal(cur, Event("failed", attempt, Reference, "none"))
    <3>1. \A a \in Action, n \in Nat : a = cur /\ n = attempt => Appendable(a, n)'
      BY <1>1, <2>1, <2>2, <2>3, Appends
    <3> QED
      BY <1>1, <1>15, <3>1, <2>3 DEF Fail, InAttempt, Working, Looping, Failing, Undoing, Unwinding,
          Ending
  <2>4. CASE UNCHANGED journal
    BY <1>1, <1>2, <1>15, <2>1, <2>4 DEF Fail, InAttempt, Working, Looping, Failing, Undoing,
        Unwinding, Ending
  <2> QED
    BY <1>15, <2>3, <2>4 DEF Fail
<1>16. CASE Disown
  BY <1>1, <1>16 DEF Disown, Control, InAttempt, Working, Looping, Failing, Undoing, Unwinding, Ending
<1>17. CASE Unwind
  BY <1>1, <1>2, <1>17 DEF Unwind, Attempts, InAttempt, Working, Looping, Failing, Undoing,
      Unwinding, Ending
<1>18. CASE Unjournal
  BY <1>18 DEF Unjournal, InAttempt, Working, Looping, Failing, Undoing, Unwinding, Ending
<1>19. CASE Unwound
  BY <1>1, <1>2, <1>19 DEF Unwound, Attempts, InAttempt, Working, Looping, Failing, Undoing,
      Unwinding, Ending
<1>20. CASE Skip
  BY <1>20 DEF Skip, InAttempt, Working, Looping, Failing, Undoing, Unwinding, Ending
<1>21. CASE Complete
  BY <1>1, <1>2, <1>21 DEF Complete, Attempts, InAttempt, Working, Looping, Failing, Undoing,
      Unwinding, Ending
<1>22. CASE Cleanup
  BY <1>1, <1>2, <1>22 DEF Cleanup, Attempts, InAttempt, Working, Looping, Failing, Undoing,
      Unwinding, Ending
<1>23. CASE TakeSkipped
  BY <1>1, <1>2, <1>23 DEF TakeSkipped, Taking, Attempts, InAttempt, Working, Looping, Failing,
      Undoing, Unwinding, Ending
<1>24. CASE TakeInstall
  BY <1>1, <1>24 DEF TakeInstall, Taking, Control, InAttempt, Working, Looping, Failing, Undoing,
      Unwinding, Ending
<1>25. CASE KeepRemoved
  BY <1>1, <1>2, <1>25 DEF KeepRemoved, Taking, Attempts, InAttempt, Working, Looping, Failing,
      Undoing, Unwinding, Ending
<1>26. CASE KeepWritten
  BY <1>1, <1>2, <1>26 DEF KeepWritten, Taking, Attempts, InAttempt, Working, Looping, Failing,
      Undoing, Unwinding, Ending
<1>27. CASE RedoRemoved
  <2>1. Appendable(cur, NextAttempt(cur)) /\ NextAttempt(cur) \in Nat
    BY <1>1, <1>27, LaterAttempt DEF RedoRemoved, Taking, Control, Open, Valid, Working, Looping
  <2> QED
    BY <1>1, <1>2, <1>27, <2>1 DEF RedoRemoved, Taking, Redo, Entry, InAttempt
<1>28. CASE RedoWritten
  <2>1. Appendable(cur, NextAttempt(cur)) /\ NextAttempt(cur) \in Nat
    BY <1>1, <1>28, LaterAttempt DEF RedoWritten, Taking, Control, Open, Valid, Working, Looping
  <2> QED
    BY <1>1, <1>2, <1>28, <2>1 DEF RedoWritten, Taking, Redo, Entry, InAttempt
<1>29. CASE RedoStarted
  <2>1. Appendable(cur, NextAttempt(cur)) /\ NextAttempt(cur) \in Nat
    BY <1>1, <1>29, LaterAttempt DEF RedoStarted, Taking, Control, Open, Valid, Working, Looping
  <2> QED
    BY <1>1, <1>2, <1>29, <2>1 DEF RedoStarted, Taking, Redo, Entry, InAttempt
<1>30. CASE InterruptedUndo
  BY <1>1, <1>2, <1>30 DEF InterruptedUndo, Attempts, InAttempt, Working, Looping, Failing, Undoing,
      Unwinding, Ending
<1>31. CASE InterruptedJournal
  BY <1>31 DEF InterruptedJournal, InAttempt, Working, Looping, Failing, Undoing, Unwinding, Ending
<1>32. CASE Interrupted
  BY <1>1, <1>2, <1>32 DEF Interrupted, Attempts, InAttempt, Working, Looping, Failing, Undoing,
      Unwinding, Ending
<1>33. CASE Discard
  BY <1>1, <1>2, <1>33 DEF Discard, Attempts, InAttempt, Working, Looping, Failing, Undoing,
      Unwinding, Ending
<1>34. CASE Close
  BY <1>1, <1>2, <1>34 DEF Close, Attempts, InAttempt, Working, Looping, Failing, Undoing,
      Unwinding, Ending
<1>35. CASE Recover
  BY <1>1, <1>2, <1>35 DEF Recover, Attempts, InAttempt, Working, Looping, Failing, Undoing,
      Unwinding, Ending
<1>36. CASE Abandon
  BY <1>1, <1>2, <1>36 DEF Abandon, Attempts, InAttempt, Working, Looping, Failing, Undoing,
      Unwinding, Ending
<1>37. CASE Crash
  BY <1>1, <1>2, <1>37 DEF Crash, Attempts, InAttempt, Working, Looping, Failing, Undoing,
      Unwinding, Ending
<1>38. CASE Interrupt
  BY <1>1, <1>2, <1>38 DEF Interrupt, InAction, Attempts, InAttempt, Working, Looping, Failing,
      Undoing, Unwinding, Ending
<1>39. ASSUME NEW p \in Path, UserEdit(p) PROVE InAttempt'
  BY <1>1, <1>2, <1>39 DEF UserEdit, Attempts, InAttempt, Working, Looping, Failing, Undoing,
      Unwinding, Ending
<1> QED
  BY <1>4, <1>5, <1>6, <1>7, <1>8, <1>9, <1>10, <1>11, <1>12, <1>13, <1>14, <1>15, <1>16, <1>17,
      <1>18, <1>19, <1>20, <1>21, <1>22, <1>23, <1>24, <1>25, <1>26, <1>27, <1>28, <1>29, <1>30,
      <1>31, <1>32, <1>33, <1>34, <1>35, <1>36, <1>37, <1>38, <1>39
  DEF Next, ProcessStep, ExecutorStep, RecoveryStep, StopStep, AbandonStep

\* Ahead of a first execution the journals hold their pending event alone.
LEMMA FreshJournalsKeep == ASSUME ~MaySplitCommit, IInv, Valid, Attempts, Next PROVE FreshJournals'
<1> USE DEF runVars, diskVars, procVars, envVars, Enter, Goto, Fault, Finish, Execute, AfterBreak, Action
<1>1. /\ plan' = plan /\ Action' = Action /\ cur \in Action /\ Action = 1..Len(plan) /\ Len(plan) \in Nat
      /\ TypeOK /\ Control /\ Journals /\ Stack /\ Files
  BY PlanFixed, SamePlan DEF IInv
<1>2. status # "none" => \A a \in Action :
        \/ journal'[a] = journal[a]
        \/ a = cur /\ pc \in Looping \cup Failing \cup Undoing
        \/ a = Top.action /\ pc = "unjournal"
        \/ a = cur + 1 /\ pc = "skip"
  BY ValidKeeps
<1>3. \A a \in Action : \A b \in Action : journal'[a] = journal[b] => Len(journal'[a]) = Len(journal[b])
  OBVIOUS
<1>4. CASE Start
  <2>1. \A a \in Action : journal'[a] = <<Event("pending", 0, FALSE, "none")>>
    BY <1>1, <1>4 DEF Start
  <2>2. \A x : Len(<<x>>) = 1
    OBVIOUS
  <2>3. \A a \in Action : Len(journal'[a]) = 1
    BY <2>1, <2>2, Zenon
  <2> QED
    BY <1>1, <2>3 DEF FreshJournals
<1>5. CASE Take
  BY <1>1, <1>2, <1>5 DEF Take, Entry, Control, Attempts, FreshJournals, Open, Working, Looping,
      Failing, Undoing, Unwinding, Ending
<1>6. CASE RecordDrift
  BY <1>1, <1>2, <1>6 DEF RecordDrift, Control, Attempts, FreshJournals, Open, Working, Looping,
      Failing, Undoing, Unwinding, Ending
<1>7. CASE Hold
  <2>1. /\ mode' = mode /\ cur' = cur /\ pc' \in Unwinding \cup Ending /\ pc \in Working
        /\ status # "none" /\ pc \in Looping
    BY <1>1, <1>7 DEF Hold, Control, Open, Working, Looping, Failing, Undoing, Unwinding, Ending
  <2> QED
    BY <1>1, <1>2, <2>1 DEF Attempts, FreshJournals, Unwinding, Ending, Looping
<1>8. CASE Prepare
  BY <1>1, <1>2, <1>8 DEF Prepare, Control, Attempts, FreshJournals, Open, Working, Looping,
      Failing, Undoing, Unwinding, Ending
<1>9. CASE JournalRunning
  BY <1>1, <1>2, <1>9 DEF JournalRunning, Control, Attempts, FreshJournals, Open, Working, Looping,
      Failing, Undoing, Unwinding, Ending
<1>10. CASE Mutate
  BY <1>1, <1>2, <1>10 DEF Mutate, Control, Attempts, FreshJournals, Open, Working, Looping,
      Failing, Undoing, Unwinding, Ending
<1>11. CASE Verify
  BY <1>1, <1>2, <1>11 DEF Verify, Control, Attempts, FreshJournals, Open, Working, Looping,
      Failing, Undoing, Unwinding, Ending
<1>12. CASE Commit
  BY <1>1, <1>2, <1>12 DEF Commit, Control, Attempts, FreshJournals, Open, Working, Looping,
      Failing, Undoing, Unwinding, Ending
<1>13. CASE Return
  BY <1>1, <1>2, <1>13 DEF Return, Control, Attempts, FreshJournals, Open, Working, Looping,
      Failing, Undoing, Unwinding, Ending
<1>14. CASE Undo
  BY <1>1, <1>2, <1>14 DEF Undo, Control, Attempts, FreshJournals, Open, Working, Looping, Failing,
      Undoing, Unwinding, Ending
<1>15. CASE Fail
  BY <1>1, <1>2, <1>15 DEF Fail, Control, Attempts, FreshJournals, Open, Working, Looping, Failing,
      Undoing, Unwinding, Ending
<1>16. CASE Disown
  BY <1>1, <1>2, <1>16 DEF Disown, Control, Attempts, FreshJournals, Open, Working, Looping,
      Failing, Undoing, Unwinding, Ending
<1>17. CASE Unwind
  BY <1>1, <1>2, <1>17 DEF Unwind, Control, Attempts, FreshJournals, Open, Working, Looping,
      Failing, Undoing, Unwinding, Ending
<1>18. CASE Unjournal
  <2>1. mode = "run" => Top.action <= cur
    BY <1>1, <1>18, TopFacts DEF Unjournal, Stack, Journals, Unreached, Working, Unwinding
  <2> QED
    BY <1>1, <1>2, <1>18, <2>1 DEF Unjournal, Control, Attempts, FreshJournals, Open, Working,
        Looping, Failing, Undoing, Unwinding, Ending
<1>19. CASE Unwound
  BY <1>1, <1>2, <1>19 DEF Unwound, Control, Attempts, FreshJournals, Open, Working, Looping,
      Failing, Undoing, Unwinding, Ending
<1>20. CASE Skip
  BY <1>1, <1>2, <1>20 DEF Skip, Control, Attempts, FreshJournals, Open, Working, Looping, Failing,
      Undoing, Unwinding, Ending
<1>21. CASE Complete
  BY <1>1, <1>2, <1>21 DEF Complete, Control, Attempts, FreshJournals, Open, Working, Looping,
      Failing, Undoing, Unwinding, Ending
<1>22. CASE Cleanup
  BY <1>1, <1>2, <1>22 DEF Cleanup, Control, Attempts, FreshJournals, Open, Working, Looping,
      Failing, Undoing, Unwinding, Ending
<1>23. CASE TakeSkipped
  BY <1>1, <1>2, <1>23 DEF TakeSkipped, Taking, Control, Attempts, FreshJournals, Open, Working,
      Looping, Failing, Undoing, Unwinding, Ending
<1>24. CASE TakeInstall
  BY <1>1, <1>2, <1>24 DEF TakeInstall, Taking, Control, Attempts, FreshJournals, Open, Working,
      Looping, Failing, Undoing, Unwinding, Ending
<1>25. CASE KeepRemoved
  BY <1>1, <1>2, <1>25 DEF KeepRemoved, Taking, Control, Attempts, FreshJournals, Open, Working,
      Looping, Failing, Undoing, Unwinding, Ending
<1>26. CASE KeepWritten
  BY <1>1, <1>2, <1>26 DEF KeepWritten, Taking, Control, Attempts, FreshJournals, Open, Working,
      Looping, Failing, Undoing, Unwinding, Ending
<1>27. CASE RedoRemoved
  BY <1>1, <1>2, <1>27 DEF RedoRemoved, Taking, Redo, Entry, Control, Attempts, FreshJournals, Open,
      Working, Looping, Failing, Undoing, Unwinding, Ending
<1>28. CASE RedoWritten
  BY <1>1, <1>2, <1>28 DEF RedoWritten, Taking, Redo, Entry, Control, Attempts, FreshJournals, Open,
      Working, Looping, Failing, Undoing, Unwinding, Ending
<1>29. CASE RedoStarted
  BY <1>1, <1>2, <1>29 DEF RedoStarted, Taking, Redo, Entry, Control, Attempts, FreshJournals, Open,
      Working, Looping, Failing, Undoing, Unwinding, Ending
<1>30. CASE InterruptedUndo
  BY <1>1, <1>2, <1>30 DEF InterruptedUndo, Control, Attempts, FreshJournals, Open, Working,
      Looping, Failing, Undoing, Unwinding, Ending
<1>31. CASE InterruptedJournal
  BY <1>1, <1>2, <1>31 DEF InterruptedJournal, Control, Attempts, FreshJournals, Open, Working,
      Looping, Failing, Undoing, Unwinding, Ending
<1>32. CASE Interrupted
  BY <1>1, <1>2, <1>32 DEF Interrupted, Control, Attempts, FreshJournals, Open, Working, Looping,
      Failing, Undoing, Unwinding, Ending
<1>33. CASE Discard
  BY <1>1, <1>2, <1>33 DEF Discard, Control, Attempts, FreshJournals, Open, Working, Looping,
      Failing, Undoing, Unwinding, Ending
<1>34. CASE Close
  BY <1>1, <1>2, <1>34 DEF Close, Control, Attempts, FreshJournals, Open, Working, Looping, Failing,
      Undoing, Unwinding, Ending
<1>35. CASE Recover
  BY <1>1, <1>2, <1>35 DEF Recover, Control, Attempts, FreshJournals, Open, Working, Looping,
      Failing, Undoing, Unwinding, Ending
<1>36. CASE Abandon
  BY <1>1, <1>2, <1>36 DEF Abandon, Control, Attempts, FreshJournals, Open, Working, Looping,
      Failing, Undoing, Unwinding, Ending
<1>37. CASE Crash
  BY <1>1, <1>2, <1>37 DEF Crash, Control, Attempts, FreshJournals, Open, Working, Looping, Failing,
      Undoing, Unwinding, Ending
<1>38. CASE Interrupt
  BY <1>1, <1>2, <1>38 DEF Interrupt, InAction, Control, Attempts, FreshJournals, Open, Working,
      Looping, Failing, Undoing, Unwinding, Ending
<1>39. ASSUME NEW p \in Path, UserEdit(p) PROVE FreshJournals'
  BY <1>1, <1>2, <1>39 DEF UserEdit, Control, Attempts, FreshJournals, Open, Working, Looping,
      Failing, Undoing, Unwinding, Ending
<1> QED
  BY <1>4, <1>5, <1>6, <1>7, <1>8, <1>9, <1>10, <1>11, <1>12, <1>13, <1>14, <1>15, <1>16, <1>17,
      <1>18, <1>19, <1>20, <1>21, <1>22, <1>23, <1>24, <1>25, <1>26, <1>27, <1>28, <1>29, <1>30,
      <1>31, <1>32, <1>33, <1>34, <1>35, <1>36, <1>37, <1>38, <1>39
  DEF Next, ProcessStep, ExecutorStep, RecoveryStep, StopStep, AbandonStep

\* The steps that journal nothing of the completed actions.
LEMMA StackAttemptsSame ==
  ASSUME TypeOK, StackAttempts, plan' = plan, stack' = stack,
         \A i \in DOMAIN stack : journal'[stack[i].action] = journal[stack[i].action]
  PROVE  StackAttempts'
<1>1. \A i \in DOMAIN stack : stack[i].action \in Action
  BY StackedActions
<1>2. \A a : journal'[a] = journal[a] => \A n : Undoable(a, n)' = Undoable(a, n)
  BY DEF Undoable
<1> QED
  BY <1>1, <1>2 DEF StackAttempts

\* A completed action is put on the stack with the attempt that completed it.
LEMMA StackAttemptsPushed ==
  ASSUME TypeOK, StackAttempts, plan' = plan, UNCHANGED journal, NEW n \in Nat, NEW prev \in Records,
         cur \in Action, Push(cur, n, prev), Undoable(cur, n)
  PROVE  StackAttempts'
<1> DEFINE x == [action |-> cur, attempt |-> n, prev |-> prev]
<1>1. stack \in Seq(Pushes) /\ x \in Pushes /\ x.action = cur /\ x.attempt = n
  BY DEF TypeOK, ProcessType, Pushes
<1> HIDE DEF x
<1>2. stack' = <<x>> \o stack
  BY DEF Push, x
<1>3. /\ DOMAIN stack' = 1..(Len(stack) + 1) /\ stack'[1] = x /\ \A i \in 1..Len(stack) : stack'[i + 1] = stack[i]
      /\ DOMAIN stack = 1..Len(stack) /\ Len(stack) \in Nat
  BY <1>1, <1>2, Pushed
<1>4. \A i \in DOMAIN stack' : stack'[i] = x \/ \E k \in DOMAIN stack : stack'[i] = stack[k]
  <2> SUFFICES ASSUME NEW i \in DOMAIN stack', i # 1 PROVE \E k \in DOMAIN stack : stack'[i] = stack[k]
    BY <1>3
  <2>1. i - 1 \in DOMAIN stack /\ stack'[i] = stack[i - 1]
    BY <1>3
  <2> QED
    BY <2>1
<1>5. \A i \in DOMAIN stack' : Undoable(stack'[i].action, stack'[i].attempt)
  BY <1>1, <1>4 DEF StackAttempts
<1>6. \A a, m : Undoable(a, m)' = Undoable(a, m)
  BY DEF Undoable
<1> QED
  BY <1>5, <1>6 DEF StackAttempts

\* An action taken off the stack is on it only once.
LEMMA StackAttemptsPopped ==
  ASSUME TypeOK, Stack, StackAttempts, plan' = plan, stack # <<>>, stack' = Tail(stack),
         \A a \in Action : a # Top.action => journal'[a] = journal[a]
  PROVE  StackAttempts'
<1>1. /\ DOMAIN stack = 1..Len(stack) /\ Len(stack) \in Nat \ {0} /\ DOMAIN stack' = 1..(Len(stack) - 1)
      /\ \A i \in 1..(Len(stack) - 1) : stack'[i] = stack[i + 1]
      /\ Top = stack[1] /\ Top.action \in Action
  BY Popped, TopFacts DEF TypeOK, ProcessType
<1>2. \A i \in DOMAIN stack' : /\ i + 1 \in DOMAIN stack /\ stack'[i] = stack[i + 1]
                               /\ stack[1].action > stack[i + 1].action
  BY <1>1 DEF Stack
<1>3. \A i \in DOMAIN stack : stack[i].action \in Action /\ stack[i].action \in Nat
  BY StackedActions, SamePlan
<1>4. \A i \in DOMAIN stack' : journal'[stack[i + 1].action] = journal[stack[i + 1].action]
  BY <1>1, <1>2, <1>3
<1>5. \A a : journal'[a] = journal[a] => \A n : Undoable(a, n)' = Undoable(a, n)
  BY DEF Undoable
<1> QED
  BY <1>2, <1>4, <1>5 DEF StackAttempts

\* A completed action can be journaled as rolled back in the attempt it is kept with.
LEMMA StackAttemptsKeep == ASSUME ~MaySplitCommit, IInv, Valid, Attempts, Next PROVE StackAttempts'
<1> USE DEF runVars, diskVars, procVars, envVars, Enter, Goto, Fault, Finish, Execute, AfterBreak, Action
<1>1. /\ plan' = plan /\ Action' = Action /\ cur \in Action /\ Action = 1..Len(plan) /\ Len(plan) \in Nat
      /\ TypeOK /\ Control /\ Journals /\ Stack /\ StackAttempts
  BY PlanFixed, SamePlan DEF IInv, Attempts
<1>2. status # "none" => \A a \in Action :
        \/ journal'[a] = journal[a]
        \/ a = cur /\ pc \in Looping \cup Failing \cup Undoing
        \/ a = Top.action /\ pc = "unjournal"
        \/ a = cur + 1 /\ pc = "skip"
  BY ValidKeeps
<1>3. ASSUME stack' = stack, status # "none", pc \notin {"unjournal", "skip"} PROVE StackAttempts'
  <2>1. \A i \in DOMAIN stack : /\ stack[i].action \in Action /\ stack[i].action \in Nat
                                /\ pc \in Looping \cup Failing \cup Undoing => stack[i].action < cur
    BY <1>1, StackedActions DEF Stack
  <2>2. \A i \in DOMAIN stack : journal'[stack[i].action] = journal[stack[i].action]
    BY <1>1, <1>2, <1>3, <2>1
  <2> QED
    BY <1>1, <1>3, <2>2, StackAttemptsSame
<1>4. ASSUME stack' = <<>> PROVE StackAttempts'
  BY <1>4 DEF StackAttempts
<1>5. CASE Start
  BY <1>4, <1>5 DEF Start
<1>6. CASE Take
  BY <1>1, <1>3, <1>6 DEF Take, Entry, Control, Open, Working, Looping, Failing, Undoing, Unwinding,
      Ending
<1>7. CASE RecordDrift
  BY <1>1, <1>3, <1>7 DEF RecordDrift, Control, Open, Working, Looping, Failing, Undoing, Unwinding,
      Ending
<1>8. CASE Hold
  BY <1>1, <1>3, <1>8 DEF Hold, Control, Open, Working, Looping, Failing, Undoing, Unwinding, Ending
<1>9. CASE Prepare
  BY <1>1, <1>3, <1>9 DEF Prepare, Control, Open, Working, Looping, Failing, Undoing, Unwinding, Ending
<1>10. CASE JournalRunning
  BY <1>1, <1>3, <1>10 DEF JournalRunning, Control, Open, Working, Looping, Failing, Undoing,
      Unwinding, Ending
<1>11. CASE Mutate
  BY <1>1, <1>3, <1>11 DEF Mutate, Control, Open, Working, Looping, Failing, Undoing, Unwinding, Ending
<1>12. CASE Verify
  BY <1>1, <1>3, <1>12 DEF Verify, Control, Open, Working, Looping, Failing, Undoing, Unwinding, Ending
<1>13. CASE Commit
  BY <1>1, <1>3, <1>13 DEF Commit, Control, Open, Working, Looping, Failing, Undoing, Unwinding, Ending
<1>14. CASE Return
  <2>1. CASE IsFile(cur)
    <3>1. owner \in Records /\ attempt \in Nat /\ Undoable(cur, attempt) /\ UNCHANGED journal
      BY <1>1, <1>14 DEF Return, TypeOK, ProcessType, Control, Attempts, InAttempt
    <3> QED
      BY <1>1, <1>14, <2>1, <3>1, StackAttemptsPushed DEF Return
  <2>2. CASE ~IsFile(cur)
    BY <1>1, <1>3, <1>14, <2>2 DEF Return, Control, Open, Working, Looping
  <2> QED
    BY <2>1, <2>2
<1>15. CASE Undo
  BY <1>1, <1>3, <1>15 DEF Undo, Control, Open, Working, Looping, Failing, Undoing, Unwinding, Ending
<1>16. CASE Fail
  BY <1>1, <1>3, <1>16 DEF Fail, Control, Open, Working, Looping, Failing, Undoing, Unwinding, Ending
<1>17. CASE Disown
  BY <1>1, <1>3, <1>17 DEF Disown, Control, Open, Working, Looping, Failing, Undoing, Unwinding, Ending
<1>18. CASE Unwind
  <2>1. CASE stack' = Tail(stack)
    BY <1>1, <1>18, <2>1, StackAttemptsPopped DEF Unwind
  <2>2. CASE Goto("unjournal")
    BY <1>1, <1>3, <1>18, <2>2 DEF Unwind, Control, Open, Working, Unwinding
  <2> QED
    BY <1>18, <2>1, <2>2 DEF Unwind
<1>19. CASE Unjournal
  <2>1. \A a \in Action : a # Top.action => journal'[a] = journal[a]
    BY <1>1, <1>2, <1>19 DEF Unjournal, Control, Open, Working, Looping, Failing, Undoing,
        Unwinding, Ending
  <2> QED
    BY <1>1, <1>19, <2>1, StackAttemptsPopped DEF Unjournal, Stack
<1>20. CASE Unwound
  BY <1>1, <1>3, <1>20 DEF Unwound, Control, Open, Working, Looping, Failing, Undoing, Unwinding, Ending
<1>21. CASE Skip
  <2>1. \A i \in DOMAIN stack : stack[i].action \in Action /\ HasReference(stack[i].action)
    BY <1>1, StackedActions DEF Stack
  <2>2. cur + 1 \in Action /\ ~HasReference(cur + 1)
    BY <1>1, <1>21 DEF Skip, Control, Journals, Unreached, Working, Ending
  <2>3. \A i \in DOMAIN stack : journal'[stack[i].action] = journal[stack[i].action]
    BY <1>1, <1>2, <1>21, <2>1, <2>2 DEF Skip, Control, Open, Working, Looping, Failing, Undoing,
        Unwinding, Ending
  <2> QED
    BY <1>1, <1>21, <2>3, StackAttemptsSame DEF Skip
<1>22. CASE Complete
  BY <1>1, <1>3, <1>22 DEF Complete, Control, Open, Working, Looping, Failing, Undoing, Unwinding,
      Ending
<1>23. CASE Cleanup
  BY <1>4, <1>23 DEF Cleanup
<1>24. CASE TakeSkipped
  BY <1>1, <1>3, <1>24 DEF TakeSkipped, Taking, Control, Open, Working, Looping, Failing, Undoing,
      Unwinding, Ending
<1>25. CASE TakeInstall
  BY <1>1, <1>3, <1>25 DEF TakeInstall, Taking, Control, Open, Working, Looping, Failing, Undoing,
      Unwinding, Ending
<1>26. CASE KeepRemoved
  <2>1. Appendable(cur, NextAttempt(cur)) /\ NextAttempt(cur) \in Nat /\ Last(cur).was \in Records /\ UNCHANGED journal
    BY <1>1, <1>26, LaterAttempt, LastType DEF KeepRemoved, Taking, Control, Open, Valid, Working,
        Looping
  <2> QED
    BY <1>1, <1>26, <2>1, StackAttemptsPushed DEF KeepRemoved, Taking, Appendable, Undoable
<1>27. CASE KeepWritten
  <2>1. Appendable(cur, NextAttempt(cur)) /\ NextAttempt(cur) \in Nat /\ Last(cur).was \in Records /\ UNCHANGED journal
    BY <1>1, <1>27, LaterAttempt, LastType DEF KeepWritten, Taking, Control, Open, Valid, Working,
        Looping
  <2> QED
    BY <1>1, <1>27, <2>1, StackAttemptsPushed DEF KeepWritten, Taking, Appendable, Undoable
<1>28. CASE RedoRemoved
  BY <1>1, <1>3, <1>28 DEF RedoRemoved, Taking, Redo, Entry, Control, Open, Working, Looping,
      Failing, Undoing, Unwinding, Ending
<1>29. CASE RedoWritten
  BY <1>1, <1>3, <1>29 DEF RedoWritten, Taking, Redo, Entry, Control, Open, Working, Looping,
      Failing, Undoing, Unwinding, Ending
<1>30. CASE RedoStarted
  BY <1>1, <1>3, <1>30 DEF RedoStarted, Taking, Redo, Entry, Control, Open, Working, Looping,
      Failing, Undoing, Unwinding, Ending
<1>31. CASE InterruptedUndo
  BY <1>1, <1>3, <1>31 DEF InterruptedUndo, Control, Open, Working, Looping, Failing, Undoing,
      Unwinding, Ending
<1>32. CASE InterruptedJournal
  BY <1>1, <1>3, <1>32 DEF InterruptedJournal, Control, Open, Working, Looping, Failing, Undoing,
      Unwinding, Ending
<1>33. CASE Interrupted
  BY <1>4, <1>33 DEF Interrupted
<1>34. CASE Discard
  BY <1>1, <1>3, <1>34 DEF Discard, Control, Open, Working, Looping, Failing, Undoing, Unwinding, Ending
<1>35. CASE Close
  BY <1>4, <1>35 DEF Close
<1>36. CASE Recover
  BY <1>4, <1>36 DEF Recover
<1>37. CASE Abandon
  BY <1>4, <1>37 DEF Abandon
<1>38. CASE Crash
  BY <1>4, <1>38 DEF Crash
<1>39. CASE Interrupt
  <2>1. stack' = stack /\ journal' = journal
    BY <1>39 DEF Interrupt
  <2> QED
    BY <1>1, <2>1, StackAttemptsSame
<1>40. ASSUME NEW p \in Path, UserEdit(p) PROVE StackAttempts'
  BY <1>1, <1>3, <1>40 DEF UserEdit, Control, Open, Working, Looping, Failing, Undoing, Unwinding,
      Ending
<1> QED
  BY <1>5, <1>6, <1>7, <1>8, <1>9, <1>10, <1>11, <1>12, <1>13, <1>14, <1>15, <1>16, <1>17, <1>18,
      <1>19, <1>20, <1>21, <1>22, <1>23, <1>24, <1>25, <1>26, <1>27, <1>28, <1>29, <1>30, <1>31,
      <1>32, <1>33, <1>34, <1>35, <1>36, <1>37, <1>38, <1>39, <1>40
  DEF Next, ProcessStep, ExecutorStep, RecoveryStep, StopStep, AbandonStep

\* Together with IInv the validity of the journals is inductive.
LEMMA JournalInductive == ASSUME ~MaySplitCommit PROVE Spec => [](Valid /\ Attempts)
<1>1. Init => Valid /\ Attempts
  BY DEF Init, Valid, Attempts, InAttempt, StackAttempts, FreshJournals, Looping, Failing, Undoing,
      Working, Unwinding, Ending
<1>2. IInv /\ (Valid /\ Attempts) /\ [Next]_vars => (Valid /\ Attempts)'
  <2> SUFFICES ASSUME IInv, Valid, Attempts, [Next]_vars PROVE Valid' /\ Attempts'
    OBVIOUS
  <2>1. CASE Next
    BY <2>1, ValidKeeps, InAttemptKeeps, StackAttemptsKeep, FreshJournalsKeep DEF Attempts
  <2>2. CASE UNCHANGED vars
    <3>1. /\ plan' = plan /\ status' = status /\ journal' = journal /\ pc' = pc /\ mode' = mode /\ cur' = cur
          /\ attempt' = attempt /\ stack' = stack /\ Action' = Action
      BY <2>2 DEF vars, runVars, procVars, Action
    <3>2. Valid'
      BY <3>1 DEF Valid, JournalValid, Ordered
    <3>3. Attempts'
      BY <3>1 DEF Attempts, InAttempt, StackAttempts, FreshJournals, Appendable, Undoable
    <3> QED
      BY <3>2, <3>3
  <2> QED
    BY <2>1, <2>2
<1> QED
  BY <1>1, <1>2, Always, PTL DEF Spec

\* Unless an interrupt can land between the commit of a success and the return
\* of its action, no order of crashes and errors lets the program journal an
\* event that a recovery would refuse.
THEOREM JournalsAreAcceptable == ASSUME ~MaySplitCommit PROVE Spec => []JournalAcceptable
<1>1. Valid /\ Attempts => JournalAcceptable
  BY DEF Valid, JournalAcceptable, Open
<1> QED
  BY <1>1, JournalInductive, PTL

-----------------------------------------------------------------------------
(* What makes a run fail.                                                  *)

\* A call or a verification failed, or an installation was left to a human.
Excuse == faults > 0 \/ LeftToHuman

\* Where an action is executed.
Executing == {"prepare"} \cup Prepared \cup Failing \cup Undoing

\* The action waits for a human.
Manual(a) == Kind(a) \in {"human", "drift"}

\* A failure has its excuse from the first step that leads to it.
Excused == result = "failed" \/ pc \in Failing \/ status = "Failed" => Excuse

\* completeSkipped follows an action that waits for a human, or a failure.
Skipping == pc = "skip" => Excuse \/ \E h \in Action : h <= cur /\ Manual(h)

\* So does every file the journal says was skipped.
Skips ==
  status # "none" =>
    \A a \in Action : IsFile(a) /\ Last(a).state = "skipped" =>
      Excuse \/ \E h \in Action : h < a /\ Manual(h)

\* A skipped installation is not executed.
Installs ==
  pc \in Executing => \A a \in Action : a = cur /\ Kind(a) = "install" => Last(a).state # "skipped"

Blamed == Excused /\ Skipping /\ Skips /\ Installs

\* The states a step of an open run may add to the journal, and of which action.
LEMMA StateSteps ==
  ASSUME TypeOK, Control, Stack, Next, status # "none"
  PROVE  \A a \in Action :
           \/ Last(a)' = Last(a)
           \/ /\ a = cur
              /\ \/ pc = "hold" /\ Last(a)'.state = "skipped"
                 \/ pc = "running" /\ Last(a)'.state = "running"
                 \/ pc = "commit" /\ Last(a)'.state = "succeeded"
                 \/ pc \in {"fail", "interrupted-journal"} /\ Last(a)'.state = "failed"
                 \/ pc = "disown" /\ Last(a)'.state = "rolled-back"
                 \/ pc = "next" /\ Kind(a) = "install" /\ Last(a).state # "skipped"
           \/ a = cur + 1 /\ pc = "skip" /\ Last(a)'.state = "skipped"
           \/ pc = "unjournal" /\ stack # <<>> /\ a = Top.action /\ IsFile(a) /\ Last(a)'.state = "rolled-back"
<1> USE DEF runVars, diskVars, procVars, envVars, Open,
            Looping, Failing, Undoing, Unwinding, Ending, Working
<1>1. /\ plan' = plan /\ cur \in Action /\ cur \in Nat /\ Action = 1..Len(plan) /\ Len(plan) \in Nat \ {0}
      /\ attempt \in Nat /\ Reference \in BOOLEAN /\ Known(cur) \in Records
      /\ "none" \in Records /\ TRUE \in BOOLEAN /\ FALSE \in BOOLEAN /\ 1 \in Nat
      /\ {"skipped", "running", "succeeded", "failed", "rolled-back"} \subseteq States
  BY PlanFixed, PlanFacts, KnownType DEF TypeOK, RunType, ProcessType, Reference, Records, States
<1>2. CASE UNCHANGED journal
  BY <1>2, SameJournal
<1>3. CASE Start
  BY <1>3 DEF Start
<1>4. CASE Hold
  <2>1. CASE Journal(cur, Event("skipped", attempt, FALSE, "none"))
    <3>1. \A a \in Action : (a = cur => Last(a)'.state = "skipped") /\ (a # cur => Last(a)' = Last(a))
      BY <1>1, <2>1, WritesBare
    <3> QED
      BY <1>1, <1>4, <3>1 DEF Hold
  <2> QED
    BY <1>2, <1>4, <2>1 DEF Hold
<1>5. CASE JournalRunning
  <2>1. CASE Journal(cur, Event("running", attempt, Reference, "none"))
    <3>1. \A a \in Action : (a = cur => Last(a)'.state = "running") /\ (a # cur => Last(a)' = Last(a))
      BY <1>1, <2>1, Writes
    <3> QED
      BY <1>1, <1>5, <3>1 DEF JournalRunning
  <2> QED
    BY <1>2, <1>5, <2>1 DEF JournalRunning
<1>6. CASE Commit
  <2>1. CASE Journal(cur, Event("succeeded", attempt, Reference, IF IsFile(cur) THEN Known(cur) ELSE "none"))
    <3>1. \A a \in Action : (a = cur => Last(a)'.state = "succeeded") /\ (a # cur => Last(a)' = Last(a))
      BY <1>1, <2>1, Writes
    <3> QED
      BY <1>1, <1>6, <3>1 DEF Commit
  <2> QED
    BY <1>2, <1>6, <2>1 DEF Commit
<1>7. CASE Fail
  <2>1. CASE Journal(cur, Event("failed", attempt, Reference, "none"))
    <3>1. \A a \in Action : (a = cur => Last(a)'.state = "failed") /\ (a # cur => Last(a)' = Last(a))
      BY <1>1, <2>1, Writes
    <3> QED
      BY <1>1, <1>7, <3>1 DEF Fail
  <2> QED
    BY <1>2, <1>7, <2>1 DEF Fail
<1>8. CASE Disown
  <2>1. CASE Journal(cur, Event("rolled-back", attempt, FALSE, "none"))
    <3>1. \A a \in Action : (a = cur => Last(a)'.state = "rolled-back") /\ (a # cur => Last(a)' = Last(a))
      BY <1>1, <2>1, WritesBare
    <3> QED
      BY <1>1, <1>8, <3>1 DEF Disown
  <2> QED
    BY <1>2, <1>8, <2>1 DEF Disown
<1>9. CASE Unjournal
  <2>0. Top.action \in Action /\ Top.attempt \in Nat /\ IsFile(Top.action) /\ stack # <<>>
    BY <1>9, TopFacts DEF Unjournal, Stack, Control
  <2>1. CASE Journal(Top.action, Event("rolled-back", Top.attempt, TRUE, "none"))
    <3>1. \A a \in Action : (a = Top.action => Last(a)'.state = "rolled-back") /\ (a # Top.action => Last(a)' = Last(a))
      BY ZenonT(40), <1>1, <2>1, <2>0, WritesReference
    <3> QED
      BY <1>1, <1>9, <2>0, <3>1 DEF Unjournal
  <2> QED
    BY <1>2, <1>9, <2>1 DEF Unjournal
<1>10. CASE Skip
  <2>0. cur + 1 \in Action
    BY <1>1, <1>10 DEF Skip, Control
  <2>1. CASE Journal(cur + 1, Event("skipped", 1, FALSE, "none"))
    <3>1. \A a \in Action : (a = cur + 1 => Last(a)'.state = "skipped") /\ (a # cur + 1 => Last(a)' = Last(a))
      BY <1>1, <2>1, <2>0, WritesBare
    <3> QED
      BY <1>1, <1>10, <3>1 DEF Skip
  <2> QED
    BY <1>2, <1>10, <2>1 DEF Skip
<1>11. CASE TakeInstall
  <2>1. NextAttempt(cur) \in Nat
    BY <1>1, <1>11, LastType DEF TakeInstall, Taking, Control
  <2>2. ASSUME NEW s \in {"succeeded", "skipped"}, Journal(cur, Event(s, NextAttempt(cur), FALSE, "none"))
        PROVE  \A a \in Action : a # cur => Last(a)' = Last(a)
    <3>1. s \in States
      BY <1>1, <2>2
    <3> QED
      BY <1>1, <2>1, <2>2, <3>1, WritesBare
  <2>3. \A a \in Action : a # cur => Last(a)' = Last(a)
    BY <2>2, <1>11, SameJournal DEF TakeInstall
  <2> QED
    BY <1>11, <2>3 DEF TakeInstall, Taking
<1>12. CASE InterruptedJournal
  <2>1. CASE Journal(cur, Event("failed", attempt, Reference, "none"))
    <3>1. \A a \in Action : (a = cur => Last(a)'.state = "failed") /\ (a # cur => Last(a)' = Last(a))
      BY <1>1, <2>1, Writes
    <3> QED
      BY <1>1, <1>12, <3>1 DEF InterruptedJournal
  <2> QED
    BY <1>2, <1>12, <2>1 DEF InterruptedJournal
<1> QED
  BY <1>2, <1>3, <1>4, <1>5, <1>6, <1>7, <1>8, <1>9, <1>10, <1>11, <1>12
  DEF Next, ProcessStep, ExecutorStep, RecoveryStep, StopStep, AbandonStep, UserEdit,
      Take, RecordDrift, Prepare, Mutate, Verify, Return, Undo, Unwind, Unwound, Complete, Cleanup,
          TakeSkipped, KeepRemoved, KeepWritten, RedoRemoved, RedoWritten, RedoStarted,
          InterruptedUndo, Interrupted, Discard, Close, Recover, Abandon, Crash, Interrupt, Redo

\* Errors are counted, and nothing is journaled of an installation left to a
\* human: an excuse stays one.
LEMMA ExcuseStays == ASSUME IInv, Blamed, Next, status # "none", Excuse PROVE Excuse'
<1>1. TypeOK /\ Control /\ Stack /\ plan' = plan /\ Action' = Action /\ faults \in Nat
      /\ \A a \in Action : (IsFile(a) => Kind(a) # "install") /\ Kind(a)' = Kind(a)
  BY PlanFixed, SamePlan DEF IInv, TypeOK, CountType, IsFile
<1>2. faults' \in Nat /\ faults' >= faults
  <2>1. \A kind : Fault(kind) => faults' = faults + 1
    BY DEF Fault
  <2>2. envVars' = envVars => faults' = faults
    BY DEF envVars
  <2>3. (Start \/ Take \/ RecordDrift \/ Hold \/ Prepare \/ JournalRunning \/ Mutate \/ Verify \/ Commit) => faults' = faults \/ faults' = faults + 1
    BY <2>1, <2>2 DEF Start, Take, RecordDrift, Hold, Prepare, JournalRunning, Mutate, Verify,
        Commit, Redo
  <2>4. (Return \/ Undo \/ Fail \/ Disown \/ Unwind \/ Unjournal \/ Unwound \/ Skip \/ Complete) => faults' = faults \/ faults' = faults + 1
    BY <2>1, <2>2 DEF Return, Undo, Fail, Disown, Unwind, Unjournal, Unwound, Skip, Complete, Redo
  <2>5. (Cleanup \/ TakeSkipped \/ TakeInstall \/ KeepRemoved \/ KeepWritten \/ RedoRemoved \/ RedoWritten \/ RedoStarted \/ InterruptedUndo) => faults' = faults \/ faults' = faults + 1
    BY <2>1, <2>2 DEF Cleanup, TakeSkipped, TakeInstall, KeepRemoved, KeepWritten, RedoRemoved,
        RedoWritten, RedoStarted, InterruptedUndo, Redo
  <2>6. (InterruptedJournal \/ Interrupted \/ Discard \/ Close \/ Recover \/ Abandon \/ Crash \/ Interrupt) => faults' = faults \/ faults' = faults + 1
    BY <2>1, <2>2 DEF InterruptedJournal, Interrupted, Discard, Close, Recover, Abandon, Crash,
        Interrupt, Redo
  <2>7. (\E p \in Path : UserEdit(p)) => faults' = faults
    BY DEF UserEdit
  <2> QED
    BY <1>1, <2>3, <2>4, <2>5, <2>6, <2>7 DEF Next, ProcessStep, ExecutorStep, RecoveryStep,
        StopStep, AbandonStep
<1>3. CASE faults > 0
  BY <1>1, <1>2, <1>3 DEF Excuse
<1>4. CASE LeftToHuman
  <2>1. PICK a \in Action : Kind(a) = "install" /\ Last(a).state = "skipped"
    BY <1>4 DEF LeftToHuman
  <2>2. Last(a)'.state = "skipped"
    BY <1>1, <2>1, StateSteps DEF Blamed, Installs, Executing, Prepared, Failing, Undoing
  <2> QED
    BY <1>1, <2>1, <2>2 DEF Excuse, LeftToHuman
<1> QED
  BY <1>3, <1>4 DEF Excuse

\* The steps that lead to a failure, to completeSkipped and into an action.
LEMMA BlameMoves ==
  ASSUME IInv, Blamed, Next
  PROVE  /\ (result' = "failed" \/ pc' \in Failing \/ status' = "Failed") => (result = "failed" \/ pc \in Failing \/ status = "Failed" \/ Excuse')
         /\ pc' = "skip" => (Excuse' \/ (pc = "skip" /\ cur' = cur + 1) \/ (pc = "hold" /\ cur' = cur))
         /\ pc' \in Executing => (cur' = cur /\ (pc \in Executing \/ (Last(cur).state # "skipped" /\ journal' = journal)))
<1> USE DEF runVars, diskVars, procVars, envVars, Enter, Goto, Finish, Execute, AfterBreak, Action
<1>1. /\ plan' = plan /\ Action' = Action /\ cur \in Action /\ cur \in Nat /\ faults \in Nat
      /\ Control /\ Verified /\ Done /\ Blamed /\ Unreached
      /\ \A a \in Action : Kind(a) \in ActionKinds /\ (IsFile(a) <=> Kind(a) \in {"write", "remove"})
  BY PlanFixed, SamePlan DEF IInv, Progress, Journals, TypeOK, CountType, IsFile
<1>2. \A kind : Fault(kind) => Excuse'
  BY <1>1 DEF Fault, Excuse
<1>3. status # "none" => (Excuse => Excuse')
  BY ExcuseStays
<1>4. CASE Start
  BY <1>1, <1>2, <1>4 DEF Start, Control, Open, Executing, Prepared, Working, Looping, Failing,
      Undoing, Unwinding, Ending
<1>5. CASE Take
  BY <1>1, <1>2, <1>5 DEF Take, Entry, Unreached, Control, Open, Executing, Prepared, Working,
      Looping, Failing, Undoing, Unwinding, Ending
<1>6. CASE RecordDrift
  BY <1>1, <1>2, <1>6 DEF RecordDrift, Control, Open, Executing, Prepared, Working, Looping,
      Failing, Undoing, Unwinding, Ending
<1>7. CASE Hold
  BY <1>1, <1>2, <1>7 DEF Hold, Control, Open, Executing, Prepared, Working, Looping, Failing,
      Undoing, Unwinding, Ending
<1>8. CASE Prepare
  BY <1>1, <1>2, <1>8 DEF Prepare, Control, Open, Executing, Prepared, Working, Looping, Failing,
      Undoing, Unwinding, Ending
<1>9. CASE JournalRunning
  BY <1>1, <1>2, <1>9 DEF JournalRunning, Control, Open, Executing, Prepared, Working, Looping,
      Failing, Undoing, Unwinding, Ending
<1>10. CASE Mutate
  BY <1>1, <1>2, <1>10 DEF Mutate, Control, Open, Executing, Prepared, Working, Looping, Failing,
      Undoing, Unwinding, Ending
<1>11. CASE Verify
  BY <1>1, <1>2, <1>11 DEF Verify, Verified, Control, Open, Executing, Prepared, Working, Looping,
      Failing, Undoing, Unwinding, Ending
<1>12. CASE Commit
  BY <1>1, <1>2, <1>12 DEF Commit, Control, Open, Executing, Prepared, Working, Looping, Failing,
      Undoing, Unwinding, Ending
<1>13. CASE Return
  BY <1>1, <1>2, <1>13 DEF Return, Control, Open, Executing, Prepared, Working, Looping, Failing,
      Undoing, Unwinding, Ending
<1>14. CASE Undo
  BY <1>1, <1>2, <1>14 DEF Undo, Control, Open, Executing, Prepared, Working, Looping, Failing,
      Undoing, Unwinding, Ending
<1>15. CASE Fail
  BY <1>1, <1>2, <1>15 DEF Fail, Control, Open, Executing, Prepared, Working, Looping, Failing,
      Undoing, Unwinding, Ending
<1>16. CASE Disown
  BY <1>1, <1>2, <1>16 DEF Disown, Control, Open, Executing, Prepared, Working, Looping, Failing,
      Undoing, Unwinding, Ending
<1>17. CASE Unwind
  BY <1>1, <1>2, <1>17 DEF Unwind, Control, Open, Executing, Prepared, Working, Looping, Failing,
      Undoing, Unwinding, Ending
<1>18. CASE Unjournal
  BY <1>1, <1>2, <1>18 DEF Unjournal, Control, Open, Executing, Prepared, Working, Looping, Failing,
      Undoing, Unwinding, Ending
<1>19. CASE Unwound
  BY <1>1, <1>2, <1>3, <1>19 DEF Unwound, Blamed, Excused, Control, Open, Executing, Prepared,
      Working, Looping, Failing, Undoing, Unwinding, Ending
<1>20. CASE Skip
  BY <1>1, <1>2, <1>20 DEF Skip, Control, Open, Executing, Prepared, Working, Looping, Failing,
      Undoing, Unwinding, Ending
<1>21. CASE Complete
  BY <1>1, <1>2, <1>21 DEF Complete, Outcome, Executing, Prepared, Working, Looping, Failing,
      Undoing, Unwinding, Ending
<1>22. CASE Cleanup
  BY <1>1, <1>2, <1>22 DEF Cleanup, Control, Open, Executing, Prepared, Working, Looping, Failing,
      Undoing, Unwinding, Ending
<1>23. CASE TakeSkipped
  <2>1. pc = "next" /\ Last(cur).state = "skipped" /\ mode = "recover" /\ status # "none"
    BY <1>1, <1>23 DEF TakeSkipped, Taking, Control, Open, Working, Looping
  <2>2. CASE Kind(cur) \in {"human", "drift"}
    BY <1>1, <1>23, <2>1, <2>2 DEF TakeSkipped, runVars, Executing, Prepared, Working, Looping,
        Failing, Undoing, Unwinding, Ending
  <2>3. CASE Kind(cur) = "install"
    <3>1. Excuse
      BY <1>1, <2>1, <2>3 DEF Excuse, LeftToHuman
    <3> QED
      BY <1>1, <1>3, <1>23, <2>1, <3>1 DEF TakeSkipped, Executing, Prepared, Working, Looping,
          Failing, Undoing, Unwinding, Ending
  <2>4. CASE IsFile(cur)
    <3>1. Excuse
      BY <1>1, <2>1, <2>4 DEF Blamed, Skips, Manual, Done, Looping
    <3> QED
      BY <1>1, <1>3, <1>23, <2>1, <3>1 DEF TakeSkipped, Executing, Prepared, Working, Looping,
          Failing, Undoing, Unwinding, Ending
  <2> QED
    BY <1>1, <2>2, <2>3, <2>4 DEF ActionKinds
<1>24. CASE TakeInstall
  BY <1>1, <1>2, <1>24 DEF TakeInstall, Taking, Control, Open, Executing, Prepared, Working,
      Looping, Failing, Undoing, Unwinding, Ending
<1>25. CASE KeepRemoved
  BY <1>1, <1>2, <1>25 DEF KeepRemoved, Taking, Control, Open, Executing, Prepared, Working,
      Looping, Failing, Undoing, Unwinding, Ending
<1>26. CASE KeepWritten
  BY <1>1, <1>2, <1>26 DEF KeepWritten, Taking, Control, Open, Executing, Prepared, Working,
      Looping, Failing, Undoing, Unwinding, Ending
<1>27. CASE RedoRemoved
  BY <1>1, <1>2, <1>27 DEF RedoRemoved, Taking, Redo, Entry, Control, Open, Executing, Prepared,
      Working, Looping, Failing, Undoing, Unwinding, Ending
<1>28. CASE RedoWritten
  BY <1>1, <1>2, <1>28 DEF RedoWritten, Taking, Redo, Entry, Control, Open, Executing, Prepared,
      Working, Looping, Failing, Undoing, Unwinding, Ending
<1>29. CASE RedoStarted
  BY <1>1, <1>2, <1>29 DEF RedoStarted, Taking, Redo, Entry, Control, Open, Executing, Prepared,
      Working, Looping, Failing, Undoing, Unwinding, Ending
<1>30. CASE InterruptedUndo
  BY <1>1, <1>2, <1>30 DEF InterruptedUndo, Control, Open, Executing, Prepared, Working, Looping,
      Failing, Undoing, Unwinding, Ending
<1>31. CASE InterruptedJournal
  BY <1>1, <1>2, <1>31 DEF InterruptedJournal, Control, Open, Executing, Prepared, Working, Looping,
      Failing, Undoing, Unwinding, Ending
<1>32. CASE Interrupted
  BY <1>1, <1>2, <1>32 DEF Interrupted, Control, Open, Executing, Prepared, Working, Looping,
      Failing, Undoing, Unwinding, Ending
<1>33. CASE Discard
  BY <1>1, <1>2, <1>33 DEF Discard, Control, Open, Executing, Prepared, Working, Looping, Failing,
      Undoing, Unwinding, Ending
<1>34. CASE Close
  BY <1>1, <1>2, <1>34 DEF Close, Control, Open, Executing, Prepared, Working, Looping, Failing,
      Undoing, Unwinding, Ending
<1>35. CASE Recover
  BY <1>1, <1>2, <1>35 DEF Recover, Control, Open, Executing, Prepared, Working, Looping, Failing,
      Undoing, Unwinding, Ending
<1>36. CASE Abandon
  BY <1>1, <1>2, <1>36 DEF Abandon, Control, Open, Executing, Prepared, Working, Looping, Failing,
      Undoing, Unwinding, Ending
<1>37. CASE Crash
  BY <1>1, <1>2, <1>37 DEF Crash, Control, Open, Executing, Prepared, Working, Looping, Failing,
      Undoing, Unwinding, Ending
<1>38. CASE Interrupt
  BY <1>1, <1>2, <1>38 DEF Interrupt, InAction, Control, Open, Executing, Prepared, Working,
      Looping, Failing, Undoing, Unwinding, Ending
<1>39. ASSUME NEW p \in Path, UserEdit(p) 
  PROVE  /\ (result' = "failed" \/ pc' \in Failing \/ status' = "Failed") => (result = "failed" \/ pc \in Failing \/ status = "Failed" \/ Excuse')
         /\ pc' = "skip" => (Excuse' \/ (pc = "skip" /\ cur' = cur + 1) \/ (pc = "hold" /\ cur' = cur))
         /\ pc' \in Executing => (cur' = cur /\ (pc \in Executing \/ (Last(cur).state # "skipped" /\ journal' = journal)))
  BY <1>1, <1>2, <1>39 DEF UserEdit, Control, Open, Executing, Prepared, Working, Looping, Failing,
      Undoing, Unwinding, Ending
<1> QED
  BY <1>4, <1>5, <1>6, <1>7, <1>8, <1>9, <1>10, <1>11, <1>12, <1>13, <1>14, <1>15, <1>16, <1>17,
      <1>18, <1>19, <1>20, <1>21, <1>22, <1>23, <1>24, <1>25, <1>26, <1>27, <1>28, <1>29, <1>30,
      <1>31, <1>32, <1>33, <1>34, <1>35, <1>36, <1>37, <1>38, <1>39
  DEF Next, ProcessStep, ExecutorStep, RecoveryStep, StopStep, AbandonStep

\* A step that leads to a failure has an excuse.
LEMMA BlameKeeps == ASSUME IInv, Blamed, Next PROVE Blamed'
<1>1. /\ plan' = plan /\ Action' = Action /\ Action \subseteq Nat /\ cur \in Action /\ TypeOK /\ Control /\ Stack /\ Blamed
      /\ \A a \in Action : Kind(a)' = Kind(a) /\ IsFile(a)' = IsFile(a) /\ Manual(a)' = Manual(a)
      /\ \A a \in Action : ~(IsFile(a) /\ Manual(a)) /\ ~(IsFile(a) /\ Kind(a) = "install")
      /\ Fresh
  BY PlanFixed, SamePlan DEF IInv, Files, Manual, IsFile
<1>2. status # "none" => (Excuse => Excuse')
  BY ExcuseStays
<1>3. Excused'
  <2>1. CASE status = "none"
    <3>1. Start
      BY <1>1, <2>1, Begins DEF IInv, Files
    <3> QED
      BY <3>1 DEF Start, Enter, Excused, Failing
  <2> QED
    BY <1>2, <2>1, BlameMoves DEF Blamed, Excused
<1>4. Skipping'
  <2>1. pc = "hold" => Manual(cur) /\ status # "none"
    BY <1>1 DEF Control, Manual, Open, Working, Looping
  <2>2. pc = "skip" => status # "none" /\ cur \in Nat
    BY <1>1 DEF Control, Open, Working, Ending
  <2> QED
    BY <1>1, <1>2, <2>1, <2>2, BlameMoves DEF Blamed, Skipping
<1>5. Skips'
  <2>1. CASE status = "none"
    <3>1. Start
      BY <1>1, <2>1, Begins DEF IInv, Files
    <3>2. \A a \in Action : journal'[a] = <<Event("pending", 0, FALSE, "none")>>
      BY <1>1, <3>1 DEF Start
    <3>3. \A a \in Action : Last(a)'.state = "pending"
      BY <3>2 DEF Last, Event
    <3> QED
      BY <1>1, <3>3 DEF Skips
  <2>2. CASE status # "none"
    <3>1. ASSUME NEW a \in Action, IsFile(a), Last(a)'.state = "skipped", ~Excuse'
          PROVE  \E h \in Action : h < a /\ Manual(h)
      <4>1. Last(a)' = Last(a) \/ (a = cur + 1 /\ pc = "skip")
        BY <1>1, <2>2, <3>1, StateSteps DEF Control, Manual
      <4>2. CASE Last(a)' = Last(a)
        BY <1>1, <1>2, <2>2, <3>1, <4>2 DEF Blamed, Skips
      <4>3. CASE a = cur + 1 /\ pc = "skip"
        <5>1. \A h \in Action : h <= cur => h < a
          BY <1>1, <4>3
        <5> QED
          BY <1>1, <1>2, <2>2, <3>1, <4>3, <5>1 DEF Blamed, Skipping
      <4> QED
        BY <4>1, <4>2, <4>3
    <3> QED
      BY <1>1, <3>1 DEF Skips
  <2> QED
    BY <2>1, <2>2
<1>6. Installs'
  <2>1. ASSUME pc' \in Executing, NEW a \in Action, a = cur, Kind(a) = "install" PROVE Last(a)'.state # "skipped"
    <3>1. status # "none" /\ (pc \in Executing \/ (Last(cur).state # "skipped" /\ journal' = journal)) /\ ~Manual(cur)
      <4>1. status # "none"
        <5>1. CASE status = "none"
          <6>1. Start
            BY <1>1, <5>1, Begins DEF IInv, Files
          <6> QED
            BY <2>1, <6>1 DEF Start, Enter, Executing, Prepared, Failing, Undoing
        <5> QED
          BY <5>1
      <4> QED
        BY <1>1, <2>1, <4>1, BlameMoves DEF Manual
    <3>2. Last(a).state # "skipped"
      BY <2>1, <3>1 DEF Blamed, Installs
    <3> QED
      <4>1. CASE journal' = journal
        BY <2>1, <3>2, <4>1 DEF Last
      <4>2. CASE pc \in Executing
        BY <1>1, <2>1, <3>1, <3>2, <4>2, StateSteps DEF Executing, Prepared, Failing, Undoing
      <4> QED
        BY <3>1, <4>1, <4>2
  <2> QED
    BY <1>1, <2>1, BlameMoves DEF Installs
<1> QED
  BY <1>3, <1>4, <1>5, <1>6 DEF Blamed

\* A run fails only when a call or a verification failed, or when its recovery
\* was itself stopped after leaving an installation to a human: a resource that
\* waits for a human does not roll back the others.
THEOREM FailuresNeedAnError == Spec => []FailureNeedsAnError
<1>1. Init => Blamed
  BY DEF Init, Blamed, Excused, Skipping, Skips, Installs, Executing, Prepared, Failing, Undoing
<1>2. IInv /\ Blamed /\ [Next]_vars => Blamed'
  <2>1. ASSUME IInv, Blamed, UNCHANGED vars PROVE Blamed'
    <3>1. /\ plan' = plan /\ status' = status /\ journal' = journal /\ pc' = pc /\ result' = result /\ cur' = cur
          /\ faults' = faults
      BY <2>1 DEF vars, runVars, procVars, envVars
    <3> QED
      BY <2>1, <3>1 DEF Blamed, Excused, Skipping, Skips, Installs, Excuse, LeftToHuman, Manual,
          IsFile, Kind, Last, Action
  <2> QED
    BY <2>1, BlameKeeps
<1>3. Blamed => FailureNeedsAnError
  BY DEF Blamed, Excused, Excuse, FailureNeedsAnError
<1> QED
  BY <1>1, <1>2, <1>3, Always, PTL DEF Spec

-----------------------------------------------------------------------------
(* The ownership records.                                                  *)

\* How often the run was stopped from outside.
Stops == crashes + interrupts

\* Where the loop has failed nothing.
Settling == pc \in Looping \/ (pc = "complete" /\ result = "verified")

\* Where an action is executed or taken back.
Executed == (Looping \ {"next", "drift", "hold", "return"}) \cup Failing \cup Undoing

\* Nothing behind an action that waits for a human is reached.
Behind(a) == \E h \in Action : h < a /\ Manual(h)

\* A record is the applied one only after a journaled success.
Succeeded ==
  status # "none" =>
    \A a \in Action : IsFile(a) /\ Last(a).state = "succeeded" => record[a] = Applied(a)

\* The loop leaves behind only files whose success is journaled.
Settled ==
  /\ Settling => \A a \in Action : IsFile(a) /\ (a < cur \/ pc = "complete") => Last(a).state = "succeeded"
  /\ pc = "return" => \A a \in Action : a = cur /\ IsFile(a) => Last(a).state = "succeeded"

\* Between a removal and the write that takes its path over, the path is empty.
Between ==
  pc \in Looping =>
    \A a, b \in Action : a < cur /\ cur <= b /\ a < b /\ Target(a) = Target(b) =>
      file[Target(a)] = "absent" \/ HasReference(b)

\* Neither a file nor a record behind an action that waits for a human changes.
Unreachable ==
  /\ pc \in Executed \/ ready => ~Behind(cur)
  /\ \A i \in DOMAIN stack : ~Behind(stack[i].action)
  /\ \A a \in Action : IsFile(a) /\ Behind(a) => ~HasReference(a) /\ record[a] = Prior(a)

\* A run that waits for a human leaves each file before its action or after it.
Held ==
  (pc \in Ending /\ result \in {"human", "drift"}) \/ status \in {"HumanActionRequired", "FollowerDrift"} =>
    \A a \in Action : IsFile(a) => ViewOf(a) \in {"before", "after"}

\* What holds of the loop and its outcomes, whichever process is in it.
Outcomes == Succeeded /\ Settled /\ Between /\ Unreachable /\ Held

\* The journal keeps no other record of an action than the one before the run.
WasPrior(a) == \A i \in DOMAIN journal[a] : journal[a][i].was \in {"none", Prior(a)}

\* The journal and the record of an action agree.
Agrees(a) ==
  /\ WasPrior(a)
  /\ IF Last(a).state = "succeeded" THEN record[a] = Applied(a) /\ Last(a).was = Prior(a) ELSE record[a] = Prior(a)

\* Before the run each file has the record it had.
Unrecorded == status = "none" => \A a \in Action : record[a] = Prior(a)

\* A run is left open, or recovered, only after it was stopped.
Stopped ==
  /\ Open /\ (pc = "idle" \/ mode \in {"recover", "abandon"}) => Stops > 0
  /\ pc \in Undoing \cup {"interrupted"} => Stops > 0 /\ (mode = "recover" => Stops > 1)
  /\ Stops = 0 /\ pc = "cleanup" => mode = "run"

\* The journal and the record of a file agree; during a first recovery, of those still ahead.
Ahead ==
  Stops <= 1 /\ Open =>
    \A a \in Action : IsFile(a) /\ (mode = "recover" => a > cur \/ (a = cur /\ pc = "next") ) => Agrees(a)

\* The process that executes a file knows the record from before the run, or has none to know.
InHand ==
  Stops <= 1 /\ pc \in Executed =>
    \A a \in Action : a = cur /\ IsFile(a) =>
      /\ WasPrior(a)
      /\ owner = Prior(a) \/ (owner = "unknown" /\ record[a] = Prior(a))
      /\ mode = "run" => owner = "unknown"

\* So does the process that completed it.
Returned ==
  Stops <= 1 /\ pc = "return" => \A a \in Action : a = cur /\ IsFile(a) => owner = Prior(a)

\* So does the stack.
Previous == Stops <= 1 => \A i \in DOMAIN stack : \A a \in Action : a = stack[i].action => stack[i].prev = Prior(a)

\* A failed run has handed back the record of each file it reached, or still has it stacked.
Handed ==
  Stops <= 1 /\ pc \in Unwinding \cup Ending /\ result = "failed" /\ failedRollbacks = {} =>
    \A a \in Action : IsFile(a) /\ (mode = "run" \/ a <= cur) => record[a] = Prior(a) \/ Stacked(a)

\* A run that failed completely and was never stopped leaves each record as before.
Ended == status = "Failed" /\ ~incomplete /\ Stops = 0 => \A a \in Action : IsFile(a) => record[a] = Prior(a)

\* What holds of the records until a second stop.
Ownership == Unrecorded /\ Stopped /\ Ahead /\ InHand /\ Returned /\ Previous /\ Handed /\ Ended /\ FailureRestoresRecords

\* The records a step of an open run may change, and what it journals with them.
LEMMA RecordSteps ==
  ASSUME TypeOK, Control, Stack, Next, status # "none"
  PROVE  \A a \in Action : IsFile(a) =>
           \/ record'[a] = record[a] /\ (pc \in {"commit", "unjournal"} => Last(a)' = Last(a))
           \/ /\ pc = "commit" /\ a = cur /\ record'[a] = Applied(a)
              /\ Last(a)' = Event("succeeded", attempt, Reference, Known(a))
           \/ pc = "disown" /\ a = cur /\ record'[a] = owner /\ Last(a)'.state = "rolled-back"
           \/ pc = "unjournal" /\ stack # <<>> /\ a = Top.action /\ record'[a] = Top.prev /\ Last(a)'.state = "rolled-back"
           \/ pc = "complete" /\ Outcome = "Converged" /\ record'[a] = Applied(a) /\ status' = "Converged" /\ journal' = journal
<1>1. /\ plan' = plan /\ Action' = Action /\ cur \in Action /\ attempt \in Nat /\ Reference \in BOOLEAN /\ record \in [Action -> Records]
      /\ Known(cur) \in Records /\ "none" \in Records /\ 1 \in Nat /\ {"succeeded", "rolled-back"} \subseteq States
  BY PlanFixed, SamePlan, KnownType DEF TypeOK, ProcessType, JournalType, Reference, Records, States
<1>2. CASE record' = record /\ (pc \in {"commit", "unjournal"} => UNCHANGED journal)
  BY <1>2 DEF Last
<1>3. CASE Start
  BY <1>3 DEF Start
<1>4. CASE Commit
  <2>1. CASE /\ Journal(cur, Event("succeeded", attempt, Reference, IF IsFile(cur) THEN Known(cur) ELSE "none"))
             /\ record' = IF IsFile(cur) THEN [record EXCEPT ![cur] = Applied(cur)] ELSE record
    <3>1. IsFile(cur) => \A a \in Action : a = cur => Last(a)' = Event("succeeded", attempt, Reference, Known(cur))
      BY <1>1, <2>1, Writes
    <3>2. IsFile(cur) => \A a \in Action : record'[a] = IF a = cur THEN Applied(cur) ELSE record[a]
      BY <1>1, <2>1
    <3>3. ~IsFile(cur) => record' = record
      BY <2>1
    <3>4. \A a \in Action : a # cur => Last(a)' = Last(a)
      BY <1>1, <2>1 DEF Journal, Last, TypeOK, JournalType
    <3> QED
      BY <1>1, <1>4, <2>1, <3>1, <3>2, <3>3, <3>4 DEF Commit
  <2> QED
    BY <1>2, <1>4, <2>1 DEF Commit
<1>5. CASE Disown
  <2>1. \A a \in Action : a = cur => Last(a)'.state = "rolled-back"
    BY <1>1, <1>5, WritesBare DEF Disown
  <2>2. \A a \in Action : record'[a] = IF a = cur THEN owner ELSE record[a]
    BY <1>1, <1>5 DEF Disown
  <2> QED
    BY <1>1, <1>5, <2>1, <2>2 DEF Disown
<1>6. CASE Unjournal
  <2>1. Top.action \in Action /\ Top.attempt \in Nat /\ stack # <<>>
    BY <1>6, TopFacts DEF Unjournal, Stack
  <2>2. CASE Journal(Top.action, Event("rolled-back", Top.attempt, TRUE, "none")) /\ record' = [record EXCEPT ![Top.action] = Top.prev]
    <3>1. \A a \in Action : a = Top.action => Last(a)'.state = "rolled-back"
      BY ZenonT(40), <1>1, <2>1, <2>2, WritesReference
    <3>2. \A a \in Action : record'[a] = IF a = Top.action THEN Top.prev ELSE record[a]
      BY <1>1, <2>1, <2>2
    <3>3. \A a \in Action : a # Top.action => Last(a)' = Last(a)
      BY <1>1, <2>1, <2>2 DEF Journal, Last, TypeOK, JournalType
    <3> QED
      BY <1>1, <1>6, <2>1, <3>1, <3>2, <3>3 DEF Unjournal
  <2> QED
    BY <1>2, <1>6, <2>2 DEF Unjournal
<1>7. CASE Complete
  BY <1>1, <1>7 DEF Complete, FinalRecords
<1> QED
  BY <1>2, <1>3, <1>4, <1>5, <1>6, <1>7
  DEF Next, ProcessStep, ExecutorStep, RecoveryStep, StopStep, AbandonStep, UserEdit, Taking, Hold,
      JournalRunning, Fail, Skip, TakeInstall, InterruptedJournal,
      Take, RecordDrift, Prepare, Mutate, Verify, Return, Undo, Unwind, Unwound, Cleanup,
          TakeSkipped, KeepRemoved, KeepWritten, RedoRemoved, RedoWritten, RedoStarted,
          InterruptedUndo, Interrupted, Discard, Close, Recover, Abandon, Crash, Interrupt, Redo

\* Where the journal agrees with the record before the run, input.appliedResources
\* shows just that.
LEMMA KnownPrior ==
  ASSUME TypeOK, NEW a \in Action, WasPrior(a), record[a] = Prior(a) PROVE Known(a) = Prior(a)
<1> DEFINE j == journal[a]
           kept == {i \in DOMAIN j : j[i].was # "none"}
<1>1. j \in Seq(Events)
  BY DEF TypeOK, JournalType
<1>2. Len(j) \in Nat /\ kept \subseteq 1..Len(j) /\ DOMAIN j = 1..Len(j)
  BY <1>1, Elements
<1>3. CASE kept = {}
  BY <1>3 DEF Known
<1>4. CASE kept # {}
  <2>1. \E m \in kept : \A k \in kept : k <= m
    BY <1>2, <1>4, Greatest
  <2>2. (CHOOSE i \in kept : \A k \in kept : k <= i) \in kept
    BY <2>1
  <2>3. \A i \in kept : j[i].was = Prior(a)
    BY DEF WasPrior
  <2> QED
    BY <1>4, <2>2, <2>3 DEF Known
<1> QED
  BY <1>3, <1>4

\* An event that keeps no record, or the one before the run.
LEMMA WasAppended ==
  ASSUME TypeOK, plan' = plan, NEW b \in Action, NEW e, Journal(b, e)
  PROVE  \A a \in Action : WasPrior(a) /\ (a = b => e.was \in {"none", Prior(a)}) => WasPrior(a)'
<1>1. journal \in [Action -> Seq(Events)] /\ \A a \in Action : Prior(a)' = Prior(a)
  BY DEF TypeOK, JournalType, Prior
<1>2. \A a \in Action : journal[a] \in Seq(Events)
  BY <1>1
<1>3. \A a \in Action : journal'[a] = IF a = b THEN Append(journal[a], e) ELSE journal[a]
  BY <1>1 DEF Journal
<1>4. journal[b] \in Seq(Events)
  BY <1>2
<1>5. \A i \in DOMAIN Append(journal[b], e) : Append(journal[b], e)[i] = e \/ (i \in DOMAIN journal[b] /\ Append(journal[b], e)[i] = journal[b][i])
  BY <1>4
<1>6. \A a \in Action : a # b => WasPrior(a)' = WasPrior(a)
  BY <1>1, <1>3 DEF WasPrior
<1>7. WasPrior(b) /\ e.was \in {"none", Prior(b)} => WasPrior(b)'
  BY <1>1, <1>3, <1>5 DEF WasPrior
<1> QED
  BY <1>6, <1>7

\* Only a success keeps a record in the journal.
LEMMA WasSteps ==
  ASSUME TypeOK, Control, Stack, Next, status # "none"
  PROVE  \A a \in Action :
           WasPrior(a) /\ (pc = "commit" /\ a = cur => Known(a) \in {"none", Prior(a)}) => WasPrior(a)'
<1>1. /\ plan' = plan /\ Action' = Action /\ cur \in Action
      /\ \A a \in Action : Prior(a)' = Prior(a)
      /\ \A s, n, r, w : Event(s, n, r, w).was = w
  BY PlanFixed, SamePlan DEF Prior, Event
<1>2. CASE UNCHANGED journal
  BY <1>1, <1>2 DEF WasPrior
<1>3. ASSUME NEW b \in Action, NEW s, NEW n, NEW r, Journal(b, Event(s, n, r, "none"))
      PROVE  \A a \in Action : WasPrior(a) => WasPrior(a)'
  BY <1>1, <1>3, WasAppended
<1>4. CASE Start
  BY <1>4 DEF Start
<1>5. CASE Hold \/ JournalRunning \/ Fail \/ Disown \/ TakeInstall \/ InterruptedJournal
  BY <1>1, <1>2, <1>3, <1>5 DEF Hold, JournalRunning, Fail, Disown, TakeInstall, InterruptedJournal
<1>6. CASE Commit
  <2>1. CASE Journal(cur, Event("succeeded", attempt, Reference, IF IsFile(cur) THEN Known(cur) ELSE "none"))
    BY <1>1, <1>6, <2>1, WasAppended DEF Commit
  <2> QED
    BY <1>2, <1>6, <2>1 DEF Commit
<1>7. CASE Unjournal
  <2>1. Top.action \in Action
    BY <1>7, TopFacts DEF Unjournal, Stack
  <2> QED
    BY <1>2, <1>3, <1>7, <2>1 DEF Unjournal
<1>8. CASE Skip
  <2>1. cur + 1 \in Action
    BY <1>1, <1>8, SamePlan DEF Skip, Control
  <2> QED
    BY <1>2, <1>3, <1>8, <2>1 DEF Skip
<1> QED
  BY <1>2, <1>4, <1>5, <1>6, <1>7, <1>8
  DEF Next, ProcessStep, ExecutorStep, RecoveryStep, StopStep, AbandonStep, UserEdit, runVars,
      diskVars, procVars,
      Take, RecordDrift, Prepare, Mutate, Verify, Return, Undo, Unwind, Unwound, Complete, Cleanup,
          TakeSkipped, KeepRemoved, KeepWritten, RedoRemoved, RedoWritten, RedoStarted,
          InterruptedUndo, Interrupted, Discard, Close, Recover, Abandon, Crash, Interrupt, Redo

\* The plans install nothing.
NoInstalls == \A p \in Plans : \A a \in DOMAIN p : p[a].kind # "install"

\* In the loop only the target of the action in hand changes, after its snapshot
\* was journaled.
LEMMA FileSteps ==
  ASSUME IInv, Next, pc \in Looping
  PROVE  \A p \in Path : file'[p] = file[p] \/ (p = Target(cur) /\ IsFile(cur) /\ HasReference(cur))
<1>1. /\ cur \in Action /\ Target(cur) \in Path /\ file \in [Path -> Contents] /\ Passed
      /\ HasReference(cur) => IsFile(cur)
  <2>1. status # "none"
    BY DEF IInv, Control, Open, Working
  <2> QED
    BY <2>1, PlanFixed, SamePlan DEF IInv, TypeOK, DiskType, Journals, Referenced
<1>2. CASE file' = file
  BY <1>2
<1>3. CASE Mutate
  BY <1>1, <1>3 DEF Mutate, Apply, Passed, diskVars
<1>4. ASSUME NEW own, Redo(own) PROVE \A p \in Path : file'[p] = file[p] \/ (p = Target(cur) /\ IsFile(cur) /\ HasReference(cur))
  BY <1>1, <1>4 DEF Redo, Restore
<1> QED
  BY <1>2, <1>3, <1>4
  DEF Next, ProcessStep, ExecutorStep, RecoveryStep, StopStep, AbandonStep, UserEdit, Looping, diskVars,
      Start, Take, RecordDrift, Hold, Prepare, JournalRunning, Verify, Commit, Return, Undo, Fail,
          Disown, Unwind, Unjournal,
      Unwound, Skip, Complete, Cleanup, TakeSkipped, TakeInstall, KeepRemoved, KeepWritten,
          RedoRemoved, RedoWritten,
      RedoStarted, InterruptedUndo, InterruptedJournal, Interrupted, Discard, Close, Recover,
          Abandon, Crash, Interrupt

\* How the loop goes on: within an action, from a completed one to the next, or afresh.
LEMMA SettlingMoves ==
  ASSUME NoInstalls, ~MaySplitCommit, IInv, Outcomes, Next
  PROVE  /\ pc' = "return" => /\ pc = "commit" /\ cur' = cur
                            /\ \A a \in Action : a = cur /\ IsFile(a) => Last(a)'.state = "succeeded"
         /\ Settling' =>
              \/ pc \in Looping /\ cur' = cur /\ pc' \in Looping
              \/ /\ pc = "return" \/ (/\ pc = "next" /\ IsFile(cur) /\ Last(cur).state = "succeeded"
                                      /\ Kind(cur) = "write" \/ SuccessorWrites(cur))
                 /\ UNCHANGED <<journal, record, file>>
                 /\ IF cur < Len(plan) THEN cur' = cur + 1 /\ pc' = "next" ELSE cur' = cur /\ pc' = "complete"
              \/ cur' = 1 /\ pc' = "next"
<1> USE DEF runVars, diskVars, procVars, envVars, Enter, Goto, Fault, Finish, Execute, AfterBreak, Action
<1>1. /\ plan' = plan /\ cur \in Action /\ cur \in Nat /\ Action = 1..Len(plan) /\ Len(plan) \in Nat
      /\ TypeOK /\ Control /\ Stack /\ Settled /\ Unreachable /\ Done
      /\ \A a \in Action : Kind(a) \in ActionKinds /\ (IsFile(a) <=> Kind(a) \in {"write", "remove"}) /\ Kind(a) # "install"
  BY PlanFixed, SamePlan DEF IInv, Progress, Outcomes, IsFile, NoInstalls, TypeOK, RunType, Kind, Action
<1>2. CASE Start
  BY <1>1, <1>2 DEF Start, Settling, Working, Looping, Failing, Undoing, Unwinding, Ending
<1>3. CASE Take
  BY <1>1, <1>3 DEF Take, Entry, Settling, Working, Looping, Failing, Undoing, Unwinding, Ending
<1>4. CASE RecordDrift
  BY <1>1, <1>4 DEF RecordDrift, Settling, Working, Looping, Failing, Undoing, Unwinding, Ending
<1>5. CASE Hold
  BY <1>1, <1>5 DEF Hold, Control, Settling, Working, Looping, Failing, Undoing, Unwinding, Ending
<1>6. CASE Prepare
  BY <1>1, <1>6 DEF Prepare, Settling, Working, Looping, Failing, Undoing, Unwinding, Ending
<1>7. CASE JournalRunning
  BY <1>1, <1>7 DEF JournalRunning, Settling, Working, Looping, Failing, Undoing, Unwinding, Ending
<1>8. CASE Mutate
  BY <1>1, <1>8 DEF Mutate, Settling, Working, Looping, Failing, Undoing, Unwinding, Ending
<1>9. CASE Verify
  BY <1>1, <1>9 DEF Verify, Settling, Working, Looping, Failing, Undoing, Unwinding, Ending
<1>10. CASE Commit
  <2>1. CASE Journal(cur, Event("succeeded", attempt, Reference, IF IsFile(cur) THEN Known(cur) ELSE "none"))
    <3>1. /\ attempt \in Nat /\ Reference \in BOOLEAN /\ "none" \in Records /\ "succeeded" \in States
          /\ (IF IsFile(cur) THEN Known(cur) ELSE "none") \in Records /\ status # "none"
      BY <1>1, <1>10, KnownType DEF Commit, Control, Open, Working, Looping, TypeOK, ProcessType,
          Reference, Records, States
    <3>2. \A a \in Action : a = cur => Last(a)'.state = "succeeded"
      BY <1>1, <2>1, <3>1, Writes
    <3> QED
      BY <1>1, <1>10, <3>2 DEF Commit, Settling, Looping
  <2> QED
    BY <1>1, <1>10, <2>1 DEF Commit, Settling, Looping
<1>11. CASE Return
  BY <1>1, <1>11 DEF Return, Settling, Working, Looping, Failing, Undoing, Unwinding, Ending
<1>12. CASE Undo
  BY <1>1, <1>12 DEF Undo, Settling, Working, Looping, Failing, Undoing, Unwinding, Ending
<1>13. CASE Fail
  BY <1>1, <1>13 DEF Fail, Settling, Working, Looping, Failing, Undoing, Unwinding, Ending
<1>14. CASE Disown
  BY <1>1, <1>14 DEF Disown, Settling, Working, Looping, Failing, Undoing, Unwinding, Ending
<1>15. CASE Unwind
  BY <1>1, <1>15 DEF Unwind, Settling, Working, Looping, Failing, Undoing, Unwinding, Ending
<1>16. CASE Unjournal
  BY <1>1, <1>16 DEF Unjournal, Settling, Working, Looping, Failing, Undoing, Unwinding, Ending
<1>17. CASE Unwound
  BY <1>1, <1>17 DEF Unwound, Control, Settling, Working, Looping, Failing, Undoing, Unwinding, Ending
<1>18. CASE Skip
  BY <1>1, <1>18 DEF Skip, Control, Settling, Working, Looping, Failing, Undoing, Unwinding, Ending
<1>19. CASE Complete
  BY <1>1, <1>19 DEF Complete, Settling, Working, Looping, Failing, Undoing, Unwinding, Ending
<1>20. CASE Cleanup
  BY <1>1, <1>20 DEF Cleanup, Settling, Working, Looping, Failing, Undoing, Unwinding, Ending
<1>21. CASE TakeSkipped
  BY <1>1, <1>21 DEF TakeSkipped, Taking, Settling, Working, Looping, Failing, Undoing, Unwinding,
      Ending
<1>22. CASE TakeInstall
  BY <1>1, <1>22 DEF TakeInstall, Taking, Settling, Working, Looping, Failing, Undoing, Unwinding,
      Ending
<1>23. CASE KeepRemoved
  BY <1>1, <1>23 DEF KeepRemoved, Taking, Settling, Working, Looping, Failing, Undoing, Unwinding,
      Ending
<1>24. CASE KeepWritten
  BY <1>1, <1>24 DEF KeepWritten, Taking, Settling, Working, Looping, Failing, Undoing, Unwinding,
      Ending
<1>25. CASE RedoRemoved
  BY <1>1, <1>25 DEF RedoRemoved, Taking, Redo, Entry, Settling, Working, Looping, Failing, Undoing,
      Unwinding, Ending
<1>26. CASE RedoWritten
  BY <1>1, <1>26 DEF RedoWritten, Taking, Redo, Entry, Settling, Working, Looping, Failing, Undoing,
      Unwinding, Ending
<1>27. CASE RedoStarted
  BY <1>1, <1>27 DEF RedoStarted, Taking, Redo, Entry, Settling, Working, Looping, Failing, Undoing,
      Unwinding, Ending
<1>28. CASE InterruptedUndo
  BY <1>1, <1>28 DEF InterruptedUndo, Settling, Working, Looping, Failing, Undoing, Unwinding, Ending
<1>29. CASE InterruptedJournal
  BY <1>1, <1>29 DEF InterruptedJournal, Settling, Working, Looping, Failing, Undoing, Unwinding, Ending
<1>30. CASE Interrupted
  BY <1>1, <1>30 DEF Interrupted, Settling, Working, Looping, Failing, Undoing, Unwinding, Ending
<1>31. CASE Discard
  BY <1>1, <1>31 DEF Discard, Settling, Working, Looping, Failing, Undoing, Unwinding, Ending
<1>32. CASE Close
  BY <1>1, <1>32 DEF Close, Settling, Working, Looping, Failing, Undoing, Unwinding, Ending
<1>33. CASE Recover
  BY <1>1, <1>33 DEF Recover, Settling, Working, Looping, Failing, Undoing, Unwinding, Ending
<1>34. CASE Abandon
  BY <1>1, <1>34 DEF Abandon, Settling, Working, Looping, Failing, Undoing, Unwinding, Ending
<1>35. CASE Crash
  BY <1>1, <1>35 DEF Crash, Settling, Working, Looping, Failing, Undoing, Unwinding, Ending
<1>36. CASE Interrupt
  BY <1>1, <1>36 DEF Interrupt, InAction, Settling, Working, Looping, Failing, Undoing, Unwinding,
      Ending
<1>37. ASSUME NEW p \in Path, UserEdit(p) 
      PROVE
         /\ pc' = "return" => /\ pc = "commit" /\ cur' = cur
                            /\ \A a \in Action : a = cur /\ IsFile(a) => Last(a)'.state = "succeeded"
         /\ Settling' =>
              \/ pc \in Looping /\ cur' = cur /\ pc' \in Looping
              \/ /\ pc = "return" \/ (/\ pc = "next" /\ IsFile(cur) /\ Last(cur).state = "succeeded"
                                      /\ Kind(cur) = "write" \/ SuccessorWrites(cur))
                 /\ UNCHANGED <<journal, record, file>>
                 /\ IF cur < Len(plan) THEN cur' = cur + 1 /\ pc' = "next" ELSE cur' = cur /\ pc' = "complete"
              \/ cur' = 1 /\ pc' = "next"
  BY <1>1, <1>37 DEF UserEdit, Settling, Working, Looping, Failing, Undoing, Unwinding, Ending
<1> QED
  BY <1>2, <1>3, <1>4, <1>5, <1>6, <1>7, <1>8, <1>9, <1>10, <1>11, <1>12, <1>13, <1>14, <1>15,
      <1>16, <1>17, <1>18, <1>19, <1>20, <1>21, <1>22, <1>23, <1>24, <1>25, <1>26, <1>27, <1>28,
      <1>29, <1>30, <1>31, <1>32, <1>33, <1>34, <1>35, <1>36, <1>37
  DEF Next, ProcessStep, ExecutorStep, RecoveryStep, StopStep, AbandonStep

\* A record follows the journaled success in the same commit.
LEMMA SucceededKeeps == ASSUME NoInstalls, ~MaySplitCommit, IInv, Outcomes, Next PROVE Succeeded'
<1>1. /\ plan' = plan /\ Action' = Action /\ TypeOK /\ Control /\ Stack /\ Succeeded
      /\ \A a \in Action : IsFile(a)' = IsFile(a) /\ Applied(a)' = Applied(a) /\ (IsFile(a) => Kind(a) \notin {"install", "human", "drift"})
  BY PlanFixed, SamePlan DEF IInv, Outcomes, IsFile, Applied
<1>2. CASE status = "none"
  <2>1. Start
    BY <1>1, <1>2, Begins DEF IInv, Files
  <2>2. \A a \in Action : journal'[a] = <<Event("pending", 0, FALSE, "none")>>
    BY <1>1, <2>1 DEF Start
  <2>3. \A a \in Action : Last(a)'.state = "pending"
    BY <2>2 DEF Last, Event
  <2> QED
    BY <1>1, <2>3 DEF Succeeded
<1>3. CASE status # "none"
  <2>1. ASSUME NEW a \in Action, IsFile(a), Last(a)'.state = "succeeded" PROVE record'[a] = Applied(a)
    <3>1. CASE record'[a] = Applied(a)
      BY <3>1
    <3>2. CASE record'[a] = record[a] /\ record'[a] # Applied(a)
      <4>1. Last(a)' = Last(a) \/ (pc = "commit" /\ a = cur)
        BY <1>1, <1>3, <2>1, StateSteps DEF Control, Looping
      <4>2. CASE Last(a)' = Last(a)
        BY <1>1, <1>3, <2>1, <3>2, <4>2 DEF Succeeded
      <4>3. CASE pc = "commit" /\ a = cur /\ Last(a)' # Last(a)
        <5>1. Commit \/ UNCHANGED journal
          BY <4>3 DEF Next, ProcessStep, ExecutorStep, RecoveryStep, StopStep, AbandonStep, Taking,
              UserEdit, runVars,
             Start, Take, RecordDrift, Hold, Prepare, JournalRunning, Mutate, Verify, Return, Undo,
                 Fail, Disown, Unwind, Unjournal,
             Unwound, Skip, Complete, Cleanup, TakeSkipped, TakeInstall, KeepRemoved, KeepWritten,
                 RedoRemoved, RedoWritten,
             RedoStarted, InterruptedUndo, InterruptedJournal, Interrupted, Discard, Close, Recover,
                 Abandon, Crash, Interrupt
        <5>2. UNCHANGED journal => Last(a)' = Last(a)
          BY DEF Last
        <5>3. Commit /\ ~UNCHANGED journal => record' = [record EXCEPT ![cur] = Applied(cur)]
          BY <2>1, <4>3 DEF Commit
        <5> QED
          BY <1>1, <2>1, <3>2, <4>3, <5>1, <5>2, <5>3 DEF TypeOK, JournalType
      <4> QED
        BY <4>1, <4>2, <4>3
    <3> QED
      BY <1>1, <1>3, <2>1, <3>1, <3>2, RecordSteps DEF Event
  <2> QED
    BY <1>1, <2>1 DEF Succeeded
<1> QED
  BY <1>2, <1>3

\* The loop goes on past a file only after its success is journaled.
LEMMA SettledKeeps == ASSUME NoInstalls, ~MaySplitCommit, IInv, Outcomes, Next PROVE Settled'
<1>1. /\ plan' = plan /\ Action' = Action /\ Action = 1..Len(plan) /\ Len(plan) \in Nat /\ cur \in Action
      /\ TypeOK /\ Control /\ Stack /\ Settled
      /\ \A a \in Action : IsFile(a)' = IsFile(a)
  BY PlanFixed, SamePlan DEF IInv, Outcomes
<1>2. pc' = "return" => \A a \in Action : a = cur' /\ IsFile(a) => Last(a)'.state = "succeeded"
  BY <1>1, SettlingMoves
<1>3. ASSUME Settling', NEW a \in Action, IsFile(a), a < cur' \/ pc' = "complete" PROVE Last(a)'.state = "succeeded"
  <2>1. CASE pc \in Looping /\ cur' = cur /\ pc' \in Looping
    <3>1. a < cur /\ Last(a).state = "succeeded" /\ status # "none"
      BY <1>1, <1>3, <2>1 DEF Settled, Settling, Looping, Control, Open, Working
    <3> QED
      BY <1>1, <2>1, <3>1, StateSteps DEF Looping
  <2>2. CASE /\ pc = "return" \/ (pc = "next" /\ IsFile(cur) /\ Last(cur).state = "succeeded")
             /\ UNCHANGED journal
             /\ IF cur < Len(plan) THEN cur' = cur + 1 /\ pc' = "next" ELSE cur' = cur /\ pc' = "complete"
    <3>1. a < cur \/ a = cur
      BY <1>1, <1>3, <2>2
    <3>2. Last(a)' = Last(a)
      BY <2>2 DEF Last
    <3> QED
      BY <1>1, <1>3, <2>2, <3>1, <3>2 DEF Settled, Settling, Looping
  <2>3. CASE cur' = 1 /\ pc' = "next"
    BY <1>1, <1>3, <2>3
  <2> QED
    BY <1>3, <2>1, <2>2, <2>3, SettlingMoves
<1> QED
  BY <1>1, <1>2, <1>3 DEF Settled

\* Nothing is written between a removal and the write that takes its path over.
LEMMA BetweenKeeps == ASSUME NoInstalls, ~MaySplitCommit, IInv, Outcomes, Next PROVE Between'
<1>1. /\ plan' = plan /\ plan \in Plans /\ Action' = Action /\ Action = 1..Len(plan) /\ Len(plan) \in Nat /\ cur \in Action
      /\ TypeOK /\ Control /\ Stack /\ Between /\ Verified
      /\ \A a \in Action : Target(a)' = Target(a) /\ Target(a) \in Path
  BY PlanFixed, SamePlan DEF IInv, Outcomes, Progress, TypeOK, RunType
<1>2. ASSUME pc' \in Looping, NEW a \in Action, NEW b \in Action, a < cur', cur' <= b, a < b, Target(a) = Target(b)
      PROVE  file'[Target(a)] = "absent" \/ HasReference(b)'
  <2>0. /\ Kind(a) = "remove" /\ Kind(b) = "write"
        /\ \A c \in Action : Target(c) = Target(a) => c = a \/ c = b
    <3>1. ASSUME NEW c \in Action, Target(c) = Target(a), c # a, c # b PROVE FALSE
      BY <1>1, <1>2, <3>1, Twins
    <3> QED
      BY <1>1, <1>2, <3>1, Pairs
  <2>1. CASE pc \in Looping /\ cur' = cur
    <3>1. status # "none"
      BY <1>1, <2>1 DEF Control, Open, Working
    <3>2. HasReference(b) => HasReference(b)'
      BY <1>1, <3>1, ReferencesStay
    <3>3. file'[Target(a)] = file[Target(a)] \/ (Target(a) = Target(cur) /\ HasReference(cur))
      BY <1>1, <2>1, FileSteps
    <3>4. Target(a) = Target(cur) => cur = b
      BY <1>1, <1>2, <2>0, <2>1
    <3> QED
      BY <1>1, <1>2, <2>1, <3>2, <3>3, <3>4 DEF Between
  <2>2. CASE /\ pc = "return" \/ (pc = "next" /\ (Kind(cur) = "write" \/ SuccessorWrites(cur)))
             /\ UNCHANGED <<journal, file>>
             /\ cur < Len(plan) /\ cur' = cur + 1
    <3>1. HasReference(b)' = HasReference(b)
      BY <2>2 DEF HasReference
    <3>2. CASE a < cur
      BY <1>1, <1>2, <2>2, <3>1, <3>2 DEF Between, Looping
    <3>3. CASE a = cur /\ pc = "return"
      BY <1>1, <2>0, <2>2, <3>3 DEF Verified, Holds, IsFile, Intended
    <3>4. CASE a = cur /\ pc = "next"
      <4>1. PICK c \in Successors(a) : TRUE
        BY <2>0, <2>2, <3>4 DEF SuccessorWrites
      <4>2. c \in Action /\ c > a /\ Target(c) = Target(a) /\ HasReference(c)
        BY <4>1 DEF Successors, Inspected
      <4> QED
        BY <1>1, <2>0, <3>1, <4>2
    <3> QED
      BY <1>1, <1>2, <2>2, <3>2, <3>3, <3>4
  <2>3. CASE cur' = 1
    BY <1>1, <1>2, <2>3
  <2> QED
    BY <1>2, <2>1, <2>2, <2>3, SettlingMoves DEF Settling, Looping
<1> QED
  BY <1>1, <1>2 DEF Between

\* How an action is taken up and gone on with.
LEMMA ExecutedMoves ==
  ASSUME ~MaySplitCommit, IInv, Next
  PROVE  /\ pc' \in Executed =>
              /\ cur' = cur /\ mode' = mode /\ record' = record
              /\ \/ pc \in Executed /\ owner' = owner /\ (pc = "commit" => journal' = journal)
                 \/ /\ pc = "next" /\ journal' = journal
                    /\ \/ owner' = "unknown" /\ Last(cur).state # "succeeded"
                       \/ mode = "recover" /\ owner' = Last(cur).was /\ Last(cur).state = "succeeded"
         /\ ready' => cur' = cur /\ (ready \/ pc \in Executed)
<1> USE DEF runVars, diskVars, procVars, envVars, Enter, Goto, Fault, Finish, Execute, AfterBreak, Action
<1>1. /\ plan' = plan /\ cur \in Action /\ cur \in Nat /\ Action = 1..Len(plan) /\ Len(plan) \in Nat
      /\ TypeOK /\ Control /\ Stack /\ Unreached /\ record \in [Action -> Records]
      /\ \A a \in Action : Kind(a) \in ActionKinds /\ (IsFile(a) <=> Kind(a) \in {"write", "remove"})
  BY PlanFixed, SamePlan DEF IInv, Journals, IsFile, TypeOK, RunType, JournalType, Kind, Action
<1>2. CASE Start
  BY <1>1, <1>2 DEF Start, Executed, Working, Looping, Failing, Undoing, Unwinding, Ending
<1>3. CASE Take
  BY <1>1, <1>3 DEF Take, Entry, Executed, Unreached, Control, Open, Working, Looping, Failing,
      Undoing, Unwinding, Ending
<1>4. CASE RecordDrift
  BY <1>1, <1>4 DEF RecordDrift, Executed, Prepared, Control, States, Working, Looping, Failing,
      Undoing, Unwinding, Ending
<1>5. CASE Hold
  BY <1>1, <1>5 DEF Hold, Executed, Prepared, Control, States, Working, Looping, Failing, Undoing,
      Unwinding, Ending
<1>6. CASE Prepare
  BY <1>1, <1>6 DEF Prepare, Executed, Working, Looping, Failing, Undoing, Unwinding, Ending
<1>7. CASE JournalRunning
  BY <1>1, <1>7 DEF JournalRunning, Executed, Working, Looping, Failing, Undoing, Unwinding, Ending
<1>8. CASE Mutate
  BY <1>1, <1>8 DEF Mutate, Executed, Working, Looping, Failing, Undoing, Unwinding, Ending
<1>9. CASE Verify
  BY <1>1, <1>9 DEF Verify, Executed, Working, Looping, Failing, Undoing, Unwinding, Ending
<1>10. CASE Commit
  BY <1>1, <1>10 DEF Commit, Executed, Working, Looping, Failing, Undoing, Unwinding, Ending
<1>11. CASE Return
  BY <1>1, <1>11 DEF Return, Executed, Prepared, Control, States, Working, Looping, Failing,
      Undoing, Unwinding, Ending
<1>12. CASE Undo
  BY <1>1, <1>12 DEF Undo, Executed, Working, Looping, Failing, Undoing, Unwinding, Ending
<1>13. CASE Fail
  BY <1>1, <1>13 DEF Fail, Executed, Working, Looping, Failing, Undoing, Unwinding, Ending
<1>14. CASE Disown
  BY <1>1, <1>14 DEF Disown, Executed, Working, Looping, Failing, Undoing, Unwinding, Ending
<1>15. CASE Unwind
  BY <1>1, <1>15 DEF Unwind, Executed, Working, Looping, Failing, Undoing, Unwinding, Ending
<1>16. CASE Unjournal
  BY <1>1, <1>16 DEF Unjournal, Executed, Working, Looping, Failing, Undoing, Unwinding, Ending
<1>17. CASE Unwound
  BY <1>1, <1>17 DEF Unwound, Executed, Working, Looping, Failing, Undoing, Unwinding, Ending
<1>18. CASE Skip
  BY <1>1, <1>18 DEF Skip, Executed, Prepared, Control, States, Working, Looping, Failing, Undoing,
      Unwinding, Ending
<1>19. CASE Complete
  BY <1>1, <1>19 DEF Complete, Executed, Working, Looping, Failing, Undoing, Unwinding, Ending
<1>20. CASE Cleanup
  BY <1>1, <1>20 DEF Cleanup, Executed, Working, Looping, Failing, Undoing, Unwinding, Ending
<1>21. CASE TakeSkipped
  BY <1>1, <1>21 DEF TakeSkipped, Taking, Executed, Prepared, Control, States, Working, Looping,
      Failing, Undoing, Unwinding, Ending
<1>22. CASE TakeInstall
  BY <1>1, <1>22 DEF TakeInstall, Taking, Executed, Prepared, Control, States, Working, Looping,
      Failing, Undoing, Unwinding, Ending
<1>23. CASE KeepRemoved
  BY <1>1, <1>23 DEF KeepRemoved, Taking, Executed, Working, Looping, Failing, Undoing, Unwinding,
      Ending
<1>24. CASE KeepWritten
  BY <1>1, <1>24 DEF KeepWritten, Taking, Executed, Working, Looping, Failing, Undoing, Unwinding,
      Ending
<1>25. CASE RedoRemoved
  BY <1>1, <1>25 DEF RedoRemoved, Taking, Redo, Entry, Executed, Prepared, Control, States, Working,
      Looping, Failing, Undoing, Unwinding, Ending
<1>26. CASE RedoWritten
  BY <1>1, <1>26 DEF RedoWritten, Taking, Redo, Entry, Executed, Prepared, Control, States, Working,
      Looping, Failing, Undoing, Unwinding, Ending
<1>27. CASE RedoStarted
  BY <1>1, <1>27 DEF RedoStarted, Taking, Redo, Entry, Executed, Prepared, Control, States, Working,
      Looping, Failing, Undoing, Unwinding, Ending
<1>28. CASE InterruptedUndo
  BY <1>1, <1>28 DEF InterruptedUndo, Executed, Working, Looping, Failing, Undoing, Unwinding, Ending
<1>29. CASE InterruptedJournal
  BY <1>1, <1>29 DEF InterruptedJournal, Executed, Working, Looping, Failing, Undoing, Unwinding, Ending
<1>30. CASE Interrupted
  BY <1>1, <1>30 DEF Interrupted, Executed, Working, Looping, Failing, Undoing, Unwinding, Ending
<1>31. CASE Discard
  BY <1>1, <1>31 DEF Discard, Executed, Working, Looping, Failing, Undoing, Unwinding, Ending
<1>32. CASE Close
  BY <1>1, <1>32 DEF Close, Executed, Working, Looping, Failing, Undoing, Unwinding, Ending
<1>33. CASE Recover
  BY <1>1, <1>33 DEF Recover, Executed, Working, Looping, Failing, Undoing, Unwinding, Ending
<1>34. CASE Abandon
  BY <1>1, <1>34 DEF Abandon, Executed, Working, Looping, Failing, Undoing, Unwinding, Ending
<1>35. CASE Crash
  BY <1>1, <1>35 DEF Crash, Executed, Working, Looping, Failing, Undoing, Unwinding, Ending
<1>36. CASE Interrupt
  BY <1>1, <1>36 DEF Interrupt, InAction, Executed, Prepared, Control, States, Working, Looping,
      Failing, Undoing, Unwinding, Ending
<1>37. ASSUME NEW p \in Path, UserEdit(p) 
      PROVE
         /\ pc' \in Executed =>
              /\ cur' = cur /\ mode' = mode /\ record' = record
              /\ \/ pc \in Executed /\ owner' = owner /\ (pc = "commit" => journal' = journal)
                 \/ /\ pc = "next" /\ journal' = journal
                    /\ \/ owner' = "unknown" /\ Last(cur).state # "succeeded"
                       \/ mode = "recover" /\ owner' = Last(cur).was /\ Last(cur).state = "succeeded"
         /\ ready' => cur' = cur /\ (ready \/ pc \in Executed)
  BY <1>1, <1>37 DEF UserEdit, Executed, Working, Looping, Failing, Undoing, Unwinding, Ending
<1> QED
  BY <1>2, <1>3, <1>4, <1>5, <1>6, <1>7, <1>8, <1>9, <1>10, <1>11, <1>12, <1>13, <1>14, <1>15,
      <1>16, <1>17, <1>18, <1>19, <1>20, <1>21, <1>22, <1>23, <1>24, <1>25, <1>26, <1>27, <1>28,
      <1>29, <1>30, <1>31, <1>32, <1>33, <1>34, <1>35, <1>36, <1>37
  DEF Next, ProcessStep, ExecutorStep, RecoveryStep, StopStep, AbandonStep

\* A completed action joins the stack with the record its rollback reinstates.
LEMMA StackMembers ==
  ASSUME ~MaySplitCommit, IInv, Next
  PROVE  \A i \in DOMAIN stack' :
           \/ \E k \in DOMAIN stack : stack'[i] = stack[k]
           \/ /\ stack'[i].action = cur /\ IsFile(cur)
              /\ \/ pc = "return" /\ stack'[i].prev = owner
                 \/ /\ pc = "next" /\ mode = "recover" /\ Last(cur).state = "succeeded"
                    /\ stack'[i].prev = Last(cur).was
<1> USE DEF runVars, diskVars, procVars, envVars, Enter, Goto, Fault, Finish, Execute, AfterBreak, Action
<1>1. /\ plan' = plan /\ cur \in Action /\ cur \in Nat /\ Action = 1..Len(plan) /\ Len(plan) \in Nat
      /\ TypeOK /\ Control /\ Stack /\ Unreached /\ record \in [Action -> Records]
      /\ \A a \in Action : Kind(a) \in ActionKinds /\ (IsFile(a) <=> Kind(a) \in {"write", "remove"})
  BY PlanFixed, SamePlan DEF IInv, Journals, IsFile, TypeOK, RunType, JournalType, Kind, Action
<1>2. CASE stack' = stack
  BY <1>2
<1>3. CASE stack' = <<>>
  BY <1>3
<1>4. CASE stack # <<>> /\ stack' = Tail(stack)
  <2>1. /\ DOMAIN stack = 1..Len(stack) /\ Len(stack) \in Nat \ {0} /\ DOMAIN stack' = 1..(Len(stack) - 1)
        /\ \A i \in 1..(Len(stack) - 1) : stack'[i] = stack[i + 1]
    BY <1>1, <1>4, Popped DEF TypeOK, ProcessType
  <2>2. \A i \in DOMAIN stack' : i + 1 \in DOMAIN stack /\ stack'[i] = stack[i + 1]
    BY <2>1
  <2> QED
    BY <2>2
<1>5. ASSUME NEW n, NEW prev, Push(cur, n, prev)
      PROVE  \A i \in DOMAIN stack' : \/ \E k \in DOMAIN stack : stack'[i] = stack[k]
                                      \/ stack'[i].action = cur /\ stack'[i].prev = prev
  <2> DEFINE x == [action |-> cur, attempt |-> n, prev |-> prev]
  <2>1. stack' = <<x>> \o stack /\ x.action = cur /\ x.prev = prev /\ \E S : stack \in Seq(S) /\ x \in S
    <3>1. stack \in Seq(Pushes \cup {x}) /\ x \in Pushes \cup {x}
      BY <1>1 DEF TypeOK, ProcessType
    <3>2. stack' = <<x>> \o stack
      BY <1>5 DEF Push
    <3> QED
      BY <3>1, <3>2
  <2> HIDE DEF x
  <2>2. PICK S : stack \in Seq(S) /\ x \in S
    BY <2>1
  <2>3. /\ DOMAIN stack' = 1..(Len(stack) + 1) /\ stack'[1] = x /\ \A i \in 1..Len(stack) : stack'[i + 1] = stack[i]
        /\ DOMAIN stack = 1..Len(stack) /\ Len(stack) \in Nat
    BY <2>1, <2>2, Pushed
  <2>4. ASSUME NEW i \in DOMAIN stack', i # 1 PROVE \E k \in DOMAIN stack : stack'[i] = stack[k]
    <3>1. i - 1 \in DOMAIN stack /\ stack'[i] = stack[i - 1]
      BY <2>3, <2>4
    <3> QED
      BY <3>1
  <2> QED
    BY <2>1, <2>3, <2>4
<1>6. CASE Start
  BY <1>2, <1>3, <1>4, <1>6 DEF Start
<1>7. CASE Take
  BY <1>2, <1>3, <1>4, <1>7 DEF Take, Entry
<1>8. CASE RecordDrift
  BY <1>2, <1>3, <1>4, <1>8 DEF RecordDrift
<1>9. CASE Hold
  BY <1>2, <1>3, <1>4, <1>9 DEF Hold
<1>10. CASE Prepare
  BY <1>2, <1>3, <1>4, <1>10 DEF Prepare
<1>11. CASE JournalRunning
  BY <1>2, <1>3, <1>4, <1>11 DEF JournalRunning
<1>12. CASE Mutate
  BY <1>2, <1>3, <1>4, <1>12 DEF Mutate
<1>13. CASE Verify
  BY <1>2, <1>3, <1>4, <1>13 DEF Verify
<1>14. CASE Commit
  BY <1>2, <1>3, <1>4, <1>14 DEF Commit
<1>15. CASE Return
  BY <1>1, <1>2, <1>5, <1>15 DEF Return, IsFile
<1>16. CASE Undo
  BY <1>2, <1>3, <1>4, <1>16 DEF Undo
<1>17. CASE Fail
  BY <1>2, <1>3, <1>4, <1>17 DEF Fail
<1>18. CASE Disown
  BY <1>2, <1>3, <1>4, <1>18 DEF Disown
<1>19. CASE Unwind
  BY <1>2, <1>3, <1>4, <1>19 DEF Unwind
<1>20. CASE Unjournal
  BY <1>2, <1>3, <1>4, <1>20 DEF Unjournal
<1>21. CASE Unwound
  BY <1>2, <1>3, <1>4, <1>21 DEF Unwound
<1>22. CASE Skip
  BY <1>2, <1>3, <1>4, <1>22 DEF Skip
<1>23. CASE Complete
  BY <1>2, <1>3, <1>4, <1>23 DEF Complete
<1>24. CASE Cleanup
  BY <1>2, <1>3, <1>4, <1>24 DEF Cleanup
<1>25. CASE TakeSkipped
  BY <1>2, <1>3, <1>4, <1>25 DEF TakeSkipped, Taking
<1>26. CASE TakeInstall
  BY <1>2, <1>3, <1>4, <1>26 DEF TakeInstall, Taking
<1>27. CASE KeepRemoved
  BY <1>1, <1>2, <1>5, <1>27 DEF KeepRemoved, Taking, IsFile
<1>28. CASE KeepWritten
  BY <1>1, <1>2, <1>5, <1>28 DEF KeepWritten, Taking, IsFile
<1>29. CASE RedoRemoved
  BY <1>2, <1>3, <1>4, <1>29 DEF RedoRemoved, Taking, Redo, Entry
<1>30. CASE RedoWritten
  BY <1>2, <1>3, <1>4, <1>30 DEF RedoWritten, Taking, Redo, Entry
<1>31. CASE RedoStarted
  BY <1>2, <1>3, <1>4, <1>31 DEF RedoStarted, Taking, Redo, Entry
<1>32. CASE InterruptedUndo
  BY <1>2, <1>3, <1>4, <1>32 DEF InterruptedUndo
<1>33. CASE InterruptedJournal
  BY <1>2, <1>3, <1>4, <1>33 DEF InterruptedJournal
<1>34. CASE Interrupted
  BY <1>2, <1>3, <1>4, <1>34 DEF Interrupted
<1>35. CASE Discard
  BY <1>2, <1>3, <1>4, <1>35 DEF Discard
<1>36. CASE Close
  BY <1>2, <1>3, <1>4, <1>36 DEF Close
<1>37. CASE Recover
  BY <1>2, <1>3, <1>4, <1>37 DEF Recover
<1>38. CASE Abandon
  BY <1>2, <1>3, <1>4, <1>38 DEF Abandon
<1>39. CASE Crash
  BY <1>2, <1>3, <1>4, <1>39 DEF Crash
<1>40. CASE Interrupt
  BY <1>2, <1>3, <1>4, <1>40 DEF Interrupt, InAction
<1>41. ASSUME NEW p \in Path, UserEdit(p) 
      PROVE
         \A i \in DOMAIN stack' :
           \/ \E k \in DOMAIN stack : stack'[i] = stack[k]
           \/ /\ stack'[i].action = cur /\ IsFile(cur)
              /\ \/ pc = "return" /\ stack'[i].prev = owner
                 \/ /\ pc = "next" /\ mode = "recover" /\ Last(cur).state = "succeeded"
                    /\ stack'[i].prev = Last(cur).was
  BY <1>2, <1>3, <1>4, <1>41 DEF UserEdit
<1> QED
  BY <1>6, <1>7, <1>8, <1>9, <1>10, <1>11, <1>12, <1>13, <1>14, <1>15, <1>16, <1>17, <1>18, <1>19,
      <1>20, <1>21, <1>22, <1>23, <1>24, <1>25, <1>26, <1>27, <1>28, <1>29, <1>30, <1>31, <1>32,
      <1>33, <1>34, <1>35, <1>36, <1>37, <1>38, <1>39, <1>40, <1>41
  DEF Next, ProcessStep, ExecutorStep, RecoveryStep, StopStep, AbandonStep

\* What waits for a human stops the loop before the files behind it.
LEMMA UnreachableKeeps == ASSUME NoInstalls, ~MaySplitCommit, IInv, Outcomes, Next PROVE Unreachable'
<1>1. /\ plan' = plan /\ Action' = Action /\ Action = 1..Len(plan) /\ Len(plan) \in Nat /\ cur \in Action
      /\ TypeOK /\ Control /\ Stack /\ Unreachable /\ Done
      /\ \A a : Behind(a)' = Behind(a)
      /\ \A a \in Action : IsFile(a)' = IsFile(a) /\ Prior(a)' = Prior(a)
  BY PlanFixed, SamePlan DEF IInv, Outcomes, Progress, Behind, Manual, Kind, Prior
<1>2. pc = "next" => ~Behind(cur)
  BY <1>1 DEF Done, Behind, Manual, Looping
<1>3. pc' \in Executed \/ ready' => ~Behind(cur')
  BY <1>1, <1>2, ExecutedMoves DEF Unreachable
<1>4. \A i \in DOMAIN stack' : ~Behind(stack'[i].action)
  <2>1. pc = "return" => ~Behind(cur)
    BY <1>1 DEF Done, Behind, Manual, Looping
  <2> QED
    BY <1>1, <1>2, <2>1, StackMembers DEF Unreachable
<1>5. ASSUME NEW a \in Action, IsFile(a), Behind(a) PROVE ~HasReference(a)' /\ record'[a] = Prior(a)
  <2>1. CASE status = "none"
    <3>1. Start
      BY <1>1, <2>1, Begins DEF IInv, Files
    <3>2. journal'[a] = <<Event("pending", 0, FALSE, "none")>> /\ record' = record
      BY <1>1, <3>1 DEF Start
    <3>3. ~HasReference(a)'
      BY <3>2 DEF HasReference, Event
    <3> QED
      BY <1>1, <1>5, <3>2, <3>3 DEF Unreachable
  <2>2. CASE status # "none"
    <3>1. ~HasReference(a)'
      BY <1>1, <1>5, <2>2, ReferencesStay DEF Unreachable, Relied
    <3>2. pc = "unjournal" /\ stack # <<>> => ~Behind(Top.action)
      BY <1>1, TopFacts DEF Unreachable
    <3>3. pc = "complete" => Outcome # "Converged"
      BY <1>1, <1>5 DEF Outcome, Done, Behind, Manual, TypeOK, ProcessType
    <3>4. pc \in {"commit", "disown"} => ~Behind(cur)
      BY <1>1 DEF Unreachable, Executed, Looping, Failing
    <3> QED
      BY <1>1, <1>5, <2>2, <3>1, <3>2, <3>3, <3>4, RecordSteps DEF Unreachable
  <2> QED
    BY <2>1, <2>2
<1> QED
  BY <1>1, <1>3, <1>4, <1>5 DEF Unreachable

\* A completed action.
LEMMA ViewAfter ==
  ASSUME TypeOK, NEW a \in Action, IsFile(a), record[a] = Applied(a), Final(a) => file[Target(a)] = Intended(a),
         \A b \in Action : b > a /\ Target(b) = Target(a) => file[Target(a)] \in {"desired", "absent"}
  PROVE  ViewOf(a) = "after"
<1>1. Applied(a) # Prior(a)
  BY PlanFacts DEF TypeOK, RunType, Applied, Prior, IsFile
<1>2. Kind(a) = "remove" \/ Final(a)
  BY PlanFacts, Pairs DEF TypeOK, RunType, Final, IsFile
<1>3. (\E b \in Action : b > a /\ Target(b) = Target(a)) => Kind(a) = "remove"
  BY <1>2 DEF Final
<1>4. file[Target(a)] \in {Intended(a)} \cup (IF \E b \in Action : b > a /\ Target(b) = Target(a) THEN {"desired"} ELSE {})
  <2>1. CASE \E b \in Action : b > a /\ Target(b) = Target(a)
    BY <1>3, <2>1 DEF Intended
  <2>2. CASE ~\E b \in Action : b > a /\ Target(b) = Target(a)
    BY <2>2 DEF Final
  <2> QED
    BY <2>1, <2>2
<1> QED
  BY <1>1, <1>4 DEF ViewOf

\* An action that was not reached, or was undone.
LEMMA ViewBefore ==
  ASSUME TypeOK, NEW a \in Action, IsFile(a), record[a] = Prior(a),
         \/ file[Target(a)] = before[Target(a)]
         \/ file[Target(a)] = "absent" /\ \E b \in Action : b < a /\ Target(b) = Target(a)
  PROVE  ViewOf(a) = "before"
<1>1. Applied(a) # Prior(a)
  BY PlanFacts DEF TypeOK, RunType, Applied, Prior, IsFile
<1> QED
  BY <1>1 DEF ViewOf

\* The view of a file depends on the machine and the records alone.
LEMMA SameView ==
  ASSUME plan' = plan, file' = file, record' = record, before' = before
  PROVE  \A a : ViewOf(a)' = ViewOf(a)
BY DEF ViewOf, Action, Target, Prior, Applied, Intended, Kind

\* At the end of the loop every action is completed.
LEMMA AllAfter ==
  ASSUME IInv, Outcomes, pc = "complete", result = "verified"
  PROVE  \A a \in Action : IsFile(a) => record[a] = Applied(a) /\ ViewOf(a) = "after"
<1>1. /\ TypeOK /\ Control /\ Done /\ Settled /\ Succeeded /\ plan \in Plans
      /\ status # "none"
  BY DEF IInv, Progress, Outcomes, TypeOK, RunType, Control, Open, Working, Ending
<1> SUFFICES ASSUME NEW a \in Action, IsFile(a) PROVE record[a] = Applied(a) /\ ViewOf(a) = "after"
  OBVIOUS
<1>2. record[a] = Applied(a)
  BY <1>1 DEF Settled, Settling, Succeeded
<1>3. Final(a) => file[Target(a)] = Intended(a)
  BY <1>1 DEF Done
<1>4. ASSUME NEW b \in Action, b > a, Target(b) = Target(a) PROVE file[Target(a)] \in {"desired", "absent"}
  <2>1. Final(b) /\ Kind(b) = "write"
    BY <1>1, <1>4, Pairs
  <2> QED
    BY <1>1, <1>4, <2>1 DEF Done, Intended
<1> QED
  BY <1>1, <1>2, <1>3, <1>4, ViewAfter

\* Where the loop stops at an action that waits for a human, those before it are
\* completed and those after it untouched.
LEMMA HeldThere ==
  ASSUME IInv, Outcomes, pc \in {"hold", "next"}, Manual(cur)
  PROVE  \A a \in Action : IsFile(a) => ViewOf(a) \in {"before", "after"}
<1>1. /\ TypeOK /\ Control /\ Done /\ Settled /\ Succeeded /\ Between /\ Unreachable /\ Untouched /\ plan \in Plans
      /\ status # "none" /\ Open /\ cur \in Action /\ Action \subseteq Nat
      /\ \A a \in Action : Target(a) \in Path
  BY SamePlan, PlanFacts DEF IInv, Progress, Files, Outcomes, TypeOK, RunType, ProcessType, Control,
      Open, Working, Looping
<1>2. \A a \in Action : IsFile(a) => ~Manual(a)
  BY DEF IsFile, Manual
<1> SUFFICES ASSUME NEW a \in Action, IsFile(a) PROVE ViewOf(a) \in {"before", "after"}
  OBVIOUS
<1>3. a # cur
  BY <1>2
<1>4. CASE a < cur
  <2>1. record[a] = Applied(a)
    BY <1>1, <1>4 DEF Settled, Settling, Succeeded, Looping
  <2>2. Final(a) => file[Target(a)] = Intended(a)
    BY <1>1, <1>4 DEF Done, Looping
  <2>3. ASSUME NEW b \in Action, b > a, Target(b) = Target(a) PROVE file[Target(a)] \in {"desired", "absent"}
    <3>1. Final(b) /\ Kind(b) = "write" /\ IsFile(b)
      BY <1>1, <2>3, Pairs DEF IsFile
    <3>2. b # cur
      BY <1>2, <3>1
    <3>3. CASE b < cur
      BY <1>1, <2>3, <3>1, <3>3 DEF Done, Intended, Looping
    <3>4. CASE b > cur
      <4>1. ~HasReference(b)
        BY <1>1, <3>1, <3>4 DEF Unreachable, Behind
      <4>2. file[Target(a)] = "absent" \/ HasReference(b)
        BY <1>1, <1>4, <2>3, <3>4 DEF Between, Looping
      <4> QED
        BY <4>1, <4>2
    <3> QED
      BY <1>1, <3>2, <3>3, <3>4
  <2> QED
    BY <1>1, <2>1, <2>2, <2>3, ViewAfter
<1>5. CASE a > cur
  <2>1. ~HasReference(a) /\ record[a] = Prior(a)
    BY <1>1, <1>5 DEF Unreachable, Behind
  <2>2. CASE \E r \in Action : r < cur /\ Target(r) = Target(a)
    <3>1. PICK r \in Action : r < cur /\ Target(r) = Target(a)
      BY <2>2
    <3>2. file[Target(a)] = "absent" /\ r < a
      BY <1>1, <1>5, <2>1, <3>1 DEF Between, Looping
    <3> QED
      BY <1>1, <2>1, <3>1, <3>2, ViewBefore
  <2>3. CASE ~\E r \in Action : r < cur /\ Target(r) = Target(a)
    <3>1. ASSUME NEW r \in Action, Target(r) = Target(a) PROVE ~HasReference(r)
      <4>1. r = a \/ (r # a /\ IsFile(r))
        BY <1>1, <3>1, Twins
      <4>2. r # cur
        BY <1>2, <1>3, <4>1
      <4>3. r > cur
        BY <1>1, <2>3, <3>1, <4>2
      <4> QED
        BY <1>1, <2>1, <4>1, <4>3 DEF Unreachable, Behind
    <3>2. file[Target(a)] = before[Target(a)]
      BY <1>1, <3>1 DEF Untouched
    <3> QED
      BY <1>1, <2>1, <3>2, ViewBefore
  <2> QED
    BY <2>2, <2>3
<1> QED
  BY <1>1, <1>3, <1>4, <1>5

\* How an outcome that waits for a human comes about.
LEMMA HeldMoves ==
  ASSUME NoInstalls, ~MaySplitCommit, IInv, Outcomes, Next
  PROVE  (pc' \in Ending /\ result' \in {"human", "drift"}) \/ status' \in {"HumanActionRequired", "FollowerDrift"} =>
           /\ file' = file /\ record' = record /\ before' = before
           /\ \/ (pc \in Ending /\ result \in {"human", "drift"}) \/ status \in {"HumanActionRequired", "FollowerDrift"}
              \/ pc \in {"hold", "next"} /\ Manual(cur)
              \/ pc = "complete" /\ result = "verified"
<1> USE DEF runVars, diskVars, procVars, envVars, Enter, Goto, Fault, Finish, Execute, AfterBreak, Action
<1>1. /\ plan' = plan /\ cur \in Action /\ Control /\ Fresh /\ record \in [Action -> Records]
      /\ \A a \in Action : Kind(a) \in ActionKinds /\ Kind(a) # "install"
      /\ status \in {"none", "applying", "Interrupted", "Abandoned"} \cup Terminal
  BY PlanFixed, SamePlan DEF IInv, Files, NoInstalls, TypeOK, RunType, JournalType, Kind, Action
<1>2. CASE Start
  BY <1>1, <1>2 DEF Start, Control, Fresh, Open, Working, Looping, Failing, Undoing, Unwinding, Ending
<1>3. CASE Take
  BY <1>1, <1>3 DEF Take, Entry, Control, Fresh, Open, Working, Looping, Failing, Undoing,
      Unwinding, Ending
<1>4. CASE RecordDrift
  BY <1>1, <1>4 DEF RecordDrift, Control, Fresh, Open, Working, Looping, Failing, Undoing,
      Unwinding, Ending
<1>5. CASE Hold
  BY <1>1, <1>5 DEF Hold, Control, Manual, Open, Working, Looping, Failing, Undoing, Unwinding, Ending
<1>6. CASE Prepare
  BY <1>1, <1>6 DEF Prepare, Control, Fresh, Open, Working, Looping, Failing, Undoing, Unwinding, Ending
<1>7. CASE JournalRunning
  BY <1>1, <1>7 DEF JournalRunning, Control, Fresh, Open, Working, Looping, Failing, Undoing,
      Unwinding, Ending
<1>8. CASE Mutate
  BY <1>1, <1>8 DEF Mutate, Control, Fresh, Open, Working, Looping, Failing, Undoing, Unwinding, Ending
<1>9. CASE Verify
  BY <1>1, <1>9 DEF Verify, Control, Fresh, Open, Working, Looping, Failing, Undoing, Unwinding, Ending
<1>10. CASE Commit
  BY <1>1, <1>10 DEF Commit, Control, Fresh, Open, Working, Looping, Failing, Undoing, Unwinding, Ending
<1>11. CASE Return
  BY <1>1, <1>11 DEF Return, Control, Fresh, Open, Working, Looping, Failing, Undoing, Unwinding, Ending
<1>12. CASE Undo
  BY <1>1, <1>12 DEF Undo, Control, Fresh, Open, Working, Looping, Failing, Undoing, Unwinding, Ending
<1>13. CASE Fail
  BY <1>1, <1>13 DEF Fail, Control, Fresh, Open, Working, Looping, Failing, Undoing, Unwinding, Ending
<1>14. CASE Disown
  BY <1>1, <1>14 DEF Disown, Control, Fresh, Open, Working, Looping, Failing, Undoing, Unwinding, Ending
<1>15. CASE Unwind
  BY <1>1, <1>15 DEF Unwind, Control, Fresh, Open, Working, Looping, Failing, Undoing, Unwinding, Ending
<1>16. CASE Unjournal
  BY <1>1, <1>16 DEF Unjournal, Control, Fresh, Open, Working, Looping, Failing, Undoing, Unwinding,
      Ending
<1>17. CASE Unwound
  BY <1>1, <1>17 DEF Unwound, Control, Fresh, Open, Working, Looping, Failing, Undoing, Unwinding,
      Ending
<1>18. CASE Skip
  BY <1>1, <1>18 DEF Skip, Control, Fresh, Open, Working, Looping, Failing, Undoing, Unwinding, Ending
<1>19. CASE Complete
  BY <1>1, <1>19 DEF Complete, FinalRecords, Outcome, Control, Open, TypeOK, ProcessType, IInv,
      Working, Looping, Failing, Undoing, Unwinding, Ending
<1>20. CASE Cleanup
  BY <1>1, <1>20 DEF Cleanup, Control, Fresh, Open, Working, Looping, Failing, Undoing, Unwinding,
      Ending
<1>21. CASE TakeSkipped
  BY <1>1, <1>21 DEF TakeSkipped, Taking, Control, Manual, Open, Working, Looping, Failing, Undoing,
      Unwinding, Ending
<1>22. CASE TakeInstall
  BY <1>1, <1>22 DEF TakeInstall, Taking, Control, Fresh, Open, Working, Looping, Failing, Undoing,
      Unwinding, Ending
<1>23. CASE KeepRemoved
  BY <1>1, <1>23 DEF KeepRemoved, Taking, Control, Fresh, Open, Working, Looping, Failing, Undoing,
      Unwinding, Ending
<1>24. CASE KeepWritten
  BY <1>1, <1>24 DEF KeepWritten, Taking, Control, Fresh, Open, Working, Looping, Failing, Undoing,
      Unwinding, Ending
<1>25. CASE RedoRemoved
  BY <1>1, <1>25 DEF RedoRemoved, Taking, Redo, Entry, Control, Fresh, Open, Working, Looping,
      Failing, Undoing, Unwinding, Ending
<1>26. CASE RedoWritten
  BY <1>1, <1>26 DEF RedoWritten, Taking, Redo, Entry, Control, Fresh, Open, Working, Looping,
      Failing, Undoing, Unwinding, Ending
<1>27. CASE RedoStarted
  BY <1>1, <1>27 DEF RedoStarted, Taking, Redo, Entry, Control, Fresh, Open, Working, Looping,
      Failing, Undoing, Unwinding, Ending
<1>28. CASE InterruptedUndo
  BY <1>1, <1>28 DEF InterruptedUndo, Control, Fresh, Open, Working, Looping, Failing, Undoing,
      Unwinding, Ending
<1>29. CASE InterruptedJournal
  BY <1>1, <1>29 DEF InterruptedJournal, Control, Fresh, Open, Working, Looping, Failing, Undoing,
      Unwinding, Ending
<1>30. CASE Interrupted
  BY <1>1, <1>30 DEF Interrupted, Control, Fresh, Open, Working, Looping, Failing, Undoing,
      Unwinding, Ending
<1>31. CASE Discard
  BY <1>1, <1>31 DEF Discard, Control, Fresh, Open, Working, Looping, Failing, Undoing, Unwinding,
      Ending
<1>32. CASE Close
  BY <1>1, <1>32 DEF Close, Control, Fresh, Open, Working, Looping, Failing, Undoing, Unwinding, Ending
<1>33. CASE Recover
  BY <1>1, <1>33 DEF Recover, Control, Fresh, Open, Working, Looping, Failing, Undoing, Unwinding,
      Ending
<1>34. CASE Abandon
  BY <1>1, <1>34 DEF Abandon, Control, Fresh, Open, Working, Looping, Failing, Undoing, Unwinding,
      Ending
<1>35. CASE Crash
  BY <1>1, <1>35 DEF Crash, Control, Fresh, Open, Working, Looping, Failing, Undoing, Unwinding, Ending
<1>36. CASE Interrupt
  BY <1>1, <1>36 DEF Interrupt, InAction, Control, Fresh, Open, Working, Looping, Failing, Undoing,
      Unwinding, Ending
<1>37. ASSUME NEW p \in Path, UserEdit(p) 
      PROVE
         (pc' \in Ending /\ result' \in {"human", "drift"}) \/ status' \in {"HumanActionRequired", "FollowerDrift"} =>
           /\ file' = file /\ record' = record /\ before' = before
           /\ \/ (pc \in Ending /\ result \in {"human", "drift"}) \/ status \in {"HumanActionRequired", "FollowerDrift"}
              \/ pc \in {"hold", "next"} /\ Manual(cur)
              \/ pc = "complete" /\ result = "verified"
  BY <1>1, <1>37 DEF UserEdit, Control, Fresh, Open, Working, Looping, Failing, Undoing, Unwinding,
      Ending
<1> QED
  BY <1>2, <1>3, <1>4, <1>5, <1>6, <1>7, <1>8, <1>9, <1>10, <1>11, <1>12, <1>13, <1>14, <1>15,
      <1>16, <1>17, <1>18, <1>19, <1>20, <1>21, <1>22, <1>23, <1>24, <1>25, <1>26, <1>27, <1>28,
      <1>29, <1>30, <1>31, <1>32, <1>33, <1>34, <1>35, <1>36, <1>37
  DEF Next, ProcessStep, ExecutorStep, RecoveryStep, StopStep, AbandonStep

\* A run held for a human has completed what is before it and not begun what is behind.
LEMMA HeldKeeps == ASSUME NoInstalls, ~MaySplitCommit, IInv, Outcomes, Next PROVE Held'
<1>1. plan' = plan /\ Action' = Action /\ Held /\ \A a \in Action : IsFile(a)' = IsFile(a)
  BY PlanFixed, SamePlan DEF IInv, Outcomes
<1> SUFFICES ASSUME (pc' \in Ending /\ result' \in {"human", "drift"}) \/ status' \in {"HumanActionRequired", "FollowerDrift"}
             PROVE  \A a \in Action : IsFile(a) => ViewOf(a)' \in {"before", "after"}
  BY <1>1 DEF Held
<1>2. file' = file /\ record' = record /\ before' = before
  BY HeldMoves
<1>3. \A a \in Action : IsFile(a) => ViewOf(a) \in {"before", "after"}
  BY <1>1, HeldMoves, HeldThere, AllAfter DEF Held
<1> QED
  BY <1>1, <1>2, <1>3, SameView

\* Every step keeps the outcomes.
LEMMA OutcomesKeep == ASSUME NoInstalls, ~MaySplitCommit, IInv, Outcomes, Next PROVE Outcomes'
BY SucceededKeeps, SettledKeeps, BetweenKeeps, UnreachableKeeps, HeldKeeps DEF Outcomes

\* Only a kill and an interruption stop a process.
LEMMA StopsSame ==
  ASSUME Start \/ Recover \/ Abandon \/ ProcessStep
  PROVE  Stops' = Stops
<1>1. \A kind : Fault(kind) => crashes' = crashes /\ interrupts' = interrupts
  BY DEF Fault
<1>2. envVars' = envVars => crashes' = crashes /\ interrupts' = interrupts
  BY DEF envVars
<1>3. (Start \/ Take \/ RecordDrift \/ Hold \/ Prepare \/ JournalRunning \/ Mutate \/ Verify \/ Commit) => crashes' = crashes /\ interrupts' = interrupts
  BY <1>1, <1>2 DEF Start, Take, RecordDrift, Hold, Prepare, JournalRunning, Mutate, Verify, Commit,
      Redo
<1>4. (Return \/ Undo \/ Fail \/ Disown \/ Unwind \/ Unjournal \/ Unwound \/ Skip \/ Complete) => crashes' = crashes /\ interrupts' = interrupts
  BY <1>1, <1>2 DEF Return, Undo, Fail, Disown, Unwind, Unjournal, Unwound, Skip, Complete, Redo
<1>5. (Cleanup \/ TakeSkipped \/ TakeInstall \/ KeepRemoved \/ KeepWritten \/ RedoRemoved \/ RedoWritten \/ RedoStarted \/ InterruptedUndo) => crashes' = crashes /\ interrupts' = interrupts
  BY <1>1, <1>2 DEF Cleanup, TakeSkipped, TakeInstall, KeepRemoved, KeepWritten, RedoRemoved,
      RedoWritten, RedoStarted, InterruptedUndo, Redo
<1>6. (InterruptedJournal \/ Interrupted \/ Discard \/ Close \/ Recover \/ Abandon) => crashes' = crashes /\ interrupts' = interrupts
  BY <1>1, <1>2 DEF InterruptedJournal, Interrupted, Discard, Close, Recover, Abandon, Redo
<1> QED
  BY <1>3, <1>4, <1>5, <1>6 DEF Stops, ProcessStep, ExecutorStep, RecoveryStep, StopStep, AbandonStep

\* What a process is stopped in, and what only the end of the loop does.
LEMMA StopMoves ==
  ASSUME ~MaySplitCommit, IInv, Ownership, Next
  PROVE  /\ Stopped'
         /\ Stops' \in Nat /\ Stops \in Nat /\ Stops' >= Stops
         /\ status' # "none"
         /\ status' = "Failed" => Complete \/ (status = "Failed" /\ record' = record /\ incomplete' = incomplete)
         /\ pc' = "cleanup" => Complete
         /\ pc' = "return" => Commit
         /\ Stops' <= 1 /\ Open' /\ status # "none" =>
              /\ Open
              /\ mode = "recover" => /\ mode' = "recover"
                                     /\ \/ cur' = cur /\ (pc' = "next" => pc = "next")
                                        \/ cur' = cur + 1
<1> USE DEF runVars, diskVars, procVars, envVars, Enter, Goto, Fault, Finish, Execute, AfterBreak, Action
<1>1. /\ plan' = plan /\ cur \in Action /\ cur \in Nat /\ Action = 1..Len(plan) /\ Len(plan) \in Nat
      /\ TypeOK /\ Control /\ Fresh /\ Stopped /\ crashes \in Nat /\ interrupts \in Nat
      /\ record \in [Action -> Records] /\ result \in {"verified", "failed", "human", "drift"}
      /\ status \in {"none", "applying", "Interrupted", "Abandoned"} \cup Terminal
      /\ \A a \in Action : Kind(a) \in ActionKinds /\ (IsFile(a) <=> Kind(a) \in {"write", "remove"})
  BY PlanFixed, SamePlan DEF IInv, Files, Ownership, IsFile, TypeOK, RunType, JournalType,
      ProcessType, CountType, Kind, Action
<1>2. CASE Start
  BY <1>1, <1>2 DEF Start, Stops, Stopped, Control, Fresh, Open, Terminal, Working, Looping,
      Failing, Undoing, Unwinding, Ending
<1>3. CASE Take
  BY <1>1, <1>3 DEF Take, Entry, Stops, Stopped, Control, Fresh, Open, Terminal, Working, Looping,
      Failing, Undoing, Unwinding, Ending
<1>4. CASE RecordDrift
  <2>1. Stops' = Stops /\ Stops \in Nat
    BY <1>1, <1>4, StopsSame DEF Stops, ProcessStep, ExecutorStep, RecoveryStep, StopStep
  <2> QED
    BY <1>1, <1>4, <2>1 DEF RecordDrift, Outcome, Stopped, Control, Fresh, Open, Terminal, Working,
        Looping, Failing, Undoing, Unwinding, Ending
<1>5. CASE Hold
  <2>1. Stops' = Stops /\ Stops \in Nat
    BY <1>1, <1>5, StopsSame DEF Stops, ProcessStep, ExecutorStep, RecoveryStep, StopStep
  <2>2. pc' \in {"unwind", "skip", "complete"} /\ status' = status /\ mode' = mode /\ cur' = cur /\ pc = "hold"
    BY <1>1, <1>5 DEF Hold, Control
  <2> QED
    BY <1>1, <2>1, <2>2 DEF Fresh, Stopped, Control, Fresh, Open, Terminal, Working, Looping,
        Failing, Undoing, Unwinding, Ending
<1>6. CASE Prepare
  BY <1>1, <1>6 DEF Prepare, Stops, Stopped, Control, Fresh, Open, Terminal, Working, Looping,
      Failing, Undoing, Unwinding, Ending
<1>7. CASE JournalRunning
  BY <1>1, <1>7 DEF JournalRunning, Stops, Stopped, Control, Fresh, Open, Terminal, Working,
      Looping, Failing, Undoing, Unwinding, Ending
<1>8. CASE Mutate
  BY <1>1, <1>8 DEF Mutate, Stops, Stopped, Control, Fresh, Open, Terminal, Working, Looping,
      Failing, Undoing, Unwinding, Ending
<1>9. CASE Verify
  <2>1. Stops' = Stops /\ Stops \in Nat
    BY <1>1, <1>9, StopsSame DEF Stops, ProcessStep, ExecutorStep, RecoveryStep, StopStep
  <2> QED
    BY <1>1, <1>9, <2>1 DEF Verify, Outcome, Stopped, Control, Fresh, Open, Terminal, Working,
        Looping, Failing, Undoing, Unwinding, Ending
<1>10. CASE Commit
  BY <1>1, <1>10 DEF Commit, Stops, Stopped, Control, Fresh, Open, Terminal, Working, Looping,
      Failing, Undoing, Unwinding, Ending
<1>11. CASE Return
  BY <1>1, <1>11 DEF Return, Stops, Stopped, Control, Fresh, Open, Terminal, Working, Looping,
      Failing, Undoing, Unwinding, Ending
<1>12. CASE Undo
  <2>1. Stops' = Stops /\ Stops \in Nat
    BY <1>1, <1>12, StopsSame DEF Stops, ProcessStep, ExecutorStep, RecoveryStep, StopStep
  <2>2. pc' = "fail" /\ status' = status /\ mode' = mode /\ cur' = cur /\ pc = "undo"
    BY <1>12 DEF Undo
  <2> QED
    BY <1>1, <2>1, <2>2 DEF Fresh, Stopped, Control, Fresh, Open, Terminal, Working, Looping,
        Failing, Undoing, Unwinding, Ending
<1>13. CASE Fail
  <2>1. Stops' = Stops /\ Stops \in Nat
    BY <1>1, <1>13, StopsSame DEF Stops, ProcessStep, ExecutorStep, RecoveryStep, StopStep
  <2> QED
    BY <1>1, <1>13, <2>1 DEF Fail, Outcome, Stopped, Control, Fresh, Open, Terminal, Working,
        Looping, Failing, Undoing, Unwinding, Ending
<1>14. CASE Disown
  BY <1>1, <1>14 DEF Disown, Stops, Stopped, Control, Fresh, Open, Terminal, Working, Looping,
      Failing, Undoing, Unwinding, Ending
<1>15. CASE Unwind
  BY <1>1, <1>15 DEF Unwind, Stops, Stopped, Control, Fresh, Open, Terminal, Working, Looping,
      Failing, Undoing, Unwinding, Ending
<1>16. CASE Unjournal
  <2>1. Stops' = Stops /\ Stops \in Nat
    BY <1>1, <1>16, StopsSame DEF Stops, ProcessStep, ExecutorStep, RecoveryStep, StopStep
  <2> QED
    BY <1>1, <1>16, <2>1 DEF Unjournal, Outcome, Stopped, Control, Fresh, Open, Terminal, Working,
        Looping, Failing, Undoing, Unwinding, Ending
<1>17. CASE Unwound
  BY <1>1, <1>17 DEF Unwound, Stops, Stopped, Control, Fresh, Open, Terminal, Working, Looping,
      Failing, Undoing, Unwinding, Ending
<1>18. CASE Skip
  <2>1. Stops' = Stops /\ Stops \in Nat
    BY <1>1, <1>18, StopsSame DEF Stops, ProcessStep, ExecutorStep, RecoveryStep, StopStep
  <2> QED
    BY <1>1, <1>18, <2>1 DEF Skip, Outcome, Stopped, Control, Fresh, Open, Terminal, Working,
        Looping, Failing, Undoing, Unwinding, Ending
<1>19. CASE Complete
  <2>1. Stops' = Stops /\ Stops \in Nat
    BY <1>1, <1>19, StopsSame DEF Stops, ProcessStep, ExecutorStep, RecoveryStep, StopStep
  <2> QED
    BY <1>1, <1>19, <2>1 DEF Complete, Outcome, Stopped, Control, Fresh, Open, Terminal, Working,
        Looping, Failing, Undoing, Unwinding, Ending
<1>20. CASE Cleanup
  BY <1>1, <1>20 DEF Cleanup, Stops, Stopped, Control, Fresh, Open, Terminal, Working, Looping,
      Failing, Undoing, Unwinding, Ending
<1>21. CASE TakeSkipped
  BY <1>1, <1>21 DEF TakeSkipped, Taking, Stops, Stopped, Control, Fresh, Open, Terminal, Working,
      Looping, Failing, Undoing, Unwinding, Ending
<1>22. CASE TakeInstall
  <2>1. Stops' = Stops /\ Stops \in Nat
    BY <1>1, <1>22, StopsSame DEF Stops, ProcessStep, RecoveryStep
  <2>2. /\ pc' \in {"next", "complete", "skip"} /\ status' = status /\ mode' = mode /\ pc = "next"
        /\ cur' = cur \/ cur' = cur + 1
    BY <1>1, <1>22 DEF TakeInstall, Taking
  <2> QED
    BY <1>1, <2>1, <2>2 DEF Fresh, Stopped, Control, Open, Terminal, Working, Looping, Failing,
        Undoing, Unwinding, Ending
<1>23. CASE KeepRemoved
  BY <1>1, <1>23 DEF KeepRemoved, Taking, Stops, Stopped, Control, Fresh, Open, Terminal, Working,
      Looping, Failing, Undoing, Unwinding, Ending
<1>24. CASE KeepWritten
  BY <1>1, <1>24 DEF KeepWritten, Taking, Stops, Stopped, Control, Fresh, Open, Terminal, Working,
      Looping, Failing, Undoing, Unwinding, Ending
<1>25. CASE RedoRemoved
  BY <1>1, <1>25 DEF RedoRemoved, Taking, Redo, Entry, Stops, Stopped, Control, Fresh, Open,
      Terminal, Working, Looping, Failing, Undoing, Unwinding, Ending
<1>26. CASE RedoWritten
  BY <1>1, <1>26 DEF RedoWritten, Taking, Redo, Entry, Stops, Stopped, Control, Fresh, Open,
      Terminal, Working, Looping, Failing, Undoing, Unwinding, Ending
<1>27. CASE RedoStarted
  BY <1>1, <1>27 DEF RedoStarted, Taking, Redo, Entry, Stops, Stopped, Control, Fresh, Open,
      Terminal, Working, Looping, Failing, Undoing, Unwinding, Ending
<1>28. CASE InterruptedUndo
  BY <1>1, <1>28 DEF InterruptedUndo, Stops, Stopped, Control, Fresh, Open, Terminal, Working,
      Looping, Failing, Undoing, Unwinding, Ending
<1>29. CASE InterruptedJournal
  BY <1>1, <1>29 DEF InterruptedJournal, Stops, Stopped, Control, Fresh, Open, Terminal, Working,
      Looping, Failing, Undoing, Unwinding, Ending
<1>30. CASE Interrupted
  <2>1. Stops' = Stops /\ Stops \in Nat
    BY <1>1, <1>30, StopsSame DEF Stops, ProcessStep, ExecutorStep, RecoveryStep, StopStep
  <2> QED
    BY <1>1, <1>30, <2>1 DEF Interrupted, Outcome, Stopped, Control, Fresh, Open, Terminal, Working,
        Looping, Failing, Undoing, Unwinding, Ending
<1>31. CASE Discard
  BY <1>1, <1>31 DEF Discard, Stops, Stopped, Control, Fresh, Open, Terminal, Working, Looping,
      Failing, Undoing, Unwinding, Ending
<1>32. CASE Close
  BY <1>1, <1>32 DEF Close, Stops, Stopped, Control, Fresh, Open, Terminal, Working, Looping,
      Failing, Undoing, Unwinding, Ending
<1>33. CASE Recover
  BY <1>1, <1>33 DEF Recover, Stops, Stopped, Control, Fresh, Open, Terminal, Working, Looping,
      Failing, Undoing, Unwinding, Ending
<1>34. CASE Abandon
  BY <1>1, <1>34 DEF Abandon, Stops, Stopped, Control, Fresh, Open, Terminal, Working, Looping,
      Failing, Undoing, Unwinding, Ending
<1>35. CASE Crash
  BY <1>1, <1>35 DEF Crash, Stops, Stopped, Control, Fresh, Open, Terminal, Working, Looping,
      Failing, Undoing, Unwinding, Ending
<1>36. CASE Interrupt
  BY <1>1, <1>36 DEF Interrupt, InAction, Stops, Stopped, Control, Fresh, Open, Terminal, Working,
      Looping, Failing, Undoing, Unwinding, Ending
<1>37. ASSUME NEW p \in Path, UserEdit(p) 
      PROVE
         /\ Stopped'
         /\ Stops' \in Nat /\ Stops \in Nat /\ Stops' >= Stops
         /\ status' # "none"
         /\ status' = "Failed" => Complete \/ (status = "Failed" /\ record' = record /\ incomplete' = incomplete)
         /\ pc' = "cleanup" => Complete
         /\ pc' = "return" => Commit
         /\ Stops' <= 1 /\ Open' /\ status # "none" =>
              /\ Open
              /\ mode = "recover" => /\ mode' = "recover"
                                     /\ \/ cur' = cur /\ (pc' = "next" => pc = "next")
                                        \/ cur' = cur + 1
  BY <1>1, <1>37 DEF UserEdit, Stops, Stopped, Control, Fresh, Open, Terminal, Working, Looping,
      Failing, Undoing, Unwinding, Ending
<1> QED
  BY <1>2, <1>3, <1>4, <1>5, <1>6, <1>7, <1>8, <1>9, <1>10, <1>11, <1>12, <1>13, <1>14, <1>15,
      <1>16, <1>17, <1>18, <1>19, <1>20, <1>21, <1>22, <1>23, <1>24, <1>25, <1>26, <1>27, <1>28,
      <1>29, <1>30, <1>31, <1>32, <1>33, <1>34, <1>35, <1>36, <1>37
  DEF Next, ProcessStep, ExecutorStep, RecoveryStep, StopStep, AbandonStep

\* How a failure comes about, and how it is undone.
LEMMA FailureMoves ==
  ASSUME "journal" \notin Faults, ~MaySplitCommit, IInv, Ownership, Next
  PROVE  pc' \in Unwinding \cup Ending /\ result' = "failed" /\ failedRollbacks' = {} =>
           /\ mode' = mode /\ failedRollbacks = {}
           /\ \/ /\ pc \in Unwinding \cup Ending /\ result = "failed" /\ stack' = stack /\ record' = record
                 /\ cur' = cur \/ mode = "run"
              \/ /\ pc = "unjournal" /\ cur' = cur /\ stack # <<>> /\ stack' = Tail(stack)
                 /\ record' = [record EXCEPT ![Top.action] = Top.prev]
              \/ /\ stack' = stack /\ cur' = cur /\ pc \in Looping \cup Failing
                 /\ \A a \in Action : a # cur => record'[a] = record[a]
                 /\ \/ ~IsFile(cur)
                    \/ pc = "fail" /\ owner = "unknown" /\ record' = record
                    \/ pc = "disown" /\ record'[cur] = owner
                    \/ pc = "next" /\ mode = "recover" /\ Last(cur).state = "skipped" /\ record' = record
<1> USE DEF runVars, diskVars, procVars, envVars, Enter, Goto, Fault, Finish, Execute, AfterBreak, Action
<1>1. /\ plan' = plan /\ cur \in Action /\ cur \in Nat /\ Action = 1..Len(plan) /\ Len(plan) \in Nat
      /\ TypeOK /\ Control /\ Fresh /\ Stopped /\ crashes \in Nat /\ interrupts \in Nat
      /\ record \in [Action -> Records] /\ result \in {"verified", "failed", "human", "drift"}
      /\ status \in {"none", "applying", "Interrupted", "Abandoned"} \cup Terminal
      /\ \A a \in Action : Kind(a) \in ActionKinds /\ (IsFile(a) <=> Kind(a) \in {"write", "remove"})
  BY PlanFixed, SamePlan DEF IInv, Files, Ownership, IsFile, TypeOK, RunType, JournalType,
      ProcessType, CountType, Kind, Action
<1>2. CASE Start
  BY <1>1, <1>2 DEF Start, Control, Open, Working, Looping, Failing, Undoing, Unwinding, Ending
<1>3. CASE Take
  BY <1>1, <1>3 DEF Take, Entry, Control, Open, Working, Looping, Failing, Undoing, Unwinding, Ending
<1>4. CASE RecordDrift
  BY <1>1, <1>4 DEF RecordDrift, Control, Open, Working, Looping, Failing, Undoing, Unwinding, Ending
<1>5. CASE Hold
  BY <1>1, <1>5 DEF Hold, Control, Open, Working, Looping, Failing, Undoing, Unwinding, Ending
<1>6. CASE Prepare
  BY <1>1, <1>6 DEF Prepare, Control, Open, Working, Looping, Failing, Undoing, Unwinding, Ending
<1>7. CASE JournalRunning
  BY <1>1, <1>7 DEF JournalRunning, Control, Open, Working, Looping, Failing, Undoing, Unwinding, Ending
<1>8. CASE Mutate
  BY <1>1, <1>8 DEF Mutate, Control, Open, Working, Looping, Failing, Undoing, Unwinding, Ending
<1>9. CASE Verify
  BY <1>1, <1>9 DEF Verify, Control, Open, Working, Looping, Failing, Undoing, Unwinding, Ending
<1>10. CASE Commit
  BY <1>1, <1>10 DEF Commit, Control, Open, Working, Looping, Failing, Undoing, Unwinding, Ending
<1>11. CASE Return
  BY <1>1, <1>11 DEF Return, Control, Open, Working, Looping, Failing, Undoing, Unwinding, Ending
<1>12. CASE Undo
  BY <1>1, <1>12 DEF Undo, Control, Open, Working, Looping, Failing, Undoing, Unwinding, Ending
<1>13. CASE Fail
  BY <1>1, <1>13 DEF Fail, Control, Open, Working, Looping, Failing, Undoing, Unwinding, Ending
<1>14. CASE Disown
  BY <1>1, <1>14 DEF Disown, Control, Open, Working, Looping, Failing, Undoing, Unwinding, Ending
<1>15. CASE Unwind
  <2>1. stack \in Seq(Pushes)
    BY <1>1 DEF TypeOK, ProcessType
  <2>2. pc = "unjournal" => stack # <<>>
    BY DEF IInv, Stack
  <2> QED
    BY <1>1, <1>15, <2>1, <2>2 DEF Unwind, Control, Open, Working, Looping, Failing, Undoing,
        Unwinding, Ending
<1>16. CASE Unjournal
  <2>1. stack \in Seq(Pushes)
    BY <1>1 DEF TypeOK, ProcessType
  <2>2. pc = "unjournal" => stack # <<>>
    BY DEF IInv, Stack
  <2> QED
    BY <1>1, <1>16, <2>1, <2>2 DEF Unjournal, Control, Open, Working, Looping, Failing, Undoing,
        Unwinding, Ending
<1>17. CASE Unwound
  BY <1>1, <1>17 DEF Unwound, Control, Open, Working, Looping, Failing, Undoing, Unwinding, Ending
<1>18. CASE Skip
  BY <1>1, <1>18 DEF Skip, Control, Open, Working, Looping, Failing, Undoing, Unwinding, Ending
<1>19. CASE Complete
  BY <1>1, <1>19 DEF Complete, Control, Open, Working, Looping, Failing, Undoing, Unwinding, Ending
<1>20. CASE Cleanup
  BY <1>1, <1>20 DEF Cleanup, Control, Open, Working, Looping, Failing, Undoing, Unwinding, Ending
<1>21. CASE TakeSkipped
  BY <1>1, <1>21 DEF TakeSkipped, Taking, Control, Open, Working, Looping, Failing, Undoing,
      Unwinding, Ending
<1>22. CASE TakeInstall
  BY <1>1, <1>22 DEF TakeInstall, Taking, Control, Open, Working, Looping, Failing, Undoing,
      Unwinding, Ending
<1>23. CASE KeepRemoved
  BY <1>1, <1>23 DEF KeepRemoved, Taking, Control, Open, Working, Looping, Failing, Undoing,
      Unwinding, Ending
<1>24. CASE KeepWritten
  BY <1>1, <1>24 DEF KeepWritten, Taking, Control, Open, Working, Looping, Failing, Undoing,
      Unwinding, Ending
<1>25. CASE RedoRemoved
  BY <1>1, <1>25 DEF RedoRemoved, Taking, Redo, Entry, Control, Open, Working, Looping, Failing,
      Undoing, Unwinding, Ending
<1>26. CASE RedoWritten
  BY <1>1, <1>26 DEF RedoWritten, Taking, Redo, Entry, Control, Open, Working, Looping, Failing,
      Undoing, Unwinding, Ending
<1>27. CASE RedoStarted
  BY <1>1, <1>27 DEF RedoStarted, Taking, Redo, Entry, Control, Open, Working, Looping, Failing,
      Undoing, Unwinding, Ending
<1>28. CASE InterruptedUndo
  BY <1>1, <1>28 DEF InterruptedUndo, Control, Open, Working, Looping, Failing, Undoing, Unwinding,
      Ending
<1>29. CASE InterruptedJournal
  BY <1>1, <1>29 DEF InterruptedJournal, Control, Open, Working, Looping, Failing, Undoing,
      Unwinding, Ending
<1>30. CASE Interrupted
  BY <1>1, <1>30 DEF Interrupted, Control, Open, Working, Looping, Failing, Undoing, Unwinding, Ending
<1>31. CASE Discard
  BY <1>1, <1>31 DEF Discard, Control, Open, Working, Looping, Failing, Undoing, Unwinding, Ending
<1>32. CASE Close
  BY <1>1, <1>32 DEF Close, Control, Open, Working, Looping, Failing, Undoing, Unwinding, Ending
<1>33. CASE Recover
  BY <1>1, <1>33 DEF Recover, Control, Open, Working, Looping, Failing, Undoing, Unwinding, Ending
<1>34. CASE Abandon
  BY <1>1, <1>34 DEF Abandon, Control, Open, Working, Looping, Failing, Undoing, Unwinding, Ending
<1>35. CASE Crash
  BY <1>1, <1>35 DEF Crash, Control, Open, Working, Looping, Failing, Undoing, Unwinding, Ending
<1>36. CASE Interrupt
  BY <1>1, <1>36 DEF Interrupt, InAction, Control, Open, Working, Looping, Failing, Undoing,
      Unwinding, Ending
<1>37. ASSUME NEW p \in Path, UserEdit(p) 
      PROVE
         pc' \in Unwinding \cup Ending /\ result' = "failed" /\ failedRollbacks' = {} =>
           /\ mode' = mode /\ failedRollbacks = {}
           /\ \/ /\ pc \in Unwinding \cup Ending /\ result = "failed" /\ stack' = stack /\ record' = record
                 /\ cur' = cur \/ mode = "run"
              \/ /\ pc = "unjournal" /\ cur' = cur /\ stack # <<>> /\ stack' = Tail(stack)
                 /\ record' = [record EXCEPT ![Top.action] = Top.prev]
              \/ /\ stack' = stack /\ cur' = cur /\ pc \in Looping \cup Failing
                 /\ \A a \in Action : a # cur => record'[a] = record[a]
                 /\ \/ ~IsFile(cur)
                    \/ pc = "fail" /\ owner = "unknown" /\ record' = record
                    \/ pc = "disown" /\ record'[cur] = owner
                    \/ pc = "next" /\ mode = "recover" /\ Last(cur).state = "skipped" /\ record' = record
  BY <1>1, <1>37 DEF UserEdit, Control, Open, Working, Looping, Failing, Undoing, Unwinding, Ending
<1> QED
  BY <1>2, <1>3, <1>4, <1>5, <1>6, <1>7, <1>8, <1>9, <1>10, <1>11, <1>12, <1>13, <1>14, <1>15,
      <1>16, <1>17, <1>18, <1>19, <1>20, <1>21, <1>22, <1>23, <1>24, <1>25, <1>26, <1>27, <1>28,
      <1>29, <1>30, <1>31, <1>32, <1>33, <1>34, <1>35, <1>36, <1>37
  DEF Next, ProcessStep, ExecutorStep, RecoveryStep, StopStep, AbandonStep

\* A step changes the record and the journal of the action in hand together.
LEMMA AheadKeeps == ASSUME ~MaySplitCommit, IInv, Ownership, Next PROVE Ahead'
<1>1. /\ plan' = plan /\ Action' = Action /\ Action = 1..Len(plan) /\ Len(plan) \in Nat /\ cur \in Action
      /\ TypeOK /\ Control /\ Stack /\ Ahead /\ InHand /\ Previous /\ Unreached /\ Stopped
      /\ \A a \in Action : /\ IsFile(a)' = IsFile(a) /\ Prior(a)' = Prior(a) /\ Applied(a)' = Applied(a)
                           /\ IsFile(a) => Prior(a) # Applied(a) /\ Prior(a) # "unknown" /\ Kind(a) \notin {"human", "drift", "install"}
  BY PlanFixed, SamePlan, PlanFacts DEF IInv, Journals, Ownership, TypeOK, RunType, IsFile, Prior,
      Applied, Kind
<1>2. CASE status = "none"
  <2>1. Start
    BY <1>1, <1>2, Begins DEF IInv, Files
  <2>2. \A a \in Action : journal'[a] = <<Event("pending", 0, FALSE, "none")>> /\ record' = record /\ record[a] = Prior(a)
    BY <1>1, <1>2, <2>1 DEF Start, Ownership, Unrecorded
  <2>3. \A a \in Action : Last(a)'.state = "pending" /\ WasPrior(a)'
    BY <1>1, <2>2 DEF Last, Event, WasPrior
  <2> QED
    BY <1>1, <2>2, <2>3 DEF Ahead, Agrees
<1>3. ASSUME status # "none", Stops' <= 1, Open', NEW a \in Action, IsFile(a),
             mode' = "recover" => a > cur' \/ (a = cur' /\ pc' = "next")
      PROVE  Agrees(a)'
  <2>1. Open /\ Stops \in Nat /\ Stops <= 1 /\ (mode = "recover" => a > cur \/ (a = cur /\ pc = "next"))
    BY <1>1, <1>3, StopMoves
  <2>2. Agrees(a)
    BY <1>3, <2>1, <1>1 DEF Ahead
  <2>3. a = cur /\ pc \in Executed => /\ owner = "unknown" /\ record[a] = Prior(a)
    <3>1. a = cur /\ pc \in Executed => mode = "run"
      BY <1>1, <2>1 DEF Control, Executed, Working, Looping, Failing, Undoing
    <3> QED
      BY <1>1, <1>3, <2>1, <3>1 DEF InHand
  <2>4. pc = "commit" /\ a = cur => Known(a) = Prior(a)
    BY <1>1, <2>2, <2>3, KnownPrior DEF Agrees, Executed, Looping
  <2>5. WasPrior(a)'
    BY <1>1, <1>3, <2>2, <2>4, WasSteps DEF Agrees
  <2>6. pc = "disown" => a # cur
    BY <1>1, <2>3 DEF Control, Executed, Failing
  <2>7. pc = "unjournal" /\ stack # <<>> /\ a = Top.action => Top.prev = Prior(a)
    BY <1>1, <2>1, TopFacts DEF Previous
  <2>8. pc = "skip" /\ a = cur + 1 => Last(a).state = "pending" /\ record[a] = Prior(a)
    BY <1>1, <2>2 DEF Control, Unreached, Agrees, Working, Ending
  <2>9. status' # "Converged"
    BY <1>3 DEF Open
  <2>10. CASE pc = "commit" /\ a = cur /\ record'[a] = Applied(a) /\ Last(a)' = Event("succeeded", attempt, Reference, Known(a))
    BY <1>1, <2>4, <2>5, <2>10 DEF Agrees, Event
  <2>11. CASE Last(a)' = Last(a) /\ record'[a] = record[a]
    BY <1>1, <2>2, <2>5, <2>11 DEF Agrees
  <2>12. CASE Last(a)'.state \notin {"succeeded"} /\ record'[a] = Prior(a)
    BY <1>1, <2>5, <2>12 DEF Agrees
  <2>13. CASE record'[a] = record[a] /\ (pc \in {"commit", "unjournal"} => Last(a)' = Last(a)) /\ Last(a)' # Last(a)
    <3>1. \/ a = cur /\ pc \in {"running", "fail", "interrupted-journal", "disown"} /\ Last(a)'.state \in {"running", "failed", "rolled-back"}
          \/ a = cur + 1 /\ pc = "skip" /\ Last(a)'.state = "skipped"
      BY <1>1, <1>3, <2>13, StateSteps DEF Control, Looping
    <3>2. record[a] = Prior(a)
      BY <2>3, <2>8, <3>1 DEF Executed, Looping, Failing, Undoing
    <3> QED
      BY <2>12, <2>13, <3>1, <3>2
  <2>14. CASE pc = "unjournal" /\ stack # <<>> /\ a = Top.action /\ record'[a] = Top.prev /\ Last(a)'.state = "rolled-back"
    BY <2>7, <2>12, <2>14
  <2> QED
    BY <1>1, <1>3, <2>6, <2>9, <2>10, <2>11, <2>13, <2>14, RecordSteps
<1> QED
  BY <1>1, <1>2, <1>3 DEF Ahead

\* An action is taken in hand with the record the journal knows.
LEMMA InHandKeeps == ASSUME ~MaySplitCommit, IInv, Ownership, Next PROVE InHand'
<1>1. /\ plan' = plan /\ Action' = Action /\ cur \in Action /\ TypeOK /\ Control /\ Stack /\ Ahead /\ InHand
      /\ \A a \in Action : IsFile(a)' = IsFile(a) /\ Prior(a)' = Prior(a)
  BY PlanFixed, SamePlan DEF IInv, Ownership, Prior
<1>2. ASSUME Stops' <= 1, pc' \in Executed, NEW a \in Action, a = cur', IsFile(a)
      PROVE  WasPrior(a)' /\ (owner' = Prior(a) \/ (owner' = "unknown" /\ record'[a] = Prior(a))) /\ (mode' = "run" => owner' = "unknown")
  <2>1. Stops <= 1 /\ cur' = cur /\ mode' = mode /\ record' = record
    BY <1>2, ExecutedMoves, StopMoves
  <2>2. journal' = journal => WasPrior(a)' = WasPrior(a)
    BY <1>1 DEF WasPrior
  <2>3. CASE pc \in Executed /\ owner' = owner /\ (pc = "commit" => journal' = journal)
    <3>1. status # "none"
      BY <1>1, <2>3 DEF Control, Open, Executed, Working, Looping, Failing, Undoing
    <3>2. WasPrior(a)
      BY <1>1, <1>2, <2>1, <2>3 DEF InHand
    <3>3. WasPrior(a)'
      BY <1>1, <2>2, <2>3, <3>1, <3>2, WasSteps
    <3> QED
      BY <1>1, <1>2, <2>1, <2>3, <3>3 DEF InHand
  <2>4. CASE /\ pc = "next" /\ journal' = journal
             /\ \/ owner' = "unknown" /\ Last(cur).state # "succeeded"
                \/ mode = "recover" /\ owner' = Last(cur).was /\ Last(cur).state = "succeeded"
    <3>1. Open /\ Agrees(a)
      BY <1>1, <1>2, <2>1, <2>4 DEF Control, Ahead, Working, Looping
    <3> QED
      BY <1>2, <2>1, <2>2, <2>4, <3>1 DEF Agrees
  <2> QED
    BY <1>2, <2>3, <2>4, ExecutedMoves
<1> QED
  BY <1>1, <1>2 DEF InHand

\* A commit hands on the record it replaced.
LEMMA ReturnedKeeps == ASSUME ~MaySplitCommit, IInv, Ownership, Next PROVE Returned'
<1>1. /\ plan' = plan /\ Action' = Action /\ cur \in Action /\ TypeOK /\ InHand
      /\ \A a \in Action : IsFile(a)' = IsFile(a) /\ Prior(a)' = Prior(a) /\ Prior(a) # "unknown"
  BY PlanFixed, SamePlan DEF IInv, Ownership, Prior
<1>2. ASSUME Stops' <= 1, pc' = "return", NEW a \in Action, a = cur', IsFile(a) PROVE owner' = Prior(a)
  <2>1. Commit /\ Stops <= 1
    BY <1>2, StopMoves
  <2>2. pc = "commit" /\ cur' = cur /\ owner' = IF owner = "unknown" THEN Known(cur) ELSE owner
    BY <1>2, <2>1 DEF Commit, Goto
  <2>3. WasPrior(a) /\ (owner = Prior(a) \/ (owner = "unknown" /\ record[a] = Prior(a)))
    BY <1>1, <1>2, <2>1, <2>2 DEF InHand, Executed, Looping
  <2> QED
    BY <1>1, <1>2, <2>2, <2>3, KnownPrior
<1> QED
  BY <1>1, <1>2 DEF Returned

\* A completed action is stacked with the record it had before the run.
LEMMA PreviousKeeps == ASSUME ~MaySplitCommit, IInv, Ownership, Next PROVE Previous'
<1>1. /\ plan' = plan /\ Action' = Action /\ cur \in Action /\ TypeOK /\ Control /\ Ahead /\ Returned /\ Previous
      /\ \A a \in Action : Prior(a)' = Prior(a)
  BY PlanFixed, SamePlan DEF IInv, Ownership, Prior
<1>2. ASSUME Stops' <= 1, NEW i \in DOMAIN stack', NEW a \in Action, a = stack'[i].action PROVE stack'[i].prev = Prior(a)
  <2>1. Stops <= 1
    BY <1>2, StopMoves
  <2>2. pc = "next" /\ IsFile(cur) => Agrees(cur)
    BY <1>1, <2>1 DEF Ahead, Control, Working, Looping
  <2> QED
    BY <1>1, <1>2, <2>1, <2>2, StackMembers DEF Previous, Returned, Agrees
<1> QED
  BY <1>1, <1>2 DEF Previous

\* A rollback hands the record back with the journaled event.
LEMMA HandedKeeps ==
  ASSUME "journal" \notin Faults, ~MaySplitCommit, IInv, Ownership, Next
  PROVE  Handed'
<1>1. /\ plan' = plan /\ Action' = Action /\ Action \subseteq Nat /\ cur \in Action /\ TypeOK /\ Control /\ Stack /\ Unreached
      /\ Ahead /\ InHand /\ Previous /\ Handed
      /\ \A a \in Action : IsFile(a)' = IsFile(a) /\ Prior(a)' = Prior(a) /\ Prior(a) # "unknown"
  BY PlanFixed, SamePlan DEF IInv, Journals, Ownership, Prior
<1>2. ASSUME Stops' <= 1, pc' \in Unwinding \cup Ending, result' = "failed", failedRollbacks' = {},
             NEW a \in Action, IsFile(a), mode' = "run" \/ a <= cur'
      PROVE  record'[a] = Prior(a) \/ Stacked(a)'
  <2>1. Stops <= 1 /\ mode' = mode /\ failedRollbacks = {}
    BY <1>2, StopMoves, FailureMoves
  <2>2. stack' = stack => Stacked(a)' = Stacked(a)
    BY DEF Stacked
  <2>3. CASE /\ pc \in Unwinding \cup Ending /\ result = "failed" /\ stack' = stack /\ record' = record
             /\ cur' = cur \/ mode = "run"
    BY <1>1, <1>2, <2>1, <2>2, <2>3 DEF Handed
  <2>4. CASE /\ pc = "unjournal" /\ cur' = cur /\ stack # <<>> /\ stack' = Tail(stack)
             /\ record' = [record EXCEPT ![Top.action] = Top.prev]
    <3>1. record[a] = Prior(a) \/ Stacked(a)
      BY <1>1, <1>2, <2>1, <2>4 DEF Handed, Unwinding, Control
    <3>2. Top = stack[1] /\ Top.action \in Action /\ 1 \in DOMAIN stack
      BY <1>1, <2>4, TopFacts
    <3>3. CASE a = Top.action
      BY <1>1, <2>1, <2>4, <3>2, <3>3 DEF Previous, TypeOK, JournalType
    <3>4. CASE a # Top.action
      <4>1. record'[a] = record[a]
        BY <1>1, <2>4, <3>4 DEF TypeOK, JournalType
      <4>2. ASSUME Stacked(a) PROVE Stacked(a)'
        <5>1. PICK k \in DOMAIN stack : stack[k].action = a
          BY <4>2 DEF Stacked
        <5>2. /\ DOMAIN stack = 1..Len(stack) /\ Len(stack) \in Nat \ {0} /\ DOMAIN stack' = 1..(Len(stack) - 1)
              /\ \A i \in 1..(Len(stack) - 1) : stack'[i] = stack[i + 1]
          BY <1>1, <2>4, Popped DEF TypeOK, ProcessType
        <5>3. k # 1
          BY <3>2, <3>4, <5>1
        <5>4. k - 1 \in DOMAIN stack' /\ stack'[k - 1] = stack[k]
          BY <5>2, <5>3
        <5> QED
          BY <5>1, <5>4 DEF Stacked
      <4> QED
        BY <3>1, <4>1, <4>2
    <3> QED
      BY <3>3, <3>4
  <2>5. CASE /\ stack' = stack /\ cur' = cur /\ pc \in Looping \cup Failing
             /\ \A b \in Action : b # cur => record'[b] = record[b]
             /\ \/ ~IsFile(cur)
                \/ pc = "fail" /\ owner = "unknown" /\ record' = record
                \/ pc = "disown" /\ record'[cur] = owner
                \/ pc = "next" /\ mode = "recover" /\ Last(cur).state = "skipped" /\ record' = record
    <3>0. Open
      BY <1>1, <2>5 DEF Control, Working
    <3>1. CASE a < cur
      BY <1>1, <1>2, <2>2, <2>5, <3>1 DEF Stack
    <3>2. CASE a = cur
      <4>1. pc \in {"fail", "disown"} => owner = Prior(a) \/ (owner = "unknown" /\ record[a] = Prior(a))
        BY <1>1, <1>2, <2>1, <3>2 DEF InHand, Executed, Failing
      <4>2. pc = "disown" => owner # "unknown"
        BY <1>1 DEF Control
      <4>3. pc = "next" /\ Last(cur).state = "skipped" => record[a] = Prior(a)
        BY <1>1, <1>2, <2>1, <3>0, <3>2 DEF Ahead, Agrees
      <4> QED
        BY <1>1, <1>2, <2>5, <3>2, <4>1, <4>2, <4>3
    <3>3. CASE a > cur
      <4>1. mode = "run" /\ Agrees(a)
        BY <1>1, <1>2, <2>1, <2>5, <3>0, <3>3 DEF Ahead
      <4>2. Last(a).state = "pending"
        BY <1>1, <2>5, <3>3, <4>1 DEF Unreached, Working
      <4> QED
        BY <2>5, <3>3, <1>1, <4>1, <4>2 DEF Agrees
    <3> QED
      BY <1>1, <3>1, <3>2, <3>3
  <2> QED
    BY <1>2, <2>3, <2>4, <2>5, FailureMoves
<1> QED
  BY <1>1, <1>2 DEF Handed

\* A complete rollback of a failed run leaves every record as before the run.
LEMMA FailedRecords ==
  ASSUME IInv, Ownership, Complete, Outcome = "Failed", failedRollbacks = {}, Stops <= 1
  PROVE  record' = record /\ \A a \in Action : IsFile(a) /\ (mode = "run" \/ a <= cur) => record[a] = Prior(a)
<1>1. TypeOK /\ Control /\ Handed /\ pc = "complete" /\ result = "failed" /\ stack = <<>>
  <2>1. result = "failed" /\ pc = "complete"
    BY DEF Complete, Outcome
  <2> QED
    BY <2>1 DEF IInv, Ownership, Control, Ending
<1>2. record' = record
  BY <1>1 DEF Complete, FinalRecords, TypeOK, JournalType
<1>3. \A a \in Action : ~Stacked(a)
  BY <1>1 DEF Stacked
<1> QED
  BY <1>1, <1>2, <1>3 DEF Handed, Ending

\* Every step keeps the ownership of the files.
LEMMA OwnershipKeeps ==
  ASSUME "journal" \notin Faults, ~MaySplitCommit, IInv, Ownership, Next
  PROVE  Ownership'
<1>1. plan' = plan /\ Action' = Action /\ Action \subseteq Nat /\ cur \in Action /\ \A a \in Action : IsFile(a)' = IsFile(a) /\ Prior(a)' = Prior(a)
  BY PlanFixed, SamePlan DEF IInv, Prior
<1>2. Complete => status' = Outcome /\ mode' = mode /\ cur' = cur /\ pc = "complete" /\ failedRollbacks' = failedRollbacks
                  /\ (incomplete' <=> Outcome = "Failed" /\ failedRollbacks # {})
  BY DEF Complete, Goto
<1>3. FailureRestoresRecords'
  <2> SUFFICES ASSUME pc' = "cleanup", status' = "Failed", failedRollbacks' = {}, Stops' <= 1,
                      NEW a \in Action, IsFile(a), mode' = "run" \/ a <= cur'
               PROVE  record'[a] = Prior(a)
    BY <1>1 DEF FailureRestoresRecords, Stops
  <2>1. Complete /\ Stops <= 1
    BY StopMoves
  <2> QED
    BY <1>2, <2>1, FailedRecords
<1>4. Ended'
  <2> SUFFICES ASSUME status' = "Failed", ~incomplete', Stops' = 0, NEW a \in Action, IsFile(a)
               PROVE  record'[a] = Prior(a)
    BY <1>1 DEF Ended
  <2>0. Stops = 0
    BY StopMoves
  <2>1. CASE status = "Failed" /\ record' = record /\ incomplete' = incomplete
    BY <2>0, <2>1 DEF Ownership, Ended
  <2>2. CASE Complete
    <3>1. mode = "run"
      BY <1>2, <2>0, <2>2 DEF IInv, Ownership, Control, Stopped, Working, Ending
    <3> QED
      BY <1>2, <2>0, <2>2, <3>1, FailedRecords
  <2> QED
    BY <2>1, <2>2, StopMoves
<1>5. Unrecorded'
  BY StopMoves DEF Unrecorded
<1> QED
  BY <1>3, <1>4, <1>5, StopMoves, AheadKeeps, InHandKeeps, ReturnedKeeps, PreviousKeeps, HandedKeeps
      DEF Ownership

\* The outcomes hold of every run.
LEMMA OutcomesHold == ASSUME NoInstalls, ~MaySplitCommit PROVE Spec => []Outcomes
<1>1. Init => Outcomes
  <2> SUFFICES ASSUME Init PROVE Outcomes
    OBVIOUS
  <2>1. /\ status = "none" /\ pc = "idle" /\ stack = <<>> /\ ready = FALSE
        /\ \A a \in Action : record[a] = Prior(a) /\ ~HasReference(a)
    BY DEF Init, HasReference
  <2> QED
    BY <2>1 DEF Outcomes, Succeeded, Settled, Settling, Between, Unreachable, Held, Executed,
        Looping, Failing, Undoing, Ending
<1>2. IInv /\ Outcomes /\ [Next]_vars => Outcomes'
  <2>1. ASSUME IInv, Outcomes, UNCHANGED vars PROVE Outcomes'
    <3>1. /\ plan' = plan /\ status' = status /\ journal' = journal /\ pc' = pc /\ result' = result /\ cur' = cur
          /\ record' = record /\ file' = file /\ before' = before /\ stack' = stack /\ ready' = ready
          /\ \A a : ViewOf(a)' = ViewOf(a)
      BY <2>1, SameView DEF vars, runVars, diskVars, procVars, envVars
    <3> QED
      BY <2>1, <3>1 DEF Outcomes, Succeeded, Settled, Settling, Between, Unreachable, Held, Behind,
          Manual, HasReference,
         IsFile, Kind, Target, Prior, Applied, Intended, Last, Action
  <2> QED
    BY <2>1, OutcomesKeep
<1> QED
  BY <1>1, <1>2, Always, PTL DEF Spec

\* The ownership holds of every run.
LEMMA OwnershipHolds == ASSUME "journal" \notin Faults, ~MaySplitCommit PROVE Spec => []Ownership
<1>1. Init => Ownership
  <2> SUFFICES ASSUME Init PROVE Ownership
    OBVIOUS
  <2>1. /\ status = "none" /\ pc = "idle" /\ stack = <<>>
        /\ \A a \in Action : record[a] = Prior(a)
    BY DEF Init
  <2> QED
    BY <2>1 DEF Ownership, Unrecorded, Stopped, Ahead, InHand, Returned, Previous, Handed, Ended,
        FailureRestoresRecords, Open,
       Executed, Looping, Failing, Undoing, Unwinding, Ending
<1>2. IInv /\ Ownership /\ [Next]_vars => Ownership'
  <2>1. ASSUME IInv, Ownership, UNCHANGED vars PROVE Ownership'
    <3>1. /\ plan' = plan /\ status' = status /\ journal' = journal /\ pc' = pc /\ result' = result /\ cur' = cur
          /\ record' = record /\ stack' = stack /\ mode' = mode /\ owner' = owner /\ incomplete' = incomplete
          /\ failedRollbacks' = failedRollbacks /\ crashes' = crashes /\ interrupts' = interrupts
          /\ Stops' = Stops
      BY <2>1 DEF vars, runVars, diskVars, procVars, envVars, Stops
    <3>2. /\ Action' = Action
          /\ \A a \in Action : IsFile(a)' = IsFile(a) /\ Agrees(a)' = Agrees(a) /\ WasPrior(a)' = WasPrior(a)
                               /\ Prior(a)' = Prior(a) /\ Stacked(a)' = Stacked(a)
      BY <3>1 DEF Action, IsFile, Kind, Agrees, WasPrior, Prior, Applied, Last, Stacked
    <3>3. Unrecorded' /\ Stopped' /\ Ahead' /\ InHand' /\ Returned'
      BY <2>1, <3>1, <3>2 DEF Ownership, Unrecorded, Stopped, Ahead, InHand, Returned, Open
    <3>4. Previous' /\ Handed' /\ Ended'
      BY <2>1, <3>1, <3>2 DEF Ownership, Previous, Handed, Ended
    <3>5. FailureRestoresRecords'
      BY <2>1, <3>1, <3>2 DEF Ownership, FailureRestoresRecords
    <3> QED
      BY <3>3, <3>4, <3>5 DEF Ownership
  <2> QED
    BY <2>1, OwnershipKeeps
<1> QED
  BY <1>1, <1>2, Always, PTL DEF Spec

\* The rollback of a failed run, or of its first recovery, reinstates the record
\* of every file it reports rolled back, where no journal write fails.
THEOREM FailuresRestoreRecords == ASSUME "journal" \notin Faults, ~MaySplitCommit PROVE Spec => []FailureRestoresRecords
<1>1. Ownership => FailureRestoresRecords
  BY DEF Ownership
<1> QED
  BY <1>1, OwnershipHolds, PTL

\* A run that ended converged, waiting for a human, or failed without having been
\* stopped has no record of a content its file does not have.
THEOREM RecordsAreTrue ==
  ASSUME "journal" \notin Faults, NoInstalls, ~MaySplitCommit PROVE Spec => []RecordsTellTheTruth
<1>1. IInv /\ Outcomes /\ Ownership => RecordsTellTheTruth
  <2> SUFFICES ASSUME IInv, Outcomes, Ownership, status \in Terminal, ~incomplete, status = "Failed" => Stops = 0,
                      NEW a \in Action, Kind(a) = "write", record[a] = "new"
               PROVE  file[Target(a)] = "desired"
    BY DEF RecordsTellTheTruth, Stops
  <2>1. IsFile(a) /\ Prior(a) # "new" /\ Intended(a) = "desired" /\ Final(a)
    <3>1. \A b \in Action : b > a => Target(b) # Target(a)
      BY Pairs, PlanFacts DEF IInv, TypeOK, RunType
    <3> QED
      BY <3>1 DEF IsFile, Prior, Intended, Final
  <2>2. CASE status = "Failed"
    BY <2>1, <2>2 DEF Ownership, Ended
  <2>3. CASE status = "Converged"
    BY <2>1, <2>3 DEF IInv, ConvergedIsDesired, Final
  <2>4. CASE status \in {"HumanActionRequired", "FollowerDrift"}
    <3>1. ViewOf(a) \in {"before", "after"}
      BY <2>1, <2>4 DEF Outcomes, Held
    <3>2. ~\E b \in Action : b > a /\ Target(b) = Target(a)
      BY <2>1 DEF Final
    <3> QED
      BY <2>1, <3>1, <3>2 DEF ViewOf
  <2> QED
    BY <2>2, <2>3, <2>4 DEF Terminal
<1> QED
  BY <1>1, Always, OutcomesHold, OwnershipHolds, PTL

-----------------------------------------------------------------------------
(* The run as one transaction.                                             *)

\* A run is begun, worked on, completed or closed; nothing changes afterwards.
LEMMA TransactionMoves ==
  ASSUME IInv, Next
  PROVE  \/ Start /\ status = "none" /\ Open' /\ UNCHANGED <<file, before, record>>
         \/ Open /\ Open'
         \/ Complete /\ Open /\ UNCHANGED <<file, before>>
         \/ Close /\ Open /\ status' = "Abandoned" /\ UNCHANGED <<file, before, record>>
         \/ ~Open /\ status # "none" /\ UNCHANGED <<status, incomplete, file, before, record, crashes, interrupts>>
<1> USE DEF runVars, diskVars, procVars, envVars, Enter, Goto, Fault, Finish, Execute, AfterBreak, Action
<1>1. Control /\ Fresh /\ status \in {"none", "applying", "Interrupted", "Abandoned"} \cup Terminal
      /\ result \in {"verified", "failed", "human", "drift"}
  BY DEF IInv, Files, TypeOK, RunType, ProcessType
<1>2. CASE Start
  BY <1>1, <1>2 DEF Start, Control, Fresh, Open, Terminal, Working, Looping, Failing, Undoing,
      Unwinding, Ending
<1>3. CASE Take
  BY <1>1, <1>3 DEF Take, Entry, Control, Fresh, Open, Terminal, Working, Looping, Failing, Undoing,
      Unwinding, Ending
<1>4. CASE RecordDrift
  BY <1>1, <1>4 DEF RecordDrift, Control, Fresh, Open, Terminal, Working, Looping, Failing, Undoing,
      Unwinding, Ending
<1>5. CASE Hold
  BY <1>1, <1>5 DEF Hold, Control, Fresh, Open, Terminal, Working, Looping, Failing, Undoing,
      Unwinding, Ending
<1>6. CASE Prepare
  BY <1>1, <1>6 DEF Prepare, Control, Fresh, Open, Terminal, Working, Looping, Failing, Undoing,
      Unwinding, Ending
<1>7. CASE JournalRunning
  BY <1>1, <1>7 DEF JournalRunning, Control, Fresh, Open, Terminal, Working, Looping, Failing,
      Undoing, Unwinding, Ending
<1>8. CASE Mutate
  BY <1>1, <1>8 DEF Mutate, Control, Fresh, Open, Terminal, Working, Looping, Failing, Undoing,
      Unwinding, Ending
<1>9. CASE Verify
  BY <1>1, <1>9 DEF Verify, Control, Fresh, Open, Terminal, Working, Looping, Failing, Undoing,
      Unwinding, Ending
<1>10. CASE Commit
  BY <1>1, <1>10 DEF Commit, Control, Fresh, Open, Terminal, Working, Looping, Failing, Undoing,
      Unwinding, Ending
<1>11. CASE Return
  BY <1>1, <1>11 DEF Return, Control, Fresh, Open, Terminal, Working, Looping, Failing, Undoing,
      Unwinding, Ending
<1>12. CASE Undo
  BY <1>1, <1>12 DEF Undo, Control, Fresh, Open, Terminal, Working, Looping, Failing, Undoing,
      Unwinding, Ending
<1>13. CASE Fail
  BY <1>1, <1>13 DEF Fail, Control, Fresh, Open, Terminal, Working, Looping, Failing, Undoing,
      Unwinding, Ending
<1>14. CASE Disown
  BY <1>1, <1>14 DEF Disown, Control, Fresh, Open, Terminal, Working, Looping, Failing, Undoing,
      Unwinding, Ending
<1>15. CASE Unwind
  BY <1>1, <1>15 DEF Unwind, Control, Fresh, Open, Terminal, Working, Looping, Failing, Undoing,
      Unwinding, Ending
<1>16. CASE Unjournal
  BY <1>1, <1>16 DEF Unjournal, Control, Fresh, Open, Terminal, Working, Looping, Failing, Undoing,
      Unwinding, Ending
<1>17. CASE Unwound
  BY <1>1, <1>17 DEF Unwound, Control, Fresh, Open, Terminal, Working, Looping, Failing, Undoing,
      Unwinding, Ending
<1>18. CASE Skip
  BY <1>1, <1>18 DEF Skip, Control, Fresh, Open, Terminal, Working, Looping, Failing, Undoing,
      Unwinding, Ending
<1>19. CASE Complete
  BY <1>1, <1>19 DEF Complete, Control, Fresh, Open, Terminal, Working, Looping, Failing, Undoing,
      Unwinding, Ending
<1>20. CASE Cleanup
  BY <1>1, <1>20 DEF Cleanup, Control, Fresh, Open, Terminal, Working, Looping, Failing, Undoing,
      Unwinding, Ending
<1>21. CASE TakeSkipped
  BY <1>1, <1>21 DEF TakeSkipped, Taking, Taking, Control, Fresh, Open, Terminal, Working, Looping,
      Failing, Undoing, Unwinding, Ending
<1>22. CASE TakeInstall
  BY <1>1, <1>22 DEF TakeInstall, Taking, Taking, Control, Fresh, Open, Terminal, Working, Looping,
      Failing, Undoing, Unwinding, Ending
<1>23. CASE KeepRemoved
  BY <1>1, <1>23 DEF KeepRemoved, Taking, Taking, Control, Fresh, Open, Terminal, Working, Looping,
      Failing, Undoing, Unwinding, Ending
<1>24. CASE KeepWritten
  BY <1>1, <1>24 DEF KeepWritten, Taking, Taking, Control, Fresh, Open, Terminal, Working, Looping,
      Failing, Undoing, Unwinding, Ending
<1>25. CASE RedoRemoved
  BY <1>1, <1>25 DEF RedoRemoved, Taking, Redo, Entry, Taking, Redo, Control, Fresh, Open, Terminal,
      Working, Looping, Failing, Undoing, Unwinding, Ending
<1>26. CASE RedoWritten
  BY <1>1, <1>26 DEF RedoWritten, Taking, Redo, Entry, Taking, Redo, Control, Fresh, Open, Terminal,
      Working, Looping, Failing, Undoing, Unwinding, Ending
<1>27. CASE RedoStarted
  BY <1>1, <1>27 DEF RedoStarted, Taking, Redo, Entry, Taking, Redo, Control, Fresh, Open, Terminal,
      Working, Looping, Failing, Undoing, Unwinding, Ending
<1>28. CASE InterruptedUndo
  BY <1>1, <1>28 DEF InterruptedUndo, Control, Fresh, Open, Terminal, Working, Looping, Failing,
      Undoing, Unwinding, Ending
<1>29. CASE InterruptedJournal
  BY <1>1, <1>29 DEF InterruptedJournal, Control, Fresh, Open, Terminal, Working, Looping, Failing,
      Undoing, Unwinding, Ending
<1>30. CASE Interrupted
  BY <1>1, <1>30 DEF Interrupted, Control, Fresh, Open, Terminal, Working, Looping, Failing,
      Undoing, Unwinding, Ending
<1>31. CASE Discard
  BY <1>1, <1>31 DEF Discard, Control, Fresh, Open, Terminal, Working, Looping, Failing, Undoing,
      Unwinding, Ending
<1>32. CASE Close
  BY <1>1, <1>32 DEF Close, Control, Fresh, Open, Terminal, Working, Looping, Failing, Undoing,
      Unwinding, Ending
<1>33. CASE Recover
  BY <1>1, <1>33 DEF Recover, Control, Fresh, Open, Terminal, Working, Looping, Failing, Undoing,
      Unwinding, Ending
<1>34. CASE Abandon
  BY <1>1, <1>34 DEF Abandon, Control, Fresh, Open, Terminal, Working, Looping, Failing, Undoing,
      Unwinding, Ending
<1>35. CASE Crash
  BY <1>1, <1>35 DEF Crash, Control, Fresh, Open, Terminal, Working, Looping, Failing, Undoing,
      Unwinding, Ending
<1>36. CASE Interrupt
  BY <1>1, <1>36 DEF Interrupt, InAction, Control, Fresh, Open, Terminal, Working, Looping, Failing,
      Undoing, Unwinding, Ending
<1>37. ASSUME NEW p \in Path, UserEdit(p) 
      PROVE
         \/ Start /\ status = "none" /\ Open' /\ UNCHANGED <<file, before, record>>
         \/ Open /\ Open'
         \/ Complete /\ Open /\ UNCHANGED <<file, before>>
         \/ Close /\ Open /\ status' = "Abandoned" /\ UNCHANGED <<file, before, record>>
         \/ ~Open /\ status # "none" /\ UNCHANGED <<status, incomplete, file, before, record, crashes, interrupts>>
  BY <1>1, <1>37 DEF UserEdit, Control, Fresh, Open, Terminal, Working, Looping, Failing, Undoing,
      Unwinding, Ending
<1> QED
  BY <1>2, <1>3, <1>4, <1>5, <1>6, <1>7, <1>8, <1>9, <1>10, <1>11, <1>12, <1>13, <1>14, <1>15,
      <1>16, <1>17, <1>18, <1>19, <1>20, <1>21, <1>22, <1>23, <1>24, <1>25, <1>26, <1>27, <1>28,
      <1>29, <1>30, <1>31, <1>32, <1>33, <1>34, <1>35, <1>36, <1>37
  DEF Next, ProcessStep, ExecutorStep, RecoveryStep, StopStep, AbandonStep

\* The steps that keep a view.
LEMMA SameViewed ==
  ASSUME IInv, Next, file' = file, before' = before, \A a \in Action : IsFile(a) => record'[a] = record[a]
  PROVE  Viewed' = Viewed
<1>1. plan' = plan /\ FileActions' = FileActions /\ FileActions \subseteq Action
  BY PlanFixed DEF FileActions, Action, IsFile, Kind
<1>2. \A a \in FileActions : ViewOf(a)' = ViewOf(a)
  BY <1>1, PlanFixed DEF FileActions, ViewOf, Action, Target, Prior, Applied, Intended, Kind
<1> QED
  BY <1>1, <1>2 DEF Viewed

\* A view is one of the three.
LEMMA ViewType == \A a : ViewOf(a) \in {"before", "after", "between"}
BY DEF ViewOf

\* The transaction begins with every resource as before.
LEMMA TransactionBegins == Init => Phase = "none" /\ \A a \in FileActions : Viewed[a] = "before"
<1> SUFFICES ASSUME Init PROVE Phase = "none" /\ \A a \in FileActions : Viewed[a] = "before"
  OBVIOUS
<1>1. /\ status = "none" /\ file = before /\ plan \in Plans
      /\ \A a \in Action : record[a] = Prior(a)
  BY DEF Init
<1>2. \A a \in FileActions : Applied(a) # Prior(a)
  BY <1>1, PlanFacts DEF FileActions, Applied, Prior, IsFile
<1>3. \A a \in FileActions : ViewOf(a) = "before"
  BY <1>1, <1>2 DEF FileActions, ViewOf
<1> QED
  BY <1>1, <1>3 DEF Phase, Viewed, Open

\* The end of a run is the end of a transaction.
LEMMA TransactionEnds ==
  ASSUME IInv, IInv', Outcomes, Outcomes', Ownership, Ownership', Next, Complete
  PROVE  /\ Viewed' = Viewed
         /\ Phase' \in {"converged", "failed", "held", "incomplete"}
         /\ Phase' = "converged" => \A a \in FileActions : Viewed[a] = "after"
         /\ Phase' = "failed" => \A a \in FileActions : Viewed[a] = "before"
         /\ Phase' = "held" => \A a \in FileActions : Viewed[a] \in {"before", "after"}
<1>1. /\ pc = "complete" /\ pc' = "cleanup" /\ file' = file /\ before' = before /\ plan' = plan /\ result' = result
      /\ status' = Outcome /\ failedRollbacks' = failedRollbacks /\ mode' = mode /\ cur' = cur
      /\ (incomplete' <=> Outcome = "Failed" /\ failedRollbacks # {})
      /\ crashes' = crashes /\ interrupts' = interrupts
      /\ result \in {"verified", "failed", "human", "drift"}
  BY DEF Complete, Goto, diskVars, envVars, IInv, TypeOK, ProcessType
<1>2. Outcome \in Terminal /\ (Outcome = "Converged" => result = "verified")
  BY <1>1 DEF Outcome, Terminal
<1>3. \A a \in Action : IsFile(a) => record'[a] = record[a]
  <2>1. record \in [Action -> Records]
    BY DEF IInv, TypeOK, JournalType
  <2>2. Outcome = "Converged" => \A a \in Action : IsFile(a) => record[a] = Applied(a)
    BY <1>1, <1>2, AllAfter
  <2> QED
    BY <2>1, <2>2 DEF Complete, FinalRecords
<1>4. Viewed' = Viewed /\ FileActions' = FileActions
  BY <1>1, <1>3, SameViewed DEF FileActions, Action, IsFile, Kind
<1>5. \A a \in FileActions : Viewed[a] = ViewOf(a) /\ a \in Action /\ IsFile(a)
  BY DEF Viewed, FileActions
<1>6. ~Open' /\ status' # "none"
  BY <1>1, <1>2 DEF Open, Terminal
<1>7. CASE Outcome = "Converged"
  <2>1. Phase' = "converged"
    BY <1>1, <1>6, <1>7 DEF Phase
  <2>2. \A a \in FileActions : Viewed[a] = "after"
    BY <1>1, <1>2, <1>5, <1>7, AllAfter
  <2> QED
    BY <1>4, <2>1, <2>2
<1>8. CASE Outcome = "Failed"
  <2>1. Phase' = IF ~incomplete' /\ crashes + interrupts = 0 THEN "failed" ELSE "incomplete"
    BY <1>1, <1>6, <1>8 DEF Phase
  <2>2. ASSUME ~incomplete', crashes + interrupts = 0, NEW a \in FileActions PROVE Viewed[a] = "before"
    <3>1. mode = "run" /\ failedRollbacks = {} /\ Stops <= 1
      BY <1>1, <1>8, <2>2 DEF IInv, Control, Working, Ending, Ownership, Stopped, Stops
    <3>2. record[a] = Prior(a)
      BY <1>5, <1>8, <3>1, FailedRecords
    <3>3. file[Target(a)] = before[Target(a)]
      BY <1>1, <1>5, <1>8, <3>1, SamePlan DEF IInv, FailureRestoresFiles
    <3> QED
      BY <1>5, <3>2, <3>3, ViewBefore DEF IInv
  <2> QED
    BY <1>4, <2>1, <2>2
<1>9. CASE Outcome \in {"HumanActionRequired", "FollowerDrift"}
  <2>1. Phase' = "held"
    BY <1>1, <1>6, <1>9 DEF Phase
  <2>2. \A a \in FileActions : Viewed'[a] \in {"before", "after"}
    <3>1. \A a \in Action' : IsFile(a)' => ViewOf(a)' \in {"before", "after"}
      BY <1>1, <1>9 DEF Outcomes, Held
    <3> QED
      BY <1>4, <3>1 DEF Viewed, FileActions
  <2> QED
    BY <1>4, <2>1, <2>2
<1> QED
  BY <1>2, <1>7, <1>8, <1>9 DEF Terminal

\* A step of the run is a step of the transaction or none.
LEMMA TransactionStep ==
  ASSUME IInv, IInv', Outcomes, Outcomes', Ownership, Ownership', Next
  PROVE  Transaction!Next \/ (Phase' = Phase /\ Viewed' = Viewed)
<1> USE DEF Transaction!Next, Transaction!Begin, Transaction!Work, Transaction!End, Transaction!View
<1>1. /\ DOMAIN Viewed = FileActions /\ FileActions' = FileActions
      /\ \A a \in FileActions : Viewed[a] = ViewOf(a) /\ Viewed[a] \in {"before", "after", "between"}
      /\ Viewed' \in [FileActions -> {"before", "after", "between"}]
  <2>1. \A a : ViewOf(a)' \in {"before", "after", "between"}
    BY DEF ViewOf
  <2> QED
    BY <2>1, PlanFixed, ViewType DEF Viewed, FileActions, Action, IsFile, Kind
<1>2. Open => Phase = "open" /\ status # "none"
  BY DEF Phase, Open
<1>3. Open' => Phase' = "open"
  BY DEF Phase, Open
<1>4. CASE Start /\ status = "none" /\ Open' /\ UNCHANGED <<file, before, record>>
  <2>1. Phase = "none" /\ Viewed' = Viewed
    BY <1>4, SameViewed DEF Phase, Open
  <2> QED
    BY <1>3, <1>4, <2>1 DEF Phase, Viewed, FileActions
<1>5. CASE Open /\ Open'
  BY <1>1, <1>2, <1>3, <1>5 DEF Phase, Viewed, FileActions
<1>6. CASE Complete /\ Open /\ UNCHANGED <<file, before>>
  BY <1>1, <1>2, <1>6, TransactionEnds DEF Phase, Viewed, FileActions
<1>7. CASE Close /\ Open /\ status' = "Abandoned" /\ UNCHANGED <<file, before, record>>
  <2>1. Viewed' = Viewed /\ Phase' = "incomplete"
    BY <1>7, SameViewed DEF Phase, Open
  <2> QED
    BY <1>1, <1>2, <1>7, <2>1 DEF Phase, Viewed, FileActions
<1>8. CASE ~Open /\ status # "none" /\ UNCHANGED <<status, incomplete, file, before, record, crashes, interrupts>>
  <2>1. Viewed' = Viewed
    BY <1>8, SameViewed
  <2>2. Phase' = Phase
    BY <1>8 DEF Phase, Open
  <2> QED
    BY <2>1, <2>2
<1> QED
  BY <1>4, <1>5, <1>6, <1>7, <1>8, TransactionMoves

\* A run, its recoveries and its abandonment implement one transaction on the
\* files and their records: nothing is in between when it ends, unless the outcome
\* says so.
THEOREM RunIsATransaction ==
  ASSUME "journal" \notin Faults, NoInstalls, ~MaySplitCommit PROVE Spec => ImplementsTransaction
<1> DEFINE All == IInv /\ Outcomes /\ Ownership
<1>1. Init => Transaction!Init
  BY TransactionBegins DEF Transaction!Init, Phase, Viewed, FileActions
<1>2. All /\ All' /\ [Next]_vars => Transaction!Next \/ (Phase' = Phase /\ Viewed' = Viewed)
  <2>1. ASSUME UNCHANGED vars PROVE Phase' = Phase /\ Viewed' = Viewed
    <3>1. /\ plan' = plan /\ status' = status /\ incomplete' = incomplete /\ crashes' = crashes /\ interrupts' = interrupts
          /\ \A a : ViewOf(a)' = ViewOf(a)
      BY <2>1, SameView DEF vars, runVars, diskVars, procVars, envVars
    <3> QED
      BY <3>1 DEF Phase, Open, Viewed, FileActions, Action, IsFile, Kind
  <2> QED
    BY <2>1, TransactionStep
<1>3. All /\ All' /\ [Next]_vars => [Transaction!Next]_<<Phase, Viewed>>
  BY <1>2
<1>4. Spec => []All
  BY Always, OutcomesHold, OwnershipHolds, PTL
<1> HIDE DEF All
<1> QED
  BY <1>1, <1>3, <1>4, PTL DEF Spec, ImplementsTransaction, Transaction!Spec

-----------------------------------------------------------------------------
(* A killed run whose files nobody edited can be recovered.                *)

\* Until a user edits a file, the first snapshot of a path holds what was there
\* before the run, the snapshot of the write that takes over a removed target
\* holds nothing, and every target holds what one of its actions left there.
Intact ==
  edits = 0 /\ Open /\ ~Discarded =>
    /\ \A a \in Action : First(a) /\ Relied(a) => snap[a] = before[Target(a)]
    /\ \A a \in Action : IsFile(a) /\ ~First(a) /\ Relied(a) => snap[a] = "absent"
    /\ \A a \in Action : First(a) /\ Final(a) => file[Target(a)] \in {before[Target(a)], Intended(a)}
    /\ \A a \in Action : First(a) /\ ~Final(a) =>
         \/ file[Target(a)] \in {before[Target(a)], "absent"}
         \/ file[Target(a)] = "desired" /\ \E b \in Action : b > a /\ Target(b) = Target(a) /\ HasReference(b)

\* A removed target stays empty until the write that takes it over is journaled,
\* and that write is prepared over an empty target.
Vacant ==
  /\ pc \in Looping =>
       \A a, b \in Action : a < cur /\ cur <= b /\ a < b /\ Target(a) = Target(b) =>
         file[Target(a)] = "absent" \/ HasReference(b)
  /\ pc = "prepare" /\ edits = 0 /\ IsFile(cur) /\ ~First(cur) => file[Target(cur)] = "absent"

\* What holds of the files nobody edited.
Untampered == Intact /\ Vacant

\* How the loop goes on, and what it prepares an action over.
LEMMA LoopMoves ==
  ASSUME IInv, Next
  PROVE  /\ pc' \in Looping =>
              \/ pc \in Looping /\ cur' = cur
              \/ /\ pc \in Looping /\ cur' = cur + 1 /\ file' = file
                 /\ Kind(cur) = "remove" => file[Target(cur)] = "absent" \/ SuccessorWrites(cur)
              \/ cur' = 1
         /\ pc' = "prepare" =>
              /\ pc = "next" /\ cur' = cur /\ edits' = edits
              /\ IF mode = "recover" /\ HasReference(cur) THEN Restore(cur) ELSE file' = file
<1> USE DEF runVars, diskVars, procVars, envVars, Enter, Goto, Fault, Finish, Execute, AfterBreak, Action
<1>1. /\ plan' = plan /\ cur \in Action /\ cur \in Nat /\ Action = 1..Len(plan) /\ Len(plan) \in Nat
      /\ Control /\ Verified /\ edits \in Nat
      /\ \A a \in Action : Kind(a) \in ActionKinds /\ (IsFile(a) <=> Kind(a) \in {"write", "remove"})
  BY PlanFixed, SamePlan DEF IInv, Progress, IsFile, TypeOK, RunType, CountType, Kind, Action
<1>2. CASE Start
  BY <1>1, <1>2 DEF Start, Control, Open, Working, Prepared, Looping, Failing, Undoing, Unwinding,
      Ending
<1>3. CASE Take
  BY <1>1, <1>3 DEF Take, Entry, Control, Open, Working, Prepared, Looping, Failing, Undoing,
      Unwinding, Ending
<1>4. CASE RecordDrift
  BY <1>1, <1>4 DEF RecordDrift, Control, Open, Working, Prepared, Looping, Failing, Undoing,
      Unwinding, Ending
<1>5. CASE Hold
  BY <1>1, <1>5 DEF Hold, Control, Open, Working, Prepared, Looping, Failing, Undoing, Unwinding, Ending
<1>6. CASE Prepare
  BY <1>1, <1>6 DEF Prepare, Control, Open, Working, Prepared, Looping, Failing, Undoing, Unwinding,
      Ending
<1>7. CASE JournalRunning
  BY <1>1, <1>7 DEF JournalRunning, Control, Open, Working, Prepared, Looping, Failing, Undoing,
      Unwinding, Ending
<1>8. CASE Mutate
  BY <1>1, <1>8 DEF Mutate, Control, Open, Working, Prepared, Looping, Failing, Undoing, Unwinding,
      Ending
<1>9. CASE Verify
  BY <1>1, <1>9 DEF Verify, Control, Open, Working, Prepared, Looping, Failing, Undoing, Unwinding,
      Ending
<1>10. CASE Commit
  BY <1>1, <1>10 DEF Commit, Control, Open, Working, Prepared, Looping, Failing, Undoing, Unwinding,
      Ending
<1>11. CASE Return
  BY <1>1, <1>11 DEF Return, Control, Verified, Holds, Intended, Open, Working, Prepared, Looping,
      Failing, Undoing, Unwinding, Ending
<1>12. CASE Undo
  BY <1>1, <1>12 DEF Undo, Control, Open, Working, Prepared, Looping, Failing, Undoing, Unwinding,
      Ending
<1>13. CASE Fail
  BY <1>1, <1>13 DEF Fail, Control, Open, Working, Prepared, Looping, Failing, Undoing, Unwinding,
      Ending
<1>14. CASE Disown
  BY <1>1, <1>14 DEF Disown, Control, Open, Working, Prepared, Looping, Failing, Undoing, Unwinding,
      Ending
<1>15. CASE Unwind
  BY <1>1, <1>15 DEF Unwind, Control, Open, Working, Prepared, Looping, Failing, Undoing, Unwinding,
      Ending
<1>16. CASE Unjournal
  BY <1>1, <1>16 DEF Unjournal, Control, Open, Working, Prepared, Looping, Failing, Undoing,
      Unwinding, Ending
<1>17. CASE Unwound
  BY <1>1, <1>17 DEF Unwound, Control, Open, Working, Prepared, Looping, Failing, Undoing,
      Unwinding, Ending
<1>18. CASE Skip
  BY <1>1, <1>18 DEF Skip, Control, Open, Working, Prepared, Looping, Failing, Undoing, Unwinding,
      Ending
<1>19. CASE Complete
  BY <1>1, <1>19 DEF Complete, Control, Open, Working, Prepared, Looping, Failing, Undoing,
      Unwinding, Ending
<1>20. CASE Cleanup
  BY <1>1, <1>20 DEF Cleanup, Control, Open, Working, Prepared, Looping, Failing, Undoing,
      Unwinding, Ending
<1>21. CASE TakeSkipped
  BY <1>1, <1>21 DEF TakeSkipped, Taking, Taking, Control, Open, Working, Prepared, Looping,
      Failing, Undoing, Unwinding, Ending
<1>22. CASE TakeInstall
  BY <1>1, <1>22 DEF TakeInstall, Taking, Taking, Control, Open, Working, Prepared, Looping,
      Failing, Undoing, Unwinding, Ending
<1>23. CASE KeepRemoved
  BY <1>1, <1>23 DEF KeepRemoved, Taking, Taking, Control, Open, Working, Prepared, Looping,
      Failing, Undoing, Unwinding, Ending
<1>24. CASE KeepWritten
  BY <1>1, <1>24 DEF KeepWritten, Taking, Taking, Control, Open, Working, Prepared, Looping,
      Failing, Undoing, Unwinding, Ending
<1>25. CASE RedoRemoved
  BY <1>1, <1>25 DEF RedoRemoved, Taking, Redo, Entry, Taking, Redo, Control, Open, Working,
      Prepared, Looping, Failing, Undoing, Unwinding, Ending
<1>26. CASE RedoWritten
  BY <1>1, <1>26 DEF RedoWritten, Taking, Redo, Entry, Taking, Redo, Control, Open, Working,
      Prepared, Looping, Failing, Undoing, Unwinding, Ending
<1>27. CASE RedoStarted
  BY <1>1, <1>27 DEF RedoStarted, Taking, Redo, Entry, Taking, Redo, Control, Open, Working,
      Prepared, Looping, Failing, Undoing, Unwinding, Ending
<1>28. CASE InterruptedUndo
  BY <1>1, <1>28 DEF InterruptedUndo, Control, Open, Working, Prepared, Looping, Failing, Undoing,
      Unwinding, Ending
<1>29. CASE InterruptedJournal
  BY <1>1, <1>29 DEF InterruptedJournal, Control, Open, Working, Prepared, Looping, Failing,
      Undoing, Unwinding, Ending
<1>30. CASE Interrupted
  BY <1>1, <1>30 DEF Interrupted, Control, Open, Working, Prepared, Looping, Failing, Undoing,
      Unwinding, Ending
<1>31. CASE Discard
  BY <1>1, <1>31 DEF Discard, Control, Open, Working, Prepared, Looping, Failing, Undoing,
      Unwinding, Ending
<1>32. CASE Close
  BY <1>1, <1>32 DEF Close, Control, Open, Working, Prepared, Looping, Failing, Undoing, Unwinding,
      Ending
<1>33. CASE Recover
  BY <1>1, <1>33 DEF Recover, Control, Open, Working, Prepared, Looping, Failing, Undoing,
      Unwinding, Ending
<1>34. CASE Abandon
  BY <1>1, <1>34 DEF Abandon, Control, Open, Working, Prepared, Looping, Failing, Undoing,
      Unwinding, Ending
<1>35. CASE Crash
  BY <1>1, <1>35 DEF Crash, Control, Open, Working, Prepared, Looping, Failing, Undoing, Unwinding,
      Ending
<1>36. CASE Interrupt
  BY <1>1, <1>36 DEF Interrupt, InAction, Control, Open, Working, Prepared, Looping, Failing,
      Undoing, Unwinding, Ending
<1>37. ASSUME NEW p \in Path, UserEdit(p) 
      PROVE
         /\ pc' \in Looping =>
              \/ pc \in Looping /\ cur' = cur
              \/ /\ pc \in Looping /\ cur' = cur + 1 /\ file' = file
                 /\ Kind(cur) = "remove" => file[Target(cur)] = "absent" \/ SuccessorWrites(cur)
              \/ cur' = 1
         /\ pc' = "prepare" =>
              /\ pc = "next" /\ cur' = cur /\ edits' = edits
              /\ IF mode = "recover" /\ HasReference(cur) THEN Restore(cur) ELSE file' = file
  BY <1>1, <1>37 DEF UserEdit, Control, Open, Working, Prepared, Looping, Failing, Undoing,
      Unwinding, Ending
<1> QED
  BY <1>2, <1>3, <1>4, <1>5, <1>6, <1>7, <1>8, <1>9, <1>10, <1>11, <1>12, <1>13, <1>14, <1>15,
      <1>16, <1>17, <1>18, <1>19, <1>20, <1>21, <1>22, <1>23, <1>24, <1>25, <1>26, <1>27, <1>28,
      <1>29, <1>30, <1>31, <1>32, <1>33, <1>34, <1>35, <1>36, <1>37
  DEF Next, ProcessStep, ExecutorStep, RecoveryStep, StopStep, AbandonStep

\* What a step of an open run does to the files and their snapshots.
LEMMA DiskMoves ==
  ASSUME IInv, Open, Open', Next
  PROVE  \/ edits' = edits + 1
         \/ /\ edits' = edits /\ before' = before /\ snap' = snap /\ pc \in Working
            /\ ready' /\ IsFile(cur') => ready /\ cur' = cur
            /\ \/ file' = file
               \/ \E x \in Action : Relied(x) /\ Restore(x)
               \/ pc = "mutate" /\ Apply(cur)
         \/ /\ edits' = edits /\ before' = before /\ pc = "prepare" /\ IsFile(cur)
            /\ UNCHANGED <<file, journal, cur>> /\ snap' = [snap EXCEPT ![cur] = file[Target(cur)]]
         \/ /\ edits' = edits /\ before' = before /\ pc \notin Working
            /\ UNCHANGED <<file, journal>> /\ ~ready'
            /\ snap' = snap \/ snap' = [a \in Action |-> "missing"]
<1> USE DEF runVars, diskVars, procVars, envVars, Enter, Goto, Fault, Finish, Execute, AfterBreak, Action
<1>1. /\ plan' = plan /\ cur \in Action /\ cur \in Nat /\ edits \in Nat /\ Control /\ ready \in BOOLEAN
      /\ \A a \in Action : HasReference(a) => Relied(a)
      /\ Reference => Relied(cur)
  BY PlanFixed, SamePlan DEF IInv, TypeOK, ProcessType, CountType, Relied, Reference
<1>2. UNCHANGED journal => \A a \in Action : HasReference(a)' = HasReference(a)
  BY DEF HasReference
<1>3. CASE Start
  BY <1>1, <1>2, <1>3 DEF Start, Control, Open, Working, Prepared, Looping, Failing, Undoing,
      Unwinding, Ending
<1>4. CASE Take
  BY <1>1, <1>2, <1>4 DEF Take, Entry, Control, Open, Working, Prepared, Looping, Failing, Undoing,
      Unwinding, Ending
<1>5. CASE RecordDrift
  BY <1>1, <1>2, <1>5 DEF RecordDrift, Control, Open, Working, Prepared, Looping, Failing, Undoing,
      Unwinding, Ending
<1>6. CASE Hold
  BY <1>1, <1>2, <1>6 DEF Hold, Control, Open, Working, Prepared, Looping, Failing, Undoing,
      Unwinding, Ending
<1>7. CASE Prepare
  BY <1>1, <1>2, <1>7 DEF Prepare, Control, Open, Working, Prepared, Looping, Failing, Undoing,
      Unwinding, Ending
<1>8. CASE JournalRunning
  BY <1>1, <1>2, <1>8 DEF JournalRunning, Control, Open, Working, Prepared, Looping, Failing,
      Undoing, Unwinding, Ending
<1>9. CASE Mutate
  BY <1>1, <1>2, <1>9 DEF Mutate, Control, Open, Working, Prepared, Looping, Failing, Undoing,
      Unwinding, Ending
<1>10. CASE Verify
  BY <1>1, <1>2, <1>10 DEF Verify, Control, Open, Working, Prepared, Looping, Failing, Undoing,
      Unwinding, Ending
<1>11. CASE Commit
  BY <1>1, <1>2, <1>11 DEF Commit, Control, Open, Working, Prepared, Looping, Failing, Undoing,
      Unwinding, Ending
<1>12. CASE Return
  BY <1>1, <1>2, <1>12 DEF Return, Control, Open, Working, Prepared, Looping, Failing, Undoing,
      Unwinding, Ending
<1>13. CASE Undo
  BY <1>1, <1>2, <1>13 DEF Undo, Control, Open, Working, Prepared, Looping, Failing, Undoing,
      Unwinding, Ending
<1>14. CASE Fail
  BY <1>1, <1>2, <1>14 DEF Fail, Control, Open, Working, Prepared, Looping, Failing, Undoing,
      Unwinding, Ending
<1>15. CASE Disown
  BY <1>1, <1>2, <1>15 DEF Disown, Control, Open, Working, Prepared, Looping, Failing, Undoing,
      Unwinding, Ending
<1>16. CASE Unwind
  <2>1. Top.action \in Action /\ HasReference(Top.action) /\ ~ready
    BY <1>1, <1>16, TopFacts DEF Unwind, IInv, Stack, Control, Open, Working, Prepared, Looping,
        Failing, Undoing, Unwinding, Ending
  <2> QED
    BY <1>1, <1>2, <1>16, <2>1 DEF Unwind, Control, Open, Working, Prepared, Looping, Failing,
        Undoing, Unwinding, Ending
<1>17. CASE Unjournal
  BY <1>1, <1>2, <1>17 DEF Unjournal, Control, Open, Working, Prepared, Looping, Failing, Undoing,
      Unwinding, Ending
<1>18. CASE Unwound
  BY <1>1, <1>2, <1>18 DEF Unwound, Control, Open, Working, Prepared, Looping, Failing, Undoing,
      Unwinding, Ending
<1>19. CASE Skip
  BY <1>1, <1>2, <1>19 DEF Skip, Control, Open, Working, Prepared, Looping, Failing, Undoing,
      Unwinding, Ending
<1>20. CASE Complete
  BY <1>1, <1>2, <1>20 DEF Complete, Outcome, Control, Terminal, Open, Working, Prepared, Looping,
      Failing, Undoing, Unwinding, Ending
<1>21. CASE Cleanup
  BY <1>1, <1>2, <1>21 DEF Cleanup, Control, Terminal, Open, Working, Prepared, Looping, Failing,
      Undoing, Unwinding, Ending
<1>22. CASE TakeSkipped
  BY <1>1, <1>2, <1>22 DEF TakeSkipped, Taking, Taking, Control, Open, Working, Prepared, Looping,
      Failing, Undoing, Unwinding, Ending
<1>23. CASE TakeInstall
  BY <1>1, <1>2, <1>23 DEF TakeInstall, Taking, Taking, Control, Open, Working, Prepared, Looping,
      Failing, Undoing, Unwinding, Ending
<1>24. CASE KeepRemoved
  BY <1>1, <1>2, <1>24 DEF KeepRemoved, Taking, Taking, Control, Open, Working, Prepared, Looping,
      Failing, Undoing, Unwinding, Ending
<1>25. CASE KeepWritten
  BY <1>1, <1>2, <1>25 DEF KeepWritten, Taking, Taking, Control, Open, Working, Prepared, Looping,
      Failing, Undoing, Unwinding, Ending
<1>26. CASE RedoRemoved
  BY <1>1, <1>2, <1>26 DEF RedoRemoved, Taking, Redo, Entry, Taking, Redo, Control, Open, Working,
      Prepared, Looping, Failing, Undoing, Unwinding, Ending
<1>27. CASE RedoWritten
  BY <1>1, <1>2, <1>27 DEF RedoWritten, Taking, Redo, Entry, Taking, Redo, Control, Open, Working,
      Prepared, Looping, Failing, Undoing, Unwinding, Ending
<1>28. CASE RedoStarted
  BY <1>1, <1>2, <1>28 DEF RedoStarted, Taking, Redo, Entry, Taking, Redo, Control, Open, Working,
      Prepared, Looping, Failing, Undoing, Unwinding, Ending
<1>29. CASE InterruptedUndo
  BY <1>1, <1>2, <1>29 DEF InterruptedUndo, Control, Open, Working, Prepared, Looping, Failing,
      Undoing, Unwinding, Ending
<1>30. CASE InterruptedJournal
  BY <1>1, <1>2, <1>30 DEF InterruptedJournal, Control, Open, Working, Prepared, Looping, Failing,
      Undoing, Unwinding, Ending
<1>31. CASE Interrupted
  BY <1>1, <1>2, <1>31 DEF Interrupted, Control, Open, Working, Prepared, Looping, Failing, Undoing,
      Unwinding, Ending
<1>32. CASE Discard
  BY <1>1, <1>2, <1>32 DEF Discard, Control, Open, Working, Prepared, Looping, Failing, Undoing,
      Unwinding, Ending
<1>33. CASE Close
  BY <1>1, <1>2, <1>33 DEF Close, Control, Open, Working, Prepared, Looping, Failing, Undoing,
      Unwinding, Ending
<1>34. CASE Recover
  BY <1>1, <1>2, <1>34 DEF Recover, Control, Open, Working, Prepared, Looping, Failing, Undoing,
      Unwinding, Ending
<1>35. CASE Abandon
  BY <1>1, <1>2, <1>35 DEF Abandon, Control, Open, Working, Prepared, Looping, Failing, Undoing,
      Unwinding, Ending
<1>36. CASE Crash
  BY <1>1, <1>2, <1>36 DEF Crash, Control, Open, Working, Prepared, Looping, Failing, Undoing,
      Unwinding, Ending
<1>37. CASE Interrupt
  BY <1>1, <1>2, <1>37 DEF Interrupt, InAction, Control, Open, Working, Prepared, Looping, Failing,
      Undoing, Unwinding, Ending
<1>38. ASSUME NEW p \in Path, UserEdit(p) 
      PROVE
         \/ edits' = edits + 1
         \/ /\ edits' = edits /\ before' = before /\ snap' = snap /\ pc \in Working
            /\ ready' /\ IsFile(cur') => ready /\ cur' = cur
            /\ \/ file' = file
               \/ \E x \in Action : Relied(x) /\ Restore(x)
               \/ pc = "mutate" /\ Apply(cur)
         \/ /\ edits' = edits /\ before' = before /\ pc = "prepare" /\ IsFile(cur)
            /\ UNCHANGED <<file, journal, cur>> /\ snap' = [snap EXCEPT ![cur] = file[Target(cur)]]
         \/ /\ edits' = edits /\ before' = before /\ pc \notin Working
            /\ UNCHANGED <<file, journal>> /\ ~ready'
            /\ snap' = snap \/ snap' = [a \in Action |-> "missing"]
  BY <1>1, <1>2, <1>38 DEF UserEdit, Control, Open, Working, Prepared, Looping, Failing, Undoing,
      Unwinding, Ending
<1> QED
  BY <1>3, <1>4, <1>5, <1>6, <1>7, <1>8, <1>9, <1>10, <1>11, <1>12, <1>13, <1>14, <1>15, <1>16,
      <1>17, <1>18, <1>19, <1>20, <1>21, <1>22, <1>23, <1>24, <1>25, <1>26, <1>27, <1>28, <1>29,
      <1>30, <1>31, <1>32, <1>33, <1>34, <1>35, <1>36, <1>37, <1>38
  DEF Next, ProcessStep, ExecutorStep, RecoveryStep, StopStep, AbandonStep

\* The loop goes on to the write that takes a path over only with the path empty.
LEMMA VacantKeeps == ASSUME IInv, Untampered, Next PROVE Vacant'
<1>1. /\ plan' = plan /\ plan \in Plans /\ Action' = Action /\ Action = 1..Len(plan) /\ Len(plan) \in Nat /\ cur \in Action
      /\ TypeOK /\ Control /\ Stack /\ Vacant /\ Intact
      /\ \A a \in Action : Target(a)' = Target(a) /\ Target(a) \in Path /\ IsFile(a)' = IsFile(a) /\ First(a)' = First(a)
  BY PlanFixed, SamePlan DEF IInv, Untampered, TypeOK, RunType
<1>2. ASSUME pc' \in Looping, NEW a \in Action, NEW b \in Action, a < cur', cur' <= b, a < b, Target(a) = Target(b)
      PROVE  file'[Target(a)] = "absent" \/ HasReference(b)'
  <2>0. /\ Kind(a) = "remove" /\ Kind(b) = "write"
        /\ \A c \in Action : Target(c) = Target(a) => c = a \/ c = b
    <3>1. ASSUME NEW c \in Action, Target(c) = Target(a), c # a, c # b PROVE FALSE
      BY <1>1, <1>2, <3>1, Twins
    <3> QED
      BY <1>1, <1>2, <3>1, Pairs
  <2>4. pc \in Looping => (HasReference(b) => HasReference(b)')
    BY <1>1, ReferencesStay DEF Control, Open, Working
  <2>1. CASE pc \in Looping /\ cur' = cur
    <3>3. file'[Target(a)] = file[Target(a)] \/ (Target(a) = Target(cur) /\ HasReference(cur))
      BY <1>1, <2>1, FileSteps
    <3>4. Target(a) = Target(cur) => cur = b
      BY <1>1, <1>2, <2>0, <2>1
    <3> QED
      BY <1>1, <1>2, <2>1, <2>4, <3>3, <3>4 DEF Vacant
  <2>2. CASE /\ pc \in Looping /\ cur' = cur + 1 /\ file' = file
             /\ Kind(cur) = "remove" => file[Target(cur)] = "absent" \/ SuccessorWrites(cur)
    <3>2. CASE a < cur
      BY <1>1, <1>2, <2>2, <2>4, <3>2 DEF Vacant
    <3>3. CASE a = cur /\ file[Target(cur)] = "absent"
      BY <2>2, <3>3
    <3>4. CASE a = cur /\ SuccessorWrites(a)
      <4>1. PICK c \in Successors(a) : TRUE
        BY <3>4 DEF SuccessorWrites
      <4>2. c \in Action /\ c > a /\ Target(c) = Target(a) /\ HasReference(c)
        BY <4>1 DEF Successors, Inspected
      <4> QED
        BY <1>1, <2>0, <2>2, <2>4, <4>2
    <3> QED
      BY <1>1, <1>2, <2>0, <2>2, <3>2, <3>3, <3>4
  <2>3. CASE cur' = 1
    BY <1>1, <1>2, <2>3
  <2> QED
    BY <1>2, <2>1, <2>2, <2>3, LoopMoves
<1>3. ASSUME pc' = "prepare", edits' = 0, IsFile(cur'), ~First(cur') PROVE file'[Target(cur')] = "absent"
  <2>1. /\ pc = "next" /\ cur' = cur /\ edits = 0 /\ Open /\ IsFile(cur) /\ ~First(cur) /\ pc \in Working
        /\ IF mode = "recover" /\ HasReference(cur) THEN Restore(cur) ELSE file' = file
        /\ mode \in {"run", "recover"}
    BY <1>1, <1>3, LoopMoves DEF Control, Working, Looping
  <2>2. CASE HasReference(cur)
    <3>1. mode = "recover"
      BY <1>1, <2>1, <2>2 DEF IInv, Journals, Unreached
    <3>2. ~Discarded
      BY <2>1 DEF IInv, Files, Kept, Discarded, Relied, HasReference
    <3>3. snap[cur] = "absent"
      BY <1>1, <2>1, <2>2, <3>2 DEF Intact, Relied
    <3>4. file'[Target(cur)] = snap[cur]
      BY <1>1, <2>1, <2>2, <3>1 DEF Restore, TypeOK, DiskType
    <3> QED
      BY <2>1, <3>3, <3>4
  <2>3. CASE ~HasReference(cur)
    <3>1. PICK a \in Action : a < cur /\ Target(a) = Target(cur)
      BY <2>1 DEF First
    <3> QED
      BY <1>1, <2>1, <2>3, <3>1 DEF Vacant, Looping
  <2> QED
    BY <2>2, <2>3
<1>4. pc' = "prepare" => cur' = cur /\ cur \in Action
  BY <1>1, LoopMoves
<1> QED
  BY <1>1, <1>2, <1>3, <1>4 DEF Vacant

\* A step leaves a file only contents the run knows.
LEMMA IntactKeeps == ASSUME IInv, Untampered, Next PROVE Intact'
<1>1. /\ plan' = plan /\ plan \in Plans /\ Action' = Action /\ Action \subseteq Nat /\ cur \in Action
      /\ TypeOK /\ Control /\ Stack /\ Vacant /\ Intact /\ edits \in Nat
      /\ \A a \in Action : /\ Target(a)' = Target(a) /\ Target(a) \in Path /\ IsFile(a)' = IsFile(a) /\ First(a)' = First(a)
                           /\ Final(a)' = Final(a) /\ Intended(a)' = Intended(a) /\ (First(a) => IsFile(a))
      /\ file \in [Path -> Contents]
  BY PlanFixed, SamePlan DEF IInv, Untampered, TypeOK, RunType, DiskType, CountType, First
<1>2. ASSUME status = "none" PROVE Intact'
  <2>1. Start /\ file' = before'
    BY <1>2, Begins DEF IInv, Files, Fresh, Start, diskVars, envVars
  <2>2. \A a \in Action : journal'[a] = <<Event("pending", 0, FALSE, "none")>>
    BY <1>1, <2>1 DEF Start
  <2>3. \A a \in Action : ~HasReference(a)'
    <3>1. \A e : Len(<<e>>) = 1 /\ DOMAIN <<e>> = {1} /\ <<e>>[1] = e
      OBVIOUS
    <3>2. Event("pending", 0, FALSE, "none").ref = FALSE
      BY DEF Event
    <3> QED
      BY ZenonT(40), <2>2, <3>1, <3>2 DEF HasReference
  <2>4. ~ready'
    BY <2>1 DEF Start, Enter
  <2>5. \A a \in Action : ~Relied(a)'
    BY <2>3, <2>4 DEF Relied
  <2> QED
    BY <1>1, <2>1, <2>5 DEF Intact
<1>3. ASSUME Open, edits' = 0, Open', ~Discarded', status # "none"
      PROVE /\ \A a \in Action : First(a) /\ Relied(a)' => snap'[a] = before'[Target(a)]
            /\ \A a \in Action : IsFile(a) /\ ~First(a) /\ Relied(a)' => snap'[a] = "absent"
            /\ \A a \in Action : First(a) /\ Final(a) => file'[Target(a)] \in {before'[Target(a)], Intended(a)}
            /\ \A a \in Action : First(a) /\ ~Final(a) =>
                 \/ file'[Target(a)] \in {before'[Target(a)], "absent"}
                 \/ file'[Target(a)] = "desired" /\ \E b \in Action : b > a /\ Target(b) = Target(a) /\ HasReference(b)'
  <2>1. edits' = edits /\ before' = before
    BY <1>1, <1>3, DiskMoves
  <2>2. \A a \in Action : (HasReference(a) => HasReference(a)') /\ (HasReference(a)' => Relied(a))
    BY <1>1, <1>3, ReferencesStay
  <2>3. ~Discarded
    <3>1. CASE pc \in Working
      BY <3>1 DEF IInv, Files, Kept, Discarded, Relied, HasReference
    <3>2. CASE pc \notin Working
      <4>1. journal' = journal /\ (snap' = snap \/ snap' = [a \in Action |-> "missing"])
        BY <1>1, <1>3, <3>2, DiskMoves DEF Working, Looping
      <4> QED
        BY <1>1, <1>3, <4>1 DEF Discarded
    <3> QED
      BY <3>1, <3>2
  <2>4. /\ \A a \in Action : First(a) /\ Relied(a) => snap[a] = before[Target(a)]
        /\ \A a \in Action : IsFile(a) /\ ~First(a) /\ Relied(a) => snap[a] = "absent"
        /\ \A a \in Action : First(a) /\ Final(a) => file[Target(a)] \in {before[Target(a)], Intended(a)}
        /\ \A a \in Action : First(a) /\ ~Final(a) =>
             \/ file[Target(a)] \in {before[Target(a)], "absent"}
             \/ file[Target(a)] = "desired" /\ \E b \in Action : b > a /\ Target(b) = Target(a) /\ HasReference(b)
    BY <1>1, <1>3, <2>1, <2>3 DEF Intact
  <2>5. CASE file' = file /\ snap' = snap /\ \A a \in Action : Relied(a)' => Relied(a)
    BY <2>1, <2>2, <2>4, <2>5
  <2>6. ASSUME NEW x \in Action, IsFile(x), NEW c, file' = [file EXCEPT ![Target(x)] = c], snap' = snap, \A a \in Action : Relied(a)' => Relied(a),
               \/ First(x) /\ c = before[Target(x)]
               \/ c = "absent" /\ ~(First(x) /\ Final(x))
               \/ c = Intended(x) /\ HasReference(x)
        PROVE /\ \A a \in Action : First(a) /\ Relied(a)' => snap'[a] = before'[Target(a)]
              /\ \A a \in Action : IsFile(a) /\ ~First(a) /\ Relied(a)' => snap'[a] = "absent"
              /\ \A a \in Action : First(a) /\ Final(a) => file'[Target(a)] \in {before'[Target(a)], Intended(a)}
              /\ \A a \in Action : First(a) /\ ~Final(a) =>
                   \/ file'[Target(a)] \in {before'[Target(a)], "absent"}
                   \/ file'[Target(a)] = "desired" /\ \E b \in Action : b > a /\ Target(b) = Target(a) /\ HasReference(b)'
    <3>1. \A p \in Path : file'[p] = IF p = Target(x) THEN c ELSE file[p]
      BY <1>1, <2>6
    <3>2. \A a \in Action : First(a) /\ Final(a) /\ Target(a) = Target(x) => a = x
      BY <1>1, Twins DEF First, Final
    <3>3. ASSUME NEW a \in Action, First(a), ~Final(a), Target(a) = Target(x), c \notin {before[Target(a)], "absent"}
          PROVE  c = "desired" /\ x > a /\ HasReference(x)
      <4>1. c = Intended(x) /\ HasReference(x)
        BY <2>6, <3>3
      <4>2. Kind(x) = "write" /\ c = "desired"
        BY <1>1, <3>3, <4>1 DEF Intended
      <4>3. x # a
        <5>1. PICK b \in Action : b > a /\ Target(b) = Target(a)
          BY <1>1, <3>3 DEF Final
        <5> QED
          BY <1>1, <4>2, <5>1, Pairs
      <4>4. ~(x < a)
        BY <3>3 DEF First
      <4> QED
        BY <1>1, <4>1, <4>2, <4>3, <4>4
    <3> QED
      BY <1>1, <2>1, <2>2, <2>4, <2>6, <3>1, <3>2, <3>3
  <2>7. CASE pc \in Working /\ snap' = snap /\ (ready' /\ IsFile(cur') => ready /\ cur' = cur)
    <3>1. \A a \in Action : Relied(a)' => Relied(a)
      BY <1>1, <2>2, <2>7 DEF Relied
    <3>2. \A a \in Action : HasReference(a) => IsFile(a)
      BY <1>3 DEF IInv, Journals, Referenced
    <3>3. ASSUME NEW x \in Action, Relied(x), Restore(x)
          PROVE  /\ IsFile(x) /\ file' = [file EXCEPT ![Target(x)] = snap[x]]
                 /\ \/ First(x) /\ snap[x] = before[Target(x)]
                    \/ snap[x] = "absent" /\ ~(First(x) /\ Final(x))
      <4>1. IsFile(x) /\ file' = [file EXCEPT ![Target(x)] = snap[x]]
        BY <3>2, <3>3 DEF Relied, Restore
      <4>2. First(x) => snap[x] = before[Target(x)]
        BY <2>4, <3>3
      <4>3. ~First(x) => snap[x] = "absent"
        BY <2>4, <3>3, <4>1
      <4> QED
        BY <4>1, <4>2, <4>3
    <3>4. ASSUME pc = "mutate", Apply(cur), file' # file
          PROVE  IsFile(cur) /\ HasReference(cur) /\ file' = [file EXCEPT ![Target(cur)] = Intended(cur)]
      BY <3>4 DEF Apply, IInv, Journals, Passed
    <3>5. \/ file' = file
          \/ \E x \in Action : Relied(x) /\ Restore(x)
          \/ pc = "mutate" /\ Apply(cur)
      BY <1>1, <1>3, <2>1, <2>7, DiskMoves
    <3> QED
      BY <1>1, <2>5, <2>6, <2>7, <3>1, <3>3, <3>4, <3>5
  <2>8. CASE /\ pc = "prepare" /\ IsFile(cur)
             /\ UNCHANGED <<file, journal, cur>> /\ snap' = [snap EXCEPT ![cur] = file[Target(cur)]]
    <3>1. \A a \in Action : snap'[a] = IF a = cur THEN file[Target(a)] ELSE snap[a]
      BY <1>1, <2>8 DEF TypeOK, DiskType
    <3>2. \A a \in Action : Relied(a)' => Relied(a) \/ a = cur
      BY <1>1, <2>2, <2>8 DEF Relied
    <3>3. First(cur) => file[Target(cur)] = before[Target(cur)]
      BY <2>8 DEF IInv, Files, Clean
    <3>4. ~First(cur) => file[Target(cur)] = "absent"
      BY <1>1, <1>3, <2>1, <2>8 DEF Vacant
    <3> QED
      BY <1>1, <2>1, <2>2, <2>4, <2>8, <3>1, <3>2, <3>3, <3>4
  <2>9. CASE /\ pc \notin Working
             /\ UNCHANGED <<file, journal>> /\ ~ready'
             /\ snap' = snap \/ snap' = [a \in Action |-> "missing"]
    <3>1. \A a \in Action : HasReference(a)' = HasReference(a) /\ (Relied(a)' => HasReference(a))
      BY <1>1, <2>9 DEF HasReference, Relied
    <3>2. CASE snap' = snap
      BY <2>5, <2>9, <3>1, <3>2 DEF Relied
    <3>3. CASE snap' = [a \in Action |-> "missing"]
      <4>1. \A a \in Action : ~HasReference(a)
        BY <1>1, <1>3, <2>9, <3>3 DEF Discarded, HasReference
      <4> QED
        BY <1>1, <2>1, <2>4, <2>9, <3>1, <4>1
    <3> QED
      BY <2>9, <3>2, <3>3
  <2> QED
    BY <1>1, <1>3, <2>1, <2>7, <2>8, <2>9, DiskMoves
<1>4. Open' /\ ~Open => status = "none"
  BY TransactionMoves DEF Open, Complete, Close
<1>5. Open => status # "none"
  BY DEF Open
<1>6. CASE Open /\ edits' = 0 /\ Open' /\ ~Discarded'
  <2>1. \A a \in Action : Final(a)' = Final(a) /\ First(a)' = First(a) /\ IsFile(a)' = IsFile(a)
    BY <1>1
  <2> QED
    BY <1>1, <1>3, <1>5, <1>6, <2>1 DEF Intact
<1>7. CASE ~(edits' = 0 /\ Open' /\ ~Discarded')
  BY <1>7 DEF Intact
<1> QED
  BY <1>2, <1>4, <1>6, <1>7

\* Whatever crashes and errors come between its steps, a run whose files nobody
\* edited stays recoverable, until an abandonment has given up its snapshots or the
\* inverse of a removal lies over a write that was not journaled as rolled back.
THEOREM RunsAreRecoverable == ASSUME ~MaySplitCommit PROVE Spec => []RecoverableUnlessOverlaid
<1>1. Init => Untampered
  BY DEF Init, Untampered, Intact, Vacant, Open, Looping
<1>2. IInv /\ Untampered /\ [Next]_vars => Untampered'
  <2>1. ASSUME IInv, Untampered, UNCHANGED vars PROVE Untampered'
    <3>1. /\ plan' = plan /\ status' = status /\ journal' = journal /\ pc' = pc /\ cur' = cur /\ file' = file
          /\ snap' = snap /\ before' = before /\ edits' = edits /\ ready' = ready
      BY <2>1 DEF vars, runVars, diskVars, procVars, envVars
    <3>2. /\ Action' = Action /\ Open' = Open /\ Discarded' = Discarded /\ cur \in Action
          /\ \A a \in Action : /\ IsFile(a)' = IsFile(a) /\ Target(a)' = Target(a) /\ First(a)' = First(a) /\ Final(a)' = Final(a)
                               /\ Intended(a)' = Intended(a) /\ HasReference(a)' = HasReference(a) /\ Relied(a)' = Relied(a)
      BY <2>1, <3>1, SamePlan DEF IInv, Open, Discarded, Action, HasReference, Relied
    <3>3. Intact'
      BY <2>1, <3>1, <3>2 DEF Untampered, Intact
    <3>4. Vacant'
      BY <2>1, <3>1, <3>2 DEF Untampered, Vacant
    <3> QED
      BY <3>3, <3>4 DEF Untampered
  <2> QED
    BY <2>1, IntactKeeps, VacantKeeps DEF Untampered
<1>3. IInv /\ Untampered /\ JournalAcceptable => RecoverableUnlessOverlaid
  <2> SUFFICES ASSUME IInv, Untampered, JournalAcceptable, Open, pc = "idle", edits = 0, ~Discarded,
                      \A a \in Action : Inspected(a) => ~Overlaid(a)
               PROVE  Recoverable
    BY DEF RecoverableUnlessOverlaid, OpenRunIsRecoverable
  <2>1. /\ TypeOK /\ plan \in Plans /\ Action \subseteq Nat /\ status # "none" /\ Referenced
        /\ \A a \in Action : JournalValid(a) /\ (HasReference(a) => Relied(a))
    BY PlanFacts DEF IInv, TypeOK, RunType, Open, JournalAcceptable, Journals, Relied
  <2> SUFFICES ASSUME NEW a \in Action, Inspected(a) PROVE snap[a] # "missing" /\ ~Edited(a)
    BY <2>1 DEF Recoverable
  <2>2. HasReference(a) /\ IsFile(a) /\ Relied(a) /\ snap[a] # "missing"
    BY <2>1 DEF Inspected, Referenced, Discarded, HasReference
  <2>3. CASE First(a) /\ Final(a)
    <3>1. Observed(a) = {file[Target(a)]}
      BY <2>1, <2>3 DEF Observed, Successors, Final
    <3> QED
      BY <2>2, <2>3, <3>1 DEF Edited, Untampered, Intact
  <2>4. CASE First(a) /\ ~Final(a)
    <3>1. PICK b \in Action : b > a /\ Target(b) = Target(a)
      BY <2>2, <2>4 DEF Final
    <3>2. Kind(a) = "remove" /\ Intended(a) = "absent" /\ snap[a] = before[Target(a)]
      BY <2>1, <2>2, <2>4, <3>1, Pairs DEF Untampered, Intact, Intended
    <3>3. CASE Successors(a) = {}
      <4>1. \A c \in Action : c > a /\ Target(c) = Target(a) => ~HasReference(c)
        BY <2>1, <3>3 DEF Successors, Inspected, Referenced
      <4>2. file[Target(a)] \in {before[Target(a)], "absent"}
        BY <2>4, <4>1 DEF Untampered, Intact
      <4> QED
        BY <2>2, <3>2, <3>3, <4>2 DEF Edited, Observed
    <3>4. CASE Successors(a) # {}
      <4>1. \A c \in Successors(a) : c \in Action /\ c > a /\ Target(c) = Target(a) /\ HasReference(c) /\ IsFile(c) /\ ~First(c) /\ Relied(c)
        BY <2>1 DEF Successors, Inspected, Referenced, First
      <4>2. \A c \in Successors(a) : snap[c] = "absent"
        BY <4>1 DEF Untampered, Intact
      <4> QED
        BY <2>2, <3>2, <3>4, <4>2 DEF Edited, Observed
    <3> QED
      BY <3>3, <3>4
  <2>5. CASE ~First(a)
    <3>1. PICK r \in Action : r < a /\ Target(r) = Target(a)
      BY <2>2, <2>5 DEF First
    <3>2. /\ Kind(r) = "remove" /\ Kind(a) = "write" /\ First(r) /\ ~Final(r) /\ HasReference(r) /\ Relied(r)
          /\ Intended(a) = "desired" /\ snap[a] = "absent" /\ snap[r] = before[Target(a)]
      BY <2>1, <2>2, <2>5, <3>1, Pairs DEF Untampered, Intact, Referenced, Intended
    <3>3. r \in Predecessors(a)
      BY <2>1, <3>1, <3>2 DEF Predecessors, Inspected, Referenced
    <3>4. Observed(a) = {file[Target(a)]}
      BY <3>2 DEF Observed
    <3>5. file[Target(a)] \in {before[Target(a)], "absent", "desired"}
      BY <3>1, <3>2 DEF Untampered, Intact
    <3>6. CASE file[Target(a)] = before[Target(a)]
      <4>1. Last(a).state = "rolled-back"
        BY <3>2, <3>3, <3>6 DEF Overlaid
      <4>2. Restored(a)
        BY <3>2, <3>3, <3>6, <4>1 DEF Restored
      <4> QED
        BY <2>2, <4>2 DEF Edited
    <3> QED
      BY <2>2, <3>2, <3>4, <3>5, <3>6 DEF Edited
  <2> QED
    BY <2>3, <2>4, <2>5
<1> QED
  BY <1>1, <1>2, <1>3, Always, JournalsAreAcceptable, PTL DEF Spec
==============================================================================
