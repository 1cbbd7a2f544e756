---------------------------- MODULE RunLockProofs ----------------------------
(***************************************************************************)
(* What TLAPS proves of the run lock for every set of processes, every     *)
(* number of acquisitions and crashes, with or without stalls.             *)
(*                                                                         *)
(* The double holder that RunLockDouble exhibits needs a rename that moves *)
(* the lock of its current owner.  The inductive invariant OwnerNamesPath  *)
(* says why nothing else can cause it: until such a rename the path names  *)
(* the file of whoever owns the lock, so an exclusive create, a relink     *)
(* (never over an existing file) and an unlink cannot disturb it.          *)
(***************************************************************************)
EXTENDS RunLock, TLAPS

\* Every variable keeps its type, for every value of the constants.
THEOREM TypeCorrect == Spec => []TypeOK
<1>1. Init => TypeOK
  <2> SUFFICES ASSUME Init PROVE TypeOK
    OBVIOUS
  <2> USE DEF Init, File, Acquiring, Owning
  <2>1. path \in File \cup {NoFile} /\ written \subseteq File
    OBVIOUS
  <2>2. identified \subseteq written /\ aged \subseteq File /\ old \subseteq Proc
    OBVIOUS
  <2>3. pc \in [Proc -> Acquiring \cup Owning \cup {"idle", "dead"}]
    OBVIOUS
  <2>4. tries \in [Proc -> Nat]
    OBVIOUS
  <2>5. text \in [Proc -> File \cup {Empty}]
    OBVIOUS
  <2>6. retired \in [Proc -> File \cup {NoFile}]
    OBVIOUS
  <2>7. reused \subseteq Proc /\ misdirected \in BOOLEAN
    OBVIOUS
  <2> QED
    BY <2>1, <2>2, <2>3, <2>4, <2>5, <2>6, <2>7 DEF TypeOK
<1>2. TypeOK /\ [Next]_vars => TypeOK'
  <2> SUFFICES ASSUME TypeOK, [Next]_vars
               PROVE  TypeOK'
    OBVIOUS
  <2> USE ConstantsAssumption
      DEF TypeOK, File, Acquiring, Owning, Transition, FileOf, Text, fileVars, readVars
  <2>1. ASSUME NEW p \in Proc, Begin(p) PROVE TypeOK'
    BY <2>1 DEF Begin
  <2>2. ASSUME NEW p \in Proc, AcquireStep(p) PROVE TypeOK'
    <3>1. CASE Create(p) \/ CreateExists(p)
      BY <3>1 DEF Create, CreateExists
    <3>2. CASE WriteRecord(p) \/ WriteFails(p)
      BY <3>2, SMTT(60) DEF WriteRecord, WriteFails, Recorded
    <3>3. CASE Missing(p)
      BY <3>3 DEF Missing, Forget
    <3>4. CASE ReadText(p)
      BY <3>4 DEF ReadText
    <3>5. CASE ReadTime(p)
      BY <3>5 DEF ReadTime
    <3>6. CASE JudgeStale(p) \/ JudgeLive(p)
      BY <3>6 DEF JudgeStale, JudgeLive, Forget
    <3>7. CASE Rename(p)
      BY <3>7 DEF Rename
    <3>8. CASE RenameMissing(p)
      BY <3>8 DEF RenameMissing, Forget
    <3>9. CASE Compare(p)
      BY <3>9 DEF Compare
    <3>10. CASE Relink(p)
      BY <3>10 DEF Relink
    <3>11. CASE Discard(p)
      BY <3>11 DEF Discard, Forget
    <3> QED
      BY <2>2, <3>1, <3>2, <3>3, <3>4, <3>5, <3>6, <3>7, <3>8, <3>9, <3>10, <3>11
         DEF AcquireStep
  <2>3. ASSUME NEW p \in Proc, ReleaseStep(p) PROVE TypeOK'
    BY <2>3 DEF ReleaseStep, Leave, ReadOwn, Unlink
  <2>4. ASSUME NEW p \in Proc, Crash(p) \/ ReusePid(p) PROVE TypeOK'
    BY <2>4 DEF Crash, ReusePid
  <2>5. CASE Age
    BY <2>5 DEF Age
  <2>6. CASE UNCHANGED vars
    BY <2>6 DEF vars
  <2> QED
    BY <2>1, <2>2, <2>3, <2>4, <2>5, <2>6 DEF Next
<1> QED
  BY <1>1, <1>2, PTL DEF Spec

\* A readable record that was judged stale belongs to a dead process, at the
\* judgement and at every later step of the removal.
THEOREM StaleIsDead == Spec => []StaleRecordsAreOfTheDead
<1>1. Init => StaleRecordsAreOfTheDead
  BY DEF Init, StaleRecordsAreOfTheDead
<1>2. TypeOK /\ StaleRecordsAreOfTheDead /\ [Next]_vars => StaleRecordsAreOfTheDead'
  <2> SUFFICES ASSUME TypeOK, StaleRecordsAreOfTheDead, [Next]_vars
               PROVE  StaleRecordsAreOfTheDead'
    OBVIOUS
  <2> DEFINE Removing == {"rename", "compare", "relink", "discard"}
  <2> SUFFICES ASSUME NEW q \in Proc, pc'[q] \in Removing, text'[q] # Empty
               PROVE  pc'[Owner(text'[q])] = "dead"
    BY DEF StaleRecordsAreOfTheDead
  <2>1. text'[q] = text[q] /\ Owner(text[q]) \in Proc
    <3>1. text'[q] = text[q]
      <4> USE DEF TypeOK, Transition, Forget, fileVars, readVars
      <4>1. ASSUME NEW p \in Proc, AcquireStep(p) PROVE text'[q] = text[q]
        BY <4>1 DEF AcquireStep, Create, CreateExists, WriteRecord, WriteFails, Missing,
           ReadText, ReadTime, JudgeStale, JudgeLive, Rename, RenameMissing, Compare,
           Relink, Discard
      <4> QED
        BY <4>1 DEF Next, Begin, ReleaseStep, Leave, ReadOwn, Unlink, Crash, ReusePid,
           Age, vars
    <3> QED
      BY <3>1 DEF TypeOK, File, Owner
  <2>2. pc[Owner(text[q])] = "dead" => pc'[Owner(text[q])] = "dead"
    <3> USE <2>1 DEF TypeOK, Transition
    <3>1. ASSUME NEW p \in Proc, AcquireStep(p)
          PROVE  pc[Owner(text[q])] = "dead" => pc'[Owner(text[q])] = "dead"
      BY <3>1 DEF AcquireStep, Create, CreateExists, WriteRecord, WriteFails, Missing,
         ReadText, ReadTime, JudgeStale, JudgeLive, Rename, RenameMissing, Compare,
         Relink, Discard
    <3> QED
      BY <3>1 DEF Next, Begin, ReleaseStep, Leave, ReadOwn, Unlink, Crash, ReusePid,
         Age, vars
  <2>3. CASE pc[q] \in Removing
    BY <2>1, <2>2, <2>3 DEF StaleRecordsAreOfTheDead
  <2>4. CASE pc[q] \notin Removing
    <3>1. JudgeStale(q)
      <4> USE <2>4 DEF TypeOK, Transition
      <4>1. ASSUME NEW p \in Proc, AcquireStep(p) PROVE JudgeStale(q)
        BY <4>1 DEF AcquireStep, Create, CreateExists, WriteRecord, WriteFails, Missing,
           ReadText, ReadTime, JudgeStale, JudgeLive, Rename, RenameMissing, Compare,
           Relink, Discard
      <4> QED
        BY <4>1 DEF Next, Begin, ReleaseStep, Leave, ReadOwn, Unlink, Crash, ReusePid,
           Age, vars
    <3>2. PICK lookup \in BOOLEAN : Stale(q, lookup)
      BY <3>1 DEF JudgeStale
    <3>3. pc[Owner(text[q])] = "dead"
      BY <2>1, <3>2 DEF Stale, PidExists
    <3> QED
      BY <2>1, <2>2, <3>3
  <2> QED
    BY <2>3, <2>4
<1> QED
  BY <1>1, <1>2, TypeCorrect, PTL DEF Spec

\* Until a rename moves the lock of its current owner, the lock path names the
\* file of every process between its create and its unlink.
THEOREM OwnerKeepsPath == Spec => []OwnerNamesPath
<1>1. Init => OwnerNamesPath
  BY DEF Init, OwnerNamesPath, Owning
<1>2. TypeOK /\ OwnerNamesPath /\ [Next]_vars => OwnerNamesPath'
  <2> SUFFICES ASSUME TypeOK, OwnerNamesPath, [Next]_vars, ~misdirected',
                      NEW q \in Proc, pc'[q] \in Owning
               PROVE  path' = FileOf(q)'
    BY DEF OwnerNamesPath
  <2> USE DEF TypeOK, OwnerNamesPath, Owning, Transition, FileOf, fileVars, readVars
  <2>1. ASSUME NEW p \in Proc, Begin(p) PROVE path' = FileOf(q)'
    BY <2>1 DEF Begin
  <2>2. ASSUME NEW p \in Proc, AcquireStep(p) PROVE path' = FileOf(q)'
    <3>1. CASE Create(p) \/ CreateExists(p)
      BY <3>1, ConstantsAssumption DEF Create, CreateExists
    <3>2. CASE WriteRecord(p) \/ WriteFails(p)
      BY <3>2 DEF WriteRecord, WriteFails, Recorded
    <3>3. CASE Missing(p) \/ ReadText(p) \/ ReadTime(p) \/ JudgeStale(p) \/ JudgeLive(p)
      BY <3>3 DEF Missing, ReadText, ReadTime, JudgeStale, JudgeLive
    <3>4. CASE Rename(p)
      \* A rename that leaves misdirected unset took a file no owner relies on.
      BY <3>4 DEF Rename
    <3>5. CASE RenameMissing(p) \/ Compare(p) \/ Discard(p)
      BY <3>5 DEF RenameMissing, Compare, Discard
    <3>6. CASE Relink(p)
      \* An owner's file is at the path, so the path is not free.
      BY <3>6, ConstantsAssumption DEF Relink
    <3> QED
      BY <2>2, <3>1, <3>2, <3>3, <3>4, <3>5, <3>6 DEF AcquireStep
  <2>3. ASSUME NEW p \in Proc, ReleaseStep(p) PROVE path' = FileOf(q)'
    BY <2>3 DEF ReleaseStep, Leave, ReadOwn, Unlink
  <2>4. ASSUME NEW p \in Proc, Crash(p) \/ ReusePid(p) PROVE path' = FileOf(q)'
    BY <2>4 DEF Crash, ReusePid
  <2>5. CASE Age \/ UNCHANGED vars
    BY <2>5 DEF Age, vars
  <2> QED
    BY <2>1, <2>2, <2>3, <2>4, <2>5 DEF Next
<1> QED
  BY <1>1, <1>2, TypeCorrect, PTL DEF Spec

\* Two processes apply, recover or abandon at once only after a rename moved
\* the lock of its current owner away.
THEOREM ExclusionUntilMisdirection == Spec => []DoubleHolderNeedsMisdirection
<1>1. TypeOK /\ OwnerNamesPath => DoubleHolderNeedsMisdirection
  BY DEF OwnerNamesPath, DoubleHolderNeedsMisdirection, MutualExclusion, Owning, FileOf
<1> QED
  BY <1>1, TypeCorrect, OwnerKeepsPath, PTL
==============================================================================
