# A formal model of canonfig

Canonfig carries a profile of files, settings, tools and credentials from one
machine (the *Source*) to others (*Followers*), or projects an authored folder
onto the harnesses of one machine. Whatever the mode, the end is the same: a
*plan* of actions is applied to the machine under a durable journal, so that a
run that fails, is interrupted or is killed can be undone or resumed. These
TLA+ modules model that core and what surrounds it: how a plan is made, how the
user's own content survives being taken over, how a Follower enrolls, gets the
Source's revisions, keeps its secrets and is scheduled. TLC checks the modules
on small instances, and TLAPS proves what holds for every value of the
constants.

Paths in this file are relative to the repository.

## Inventory

| component | state it keeps | operations | interacts with | hard behaviour | what makes it correct |
|---|---|---|---|---|---|
| Run lock (`synchronization/run-lock.ts`, `process-identity.ts`) | one exclusively created file beside the database | acquire, inspect, remove a stale one, release, report the holder | every command that changes the machine; the source server; the secret manifest | processes interleave between awaits, die, are paused, have their PIDs recycled | one holder; a dead holder is replaced; an acquisition ends |
| Executor (`executor.ts`, `synchronization.layer.ts`) | in memory: completed actions, failed inverses | run a plan: snapshot, journal, mutate, verify, commit; undo; complete; clean up | run tables, snapshots, machine | kills, interruptions and errors between any two steps | all or nothing; nothing changes before its undo is durable |
| Recovery (`recovery.ts`) | none of its own: the journal, the snapshots, the disk | validate, inspect, restore, redo, roll back | as above | runs over the remains of any process, its own included; user edits in between | ends as the run would have, never destroys an edit |
| Abandonment (`follower-orchestration.ts`) | none | discard the snapshots, close the run | as above, takeovers | killed midway | the run ends |
| Snapshots and resource executors (`resource-executors.ts`) | manifests and copies in the cache | capture, restore, inspect, apply, verify | executor, recovery, machine | partial capture, trees, created parents, overlapping owners | a restore gives back what was captured |
| State repository (`state/`) | SQLite: runs, journal, applied records, revisions, blobs, followers, invitations, takeovers, receipts | one transaction per operation | everything | concurrent transactions, uniqueness under races | an open run excludes another; records match outcomes |
| Planner (`planner.ts`, `resource-plans.ts`, `observation.ts`) | none | order resources, compare recorded, observed and desired, choose actions | observation, executor | removals and writes of one path; partial ownership of a file | local edits become drift, never a write; removals before writes |
| Follower orchestration (`follower-orchestration.ts`, `upgrade-gate.ts`, `schedule-rollbacks.ts`) | configuration, run artifacts | fetch, observe, plan, run, reconcile the schedule, gate other builds | source server, executor, scheduler | failures between the run and the schedule; an open run under another build | the machine follows one revision; only the build that can recover does |
| Local projection (`projection/`) | takeover rows, takeover snapshots, authored folder | detect, plan, take over, run, restore, import, export | executor, state repository | rows, records and snapshots in different stores | the user's original is always kept somewhere |
| Enrollment (`enrollment/`) | invitations, pending enrollments, credentials, TLS identity | invite, consume, finalize, revoke, serve | two machines over HTTP; tunnel | lost answers, retries, crashes of either side, reuse of an invitation | one follower per invitation; both sides agree or can retry |
| Publication (`profile/`) | immutable revisions, chunked blobs | discover, compile, publish, serve ranges | state repository, followers | races for a sequence number, broken transfers | revisions never change; a blob is trusted whole or not at all |
| Schedule (`schedule/`) | native scheduler units | install, update, remove, roll back | follower orchestration | one of several native calls fails | the schedule matches the record |
| Secrets (`secrets/`) | manifest, native store | put, bind, transfer, clean up | machine, enrollment | two stores updated one after the other | no value without an entry |
| Skills (`skills/`) | installed directories, a configuration that records them, a lock, a recovery journal | track, check, update several as one transaction | upstream, the user | kills and failures between the renames, edits at any moment | what is recorded is installed, or a journal says what to put back; edits are kept |
| Agent resolution (`agent/`) | none | run a bounded external agent, verify | executor | time-outs | outcome is verified or held |
| Machine layers (`machine/`) | the machine | atomic replacement, confinement, permissions | everything | platform differences | a write is seen whole or not at all |
| Setup, source service, runtime, CLI, GUI, logging, domain | small or none | wiring, wizards, rendering, validation | the above | little | — |

## Modules

| module | what it models |
|---|---|
| `RunLock` | the lock file protocol, one action per file-system call |
| `RunTransaction` | abstract specification: a run is one transaction over files and ownership records |
| `SynchronizationRun` | executor, recovery and abandonment over journal, records, snapshots and files; implements `RunTransaction` |
| `Planner` | which actions a plan has and in which order, and what they leave when they are executed |
| `Takeover` | rows, snapshots and records around the commands that take over and give back the user's surfaces |
| `Enrollment` | invitations, two-phase enrollment, rotation, revocation and `unenroll`, between several machines and the Source |
| `ProfileFeed` | abstract specification: one sequence of contents, in which followers move forward |
| `Publication` | publishing, the blob store, selection and transfer of revisions; implements `ProfileFeed` |
| `SecretMap` | abstract specification: a map from names to values, changed by one operation at once |
| `SecretStore` | the secret manifest and the native credential store; implements `SecretMap` |
| `FollowerSchedule` | the configuration row and the native job, written by commands and runs |
| `SkillUpdate` | the transaction in which installed skills are replaced |
| `RunLockProofs`, `SecretStoreProofs`, `SynchronizationRunProofs`, `TakeoverProofs`, `PublicationProofs`, `EnrollmentProofs`, `SkillUpdateProofs`, `FollowerScheduleProofs` | the theorems, see Proofs |
| `MCRunLock`, `MCSynchronizationRun`, `MCPlanner`, `MCTakeover`, `MCEnrollment`, `MCPublication`, `MCSecretStore`, `MCFollowerSchedule`, `MCSkillUpdate` | model values, symmetry and constant definitions for TLC |

The parts meet at named places. `RunLock` justifies that `SynchronizationRun`,
`Takeover` and `SecretStore` have one command at a time (its one weakness is the
first divergence below). `Planner` executes its plans without failures;
`SynchronizationRun` takes any well-formed plan and adds kills, errors and
recovery; `Takeover` and `FollowerSchedule` see a run as a step that ends in one
of the ways `SynchronizationRun` shows. `Publication` ends where a run begins,
and `Enrollment` is what gives `FollowerSchedule` its configuration row.

### RunLock

`path` is the file the lock path names, if any; a file is identified by its
creation (process and attempt), as an inode would be, so it survives being
renamed away. `written` are the files whose record is complete, `identified`
those whose record carries the birth identity of the process, `aged` those
older than the five seconds of grace. `pc` follows each process through
`acquire` (`open`, `inspect`, `stat` or `read`, `judge`, `rename`, `compare`,
`relink`, `discard`, `write`) and `release`. The two reads of `inspectHolder`
are concurrent in the code and are two steps in either order. A process may
crash anywhere, its PID may be recycled, and time passes by `Age`. With
`MayStall = FALSE` nothing pauses longer than the grace.

### SynchronizationRun

The database is `status`, `journal`, `record`, `drifted`, `incomplete`; each of
`startRun`, `journalAction`, `recordDrift`, `completeRun` is atomic, as the
transaction around it makes it. The disk is `file`, `snap` (the rollback
snapshots) and `tool` (what installers left). The process is `pc`, `mode`
(which command), `cur`, `attempt`, `ready`, `owner`, `stack`,
`failedRollbacks`, `result`: all lost in a `Crash`. Actions carry the names of
the steps in the code: `Prepare`, `JournalRunning`, `Mutate`, `Verify`,
`Commit`, `Return` are `executeSynchronizationAction`; `Undo`, `Fail`, `Disown`
its error paths; `Unwind` and `Unjournal` the reverse rollback; `Skip`,
`Complete`, `Cleanup` the end of a run. `Recover` is the check before recovery
touches anything (`Recoverable`: the journal validates, every target of a
started action is as its snapshot or as the action leaves it), and
`TakeSkipped`, `TakeInstall`, `KeepRemoved`, `KeepWritten`, `RedoRemoved`,
`RedoWritten`, `RedoStarted` are the branches of its loop. `Interrupt` is an
Effect interruption, handled by the `onInterrupt` of the action or of the loop.

The journal state `rolled-back` stands for a `failed` event whose verification
method is `run-rolled-back`; the status `Abandoned` for a `Failed` outcome
recorded by `abandonFollowerRun`.

Simplifications, besides those in the module's header:

- one run and one process at a time: `startRun` refuses a second run while one
  is open, and `RunLock` is about the second process;
- one file per file action: trees, created parents, config keys and
  append-local text are not modelled, nor are transfer-blob, no-op and
  agent-task actions;
- a failed capture, or one the process was killed in, leaves no snapshot (the
  manifest is written last);
- a mutation happens or does not, before an error or without one; the atomic
  replacement of a file by the machine layer is taken for granted;
- the user edits between two processes only;
- a file's inverse that fails is retried once by the action's error path: a
  fault `undo` stands for both tries;
- an executor that rejects its input after `startRun`, and cleanup that fails
  after the outcome was recorded, are not modelled.

### Planner

`target`, `dependsOn`, `retired` and `applied` are the revision and the records
of earlier ones, `seen` what observation found, `plan` the actions. `Ordered`
is the depth-first order of `orderResources`; `Schedule` is the order of
`buildPlan`: retirements, what late retirements wait for, the late ones, the
rest. `Removal` and `Update` compare what is recorded, observed and desired, and
`Projected` is the observation with the removals of the plan already made.
`MakePlan` is the planner, `Write`, `RemoveFile`, `Keep`, `Stop` and `Converge`
the executor without failures. One policy (`replace-if-unmodified`) and one
kind (files) are modelled.

### Takeover

`file`, `snaps` and `excluded` are on disk, `record`, `row`, `open`, `started`
and `recorded` in the database. A command is a sequence of actions named after
the functions of `projection/sync.ts` and `takeover.ts`:
`SynchronizeLocal`, `WriteTakeoverSnapshot`, `RecordLocalRevision`,
`RecordHarnessTakeovers`, `StartRun`, `EngineStep`, then the releases and the
retention; a surface that is no longer listed retires, unless the user edited it:
then the plan leaves it alone and its record stays; likewise `RestoreLocal`, `ImportLocal`, `RecoverLocal` and
`AbandonLocal`. `Stop` kills the command between any two of them, errors take
their own branches. An abandonment removes the rollback snapshots first
(`open.cleaned`): from then on a recovery is refused if an action had started,
since its rollback target cannot be inspected. `last`, `forgone`, `exposed`,
`left`, `partial` and `halted` are history: what the user wrote last, what
retention was entitled to forget, what a recovery took over again after an
abandonment dropped its copy (see Divergences), and how the runs ended.

### Enrollment

A request is a record that a machine sends and the Source handles in the steps
of its handler (`Handle`); it may outlive the command that sent it
(`abandoned`), and its answer may be lost. `Prepare` stores a credential and a
pending row, the machine saves credential and pending configuration, and only
`finalize` consumes the invitation. `CommandStep` walks through `follower
enroll` (also with `--replace` and as a rotation) and `follower unenroll`;
a removal of a local credential that nobody checks may leave it (`Discard`);
`SaveEnrollmentSource` is `source init`, which shares the role check with it.

### Publication

A publisher reads the latest revision and the folder (`ReadLatest`), looks for
an earlier revision of the same content (`FindEarlier`), and stores revision and
blobs in one transaction (`Store`), for which it reads the files again.
`LoseBlob` is what the repair of a Source is for. A follower's command lists,
selects, looks into the cache and gets what is missing, blob by blob; two
commands share the cache and may be killed with partial files in it.

### SecretStore

`secrets` and `queue` are the manifest (entries and retired references), `items`
the native store. An operation is a record `op` that carries what it read when it
took the lock, what it created and what it will write; `Create`, `WriteManifest`,
`RemoveItem` and `Removed` are the steps all operations share. Every step may
fail or be killed, and what follows a failure may fail too: a store that fails
or is killed may have made its value (`HalfStored`), a cleanup removes what the
failed operation created but for any part of it (`Cleaned`), and a removal that
fails may have removed its value. `leaked` is history, the values that failed and
killed operations left behind, and so is `named`, those the manifest ever named.
`MayStayUnconfirmed` says whether `atomicWrite` may fail after
it has replaced the file: the code takes a failed write for none
(`secret-store.ts` removes what it had created), so the runs and the proofs
assume FALSE; with TRUE an entry may name a value that was removed, which
`EntriesResolve` then shows.

### FollowerSchedule

`config` is the row of `follower_sync_configuration`, of which every writer
saves the whole copy it read (`copy` of its activity; `schedule set --default`
reads twice); `job` is the native job. `late` is history: it marks an activity
whose row somebody else has replaced since, which `overlapped` remembers once such
an activity writes. A job armed outside Canonfig (`handArmed`) may have any
calendar until the next run, so `ApartFollowsDecision` leaves it out. `UserBegins` and `CommandStep` are `schedule set`, `schedule
remove`, `agent policy set` and `unenroll`; `SyncBegin`, `RunConverges`,
`Persist`, `Inspect` and `ChangeJob("sync")` are a run with its reconciliation,
`RecoverBegin` a recovery. `EditJob` changes the job outside Canonfig.

### SkillUpdate

`disk`, `staged` and `backup` are the three places a skill's directory can be,
`config` the configuration with the recorded content of each skill, `journal` the
`.pending` file and `lock` the lock file. `cmd` is the command that holds the
lock: what it read, what it swaps, which swaps are `moved` and `installed`,
whether it `committed` or its rollback failed. `Stage`, `WriteJournal`,
`Inspect`, `MoveAside`, `VerifyBackup`, `Install`, `CheckConfig` and
`WriteConfig` are `updateSkills` in its order; `Rollback`, `RemoveInstalled` and
`RestoreBackup` its `catch`; `Clean`, `Unjournal` and `Unlock` the `finally`
blocks. Every step may fail, a `Kill` may come between any two. The messages of
the code send an operator to the stale lock (`RemoveLock`) and to the journal
(`RecoverByHand`): these two are not code, and the second does what the journal
records, putting back the backup of a skill whose configuration is still the
previous one, but not over an edit. `mine` and `overrun` are history.

## Runs

`CHECK_DEADLOCK FALSE` throughout, because processes, runs and bounded
histories really end. Each run takes between a few seconds and three minutes.

| run | instance | shows |
|---|---|---|
| `RunLock` | 2 processes, 2 acquisitions each, 1 crash, recycled PIDs, pauses | exclusion fails in no other way than a rename of a live lock; stale records are of the dead; every acquisition ends |
| `RunCrashes` | all plans of 2 actions (5 kinds, 2 paths) and plans of 3 that hand a path over, 2 crashes, 1 interruption, 1 error of any call, 1 edit, abandonment | a converged run is what was planned; a failed one restored what it reached; every change is covered by a journaled snapshot; edits are not lost; recovery is possible but for one case |
| `RunRecords` | 2 actions on 2 paths, 1 crash, 2 errors, failing inverses, abandonment | records agree with files however the run ends; the run implements `RunTransaction`; it ends |
| `RunPlanner` | 3 resources, paths `a`, `a/x`, `b`, every acyclic dependency, retirement, earlier content and disk | no plan writes over what is in its way, loses an edit, or leaves a retired file; retirements wait for their replacements |
| `RunTakeover` | 2 harness surfaces, 1 folder entry, 3 runs, 1 edit, 1 failure or kill, retention of 1 | the user's latest version is on disk or in a snapshot; rows name snapshots that hold the surface and surfaces that were applied |
| `RunEnrollment` | 2 machines, 2 names, 2 invitations, 3 credentials, 3 commands, 1 fault | an invitation enrolls once; pending enrollments exclude one another and enrolled names; both sides agree; one role; rotation keeps a credential |
| `RunPublication` | 2 publishers, 3 publications of 2 contents that share a blob, 2 fetching commands, a damaged cache file, 1 mishap | one sequence without repetitions; what is applied is whole; the follower catches up |
| `RunSecrets` | 2 names, 6 values, 2 failures or kills | names resolve, what was once named is not forgotten, operations are atomic for the users |
| `RunSchedule` | 2 user commands, runs at any time, 1 outside edit, 1 fault, 1 new suggestion | what is off stays off; decision and job agree unless writers overlapped; drift is repaired |
| `RunSkills` | 2 skills, 2 versions, 3 commands, 3 edits, 2 failures or kills | what is recorded is installed unless a journal says otherwise; the journal can put back what was moved; the user's last edit is kept |
| `RunLockDouble`, `RunScheduleLost` | the smallest instance that shows each | see Divergences |

Bounds. Two actions are enough for the order of completed, failing and
unreached actions relative to one another; the plans of three add an action
after a removal and its successor. Two crashes are what it takes to kill a
recovery; more would repeat the same situations, as recovery starts from the
durable state alone. In `RunTakeover` three runs are a takeover, a failing or
stopped command, and one that repairs; a retention of one makes pruning happen
with two snapshots. One failure or kill does not reach the recovery after a
killed abandonment (`exposed`), which takes two; the theorems cover any number,
and their invariant was checked with three. In `RunEnrollment` three commands are an enrollment, a
competitor and a retry or `unenroll`; three credentials give each one of its
own. In `RunPublication` the third publication is the one that can return to an
earlier content. Six values in `RunSecrets` let both names be stored, replaced
and transferred. In `RunSchedule` two commands and a run are three writers of one
row. In `RunSkills` the second failure is one of the rollback that the first
began, the third command one that runs after a failed update and a recovery.
`MaySplitCommit` (an interruption between commit and return) is FALSE in
the runs of `SynchronizationRun`, see Divergences.

Fairness. `RunLock!FairSpec` lets a process that is alive keep running its
acquisition and its release; nothing makes one start, die or time pass.
`SynchronizationRun!FairSpec` lets a running command keep running and has the
operator run `recover` again while the run is open, which is what the program
asks for. `FollowerSchedule!FairSpec` lets every started command end, and the
job or the user start runs and recover an interrupted one (strongly, since other
runs come in between), with runs that converge again and
again. `Publication!FairSpec` has the follower's job run again and again and go
on. Crashes, errors, edits and publications are bounded and never forced.

## Properties

- `DoubleHolderNeedsMisdirection`, `OwnerNamesPath`, `StaleRecordsAreOfTheDead`:
  the lock's exclusion rests on one assumption only, that `rename` moves the file
  that was judged. `misdirected` records when it did not.
- `SynchronizationRun!ConvergedIsDesired`, `FailureRestoresFiles`,
  `FailureRestoresRecords`, `RecordsTellTheTruth`: the three outcomes of a run,
  of files and of records.
- `MutationIsJournaled`: write-ahead; the reason recovery can work at all.
- `RecoverableUnlessOverlaid`, `JournalAcceptable`: recovery never refuses the
  remains of canonfig's own work.
- `EditsAreKept` (of a run, and of a plan): no step overwrites a user's edit
  whose content is not in the snapshot of an action on that path.
- `FailureNeedsAnError`: held actions do not roll others back, but for the
  installation that a recovery left to a human (`LeftToHuman`).
- `Planner!ConvergedIsDesired`, `RetiredAfterReplacement`: a path may change its
  owner within one plan without either losing its file. `NoLateHandover` is the
  condition both need: a retirement that waits removes what an active resource
  it waits for has written at the same path; `planFollowerRun` never asks for it.
- `LastVersionKept`, `RowsResolve`, `RowsAreApplied`: three stores changed one
  after the other around a run never strand the user's original.
- `InvitationEnrollsOne`, `PendingIsExclusive`, `CompleteIsEnrolled`, `OneRole`,
  `CredentialKept`: see the table above.
- `PublishedWasLatest`, `AppliedIsWhole`, `CatchesUp`, and `ImplementsFeed`.
- `EntriesResolve`, `NothingUnnamed`, and `ImplementsSecretMap`. `NothingUnnamed`
  has two halves. A value nobody names comes from an operation that failed or was
  killed before it named it, and from nothing else. A value the manifest once
  named never gets there: until it is removed it is named or queued, so the next
  operation tries again, whatever removal or cleanup failed.
- `ApartFollowsDecision`, `OffStaysOff`, `DriftIsRepaired`.
- `RecordedIsInstalled`, `JournalRestores`: the configuration and the directories
  are changed one after the other, and yet agree, or a journal stands between
  them that is enough to make them agree. `LastEditKept`: what the user
  wrote last to a skill is in its place or in a backup, whatever an update, its
  failure or its undoing did; the one exception is history (`overrun`).
- `OpenRunEnds`, `AcquireEnds`: liveness.
- `ImplementsTransaction`: refinement. `ViewOf` calls a resource *before*,
  *after* or *between*, and at the end of a run none is between unless the
  outcome says that the rollback is incomplete. A failure counts as `failed`
  (everything as before) only in a run nothing stopped, because of the second
  item under Divergences; a failure after a crash is mapped to `incomplete`.

## Divergences

Two are runs with `expect: violation`, whose trace TLC prints.

| run | what the code does |
|---|---|
| `RunLockDouble` | a process pairs the age of another's old lock with the empty text of its new one, not written yet, judges that lock stale, renames it aside, finds the empty text again and discards it; then it makes its own, and both are in the critical section |
| `RunScheduleLost` | a run saves the whole configuration row it read when it began, over a decision saved meanwhile |

Others were met while modelling, with no run of their own; the definition or
constant in brackets is what shows each one:

- a recovery that fails before it reaches what the killed run had applied leaves
  it applied and reports a complete rollback (`FailedRunIsUndone`); the
  completed rollback makes the projection delete its takeover snapshot;
- a rollback whose journal call fails leaves the record of what it undid
  (`FailureRestoresRecords` with more than one crash and the fault `journal`);
- a recovery killed while it redoes a completed write makes the next one forget
  which record to reinstate (the same with two crashes);
- a removal's own inverse is taken for a user's edit of its successor, and
  recovery refuses (`RecoverableUnlessOverlaid` names the case);
- an interruption between commit and return journals an event that recovery
  rejects (`JournalAcceptable` with `MaySplitCommit`);
- a held installer is a failure to the next recovery, which rolls back the run
  (`FailureNeedsAnError` with installers);
- `abandon` removes the snapshots before it closes the run: a kill in between
  leaves a run that can only be abandoned again (`Discarded`);
- recovery executes an action that had not started without observing its target
  again: an edit since the plan was made is replaced, and its copy lives in the
  snapshot until the run ends;
- the lock file of a live process can outlive its critical section when it is
  linked back after `release`, or when the process could not finish writing it;
- a retirement that waits for active resources removes what one of them has
  written at the same path (`NoLateHandover`);
- a pending configuration whose credential is gone makes every later `follower
  enroll` fail in the resumption (`DiscardedIsRetryable`), and so does an expired
  invitation; a failed replacement may leave the machine without a complete
  enrollment (`ReplacementKeepsIdentity`);
- an invitation presented again under another name leaves the credential stored
  for it at the Source; `unenroll` of a pending enrollment does not cancel it at
  the Source; authentication and revocation are two reads in the handler of a
  revocation (`enrollment.layer.ts:905`);
- `abandon` drops the snapshot entries of what never started before it closes the
  run (`sync.ts:800` has another abandonment in mind): killed in between, the run
  stays open, `recover` accepts it when no action had started, and writes those
  surfaces whatever they hold, with no copy left of what they held. The promise
  of `docs/global-folder.md:143`, a snapshot before the first write, does not
  cover this; `LastVersionKept` names the case (`exposed`);
- a stopped command leaves takeover rows of a run the engine never recorded
  (`NoTakeoverBehind`); retiring a surface keeps its row; a cleanup of rollback
  snapshots that fails after the outcome skips the projection's own end of the
  run; an incomplete rollback is announced as "available for restore", while
  `restore` refuses surfaces without a record; an orphan snapshot of a killed
  run counts as the first one in retention;
- `planFollowerRun` makes a retired script or rule wait for all surfaces, and they
  for the whole mirror: an item of the folder whose path becomes a directory
  (`hooks/lib`, then `hooks/lib/run.sh`) is planned before the old file is
  removed, cannot be observed below it, and every run asks a human about a path
  nobody edited (`follower-orchestration.ts:507`; the comment at 378 says that
  retirements inside the folder stay first);
- a rollback of skills compares an installed directory and then removes it
  recursively: an edit in between is lost (`overrun`); an edit of the skill
  configuration between the last comparison and the write is lost too
  (`WriteConfig`);
- reconciling the job inspects and installs in two steps and re-arms a job that
  was disabled in between (`docs/architecture.md:428` says otherwise); a new
  rendering that is interrupted leaves the job off;
- two first publications with different profile ids both succeed, and followers
  of one never see the other; storing blobs again repairs lost rows of a blob
  only when all of them are lost, not when only its chunks or its manifest is;
  specifications in cached blobs are decoded without verifying the blob again;
- a value that a failing store has made nonetheless, or whose cleanup fails after
  a failure (`cleanupReferences` ignores it), stays in the native store and
  nothing names it, without any kill (`leaked`);
- the values of a transfer of secrets are fetched before the manifest is locked;
  a manifest write that fails after it replaced the file makes the store remove
  the values it now names (`MayStayUnconfirmed`).

## Proofs

`RunLockProofs` proves for any set of processes, any number of acquisitions and
crashes, from the assumptions on the constants in `RunLock`:

- `TypeCorrect`: `TypeOK`, the types of the variables.
- `StaleIsDead`: `StaleRecordsAreOfTheDead`. The strengthening says what a
  process that read a record knows of it: only its owner's file was ever written
  with it, and once judged stale its owner is dead, which nothing undoes.
- `OwnerKeepsPath`: `OwnerNamesPath`. Inductive together with `TypeOK`, since
  while no rename was misdirected the path can be taken from its owner neither
  by a creation (which is exclusive), nor by a link (which never replaces), nor
  by the release of another.
- `ExclusionUntilMisdirection`: mutual exclusion follows, because two owners
  would have the same path name two files.

`SecretStoreProofs` proves for any set of names and any number of values,
failures and kills, from the assumptions on the constants in `SecretStore` and
`Confirmed` (a failed write of the manifest has written nothing):

- `StoreIsTyped`, `EntriesAlwaysResolve`, `NothingIsForgotten`: `TypeOK`,
  `EntriesResolve` and `NothingUnnamed`, the last one with any of the failures
  and cleanups that fail as well. None is inductive: whether a value may be
  removed depends on what the operation in progress is about to write. `Together`
  says so per phase (`InMerge`, `InCreate`, `InWrite`, `InRemove`), and that a
  reference is given out once (`Given`) and names one entry (`Manifest`). All
  operations begin alike, so `BeginKeeps` asks of each only that what it carries
  fits the manifest it read (`Proper`); all failures end alike (`EndKeeps`,
  `FailureKeeps`, `StopKeeps`), since what a failing store may have made was never
  given out before (`HalfStoredIsNew`).

- `StoreIsAMap`: `ImplementsSecretMap`. Beside `Together` it needs to know which
  change of the map the manifest an operation is about to write amounts to
  (`Intended`: one name stored, one removed, or the Source's replaced). The map a
  user sees depends on the entries alone (`SameView`), so each step but the write
  of the manifest stutters (`MapStays`), and the write is one step of the map
  (`MapStores`, `MapRemoves`, `MapTransfers`).

`SynchronizationRunProofs` proves, for every well-formed plan and any number of
paths, crashes, interruptions, errors and edits, every property of the run that
TLC checks but the liveness one. Its second half, on the journal and the
outcomes, builds on the invariant of the first:

- `TypeCorrect`, `ConvergedRunsAreDesired`, `FailuresRestoreFiles`,
  `MutationsAreJournaled`, `ProgramKeepsEdits` (`ConvergedIsDesired`,
  `FailureRestoresFiles`, `MutationIsJournaled`, `EditsAreKept`) need no more
  than `ConstantsAssumption`. The
  invariant `IInv` says what a process at each step may take for granted
  (`Control`), which actions have a reference to a snapshot (`Journals`), that
  the stack is the completed files, latest first (`Stack`), what the snapshots
  hold (`Files`) and how far the files are (`Progress`). `Files` and `Stack`
  need each other: the inverse of the second action on a path leaves what the
  first one made, so the path is the user's again only because the first is
  still to be undone.
- `JournalsAreAcceptable` (`JournalAcceptable`) assumes `~MaySplitCommit`: an
  interruption between commit and return does journal one event too many (see
  Divergences). `Attempts` says that
  the attempt of the action in hand has not ended, and that the stack holds each
  completed action with the attempt that ended it. `FailuresNeedAnError`
  (`FailureNeedsAnError`) holds without any assumption: what is skipped or held
  never leads to a failure but where an installation was left to a human.
- `FailuresRestoreRecords` (`FailureRestoresRecords`) also assumes that no call
  to the journal fails, since such a failure leaves the record of what was
  undone. `RecordsAreTrue` and `RunIsATransaction` (`RecordsTellTheTruth`,
  `ImplementsTransaction`) further assume plans without installations
  (`NoInstalls`): a recovery that cannot confirm an installation stops before a
  write that was begun again, whose file was restored under the record of its
  first execution. These are the constants of `RunRecords`, and each divergence
  is among those above. `RunsAreRecoverable` (`RecoverableUnlessOverlaid`) needs
  `~MaySplitCommit` only. `Outcomes` relates files to the journal in every
  process, `Ownership` the records to it until the run is stopped a second
  time, `Untampered` says that files nobody edited hold what a recovery knows.
  A second stop is where `FailureRestoresRecords` ends too: a second recovery
  no longer knows the record that an interrupted re-execution replaced
  (`crashes + interrupts <= 1`).

`PublicationProofs` proves `PublishedContentsWereLatest`,
`AppliedContentsAreWhole` and `PublicationIsAFeed` (`PublishedWasLatest`,
`AppliedIsWhole`, `ImplementsFeed`) for any number of publishers, commands,
contents and blobs. A publisher stores a revision under a number it chose steps
before; `Storing` says that this number is at most the next one, `Numbered` that
the numbers have no gap, so an insertion that succeeds appends. `Collected` says
that whatever of a revision is damaged in the cache, a command that fetches it
still has to look at or has in hand, although the commands share the cache and
any of them may be killed.

`EnrollmentProofs` proves `InvitationsEnrollOne`,
`PendingEnrollmentsAreExclusive`, `MachinesHaveOneRole`,
`CompleteEnrollmentsAreFinalized` and `CredentialsAreKept`
(`InvitationEnrollsOne`, `PendingIsExclusive`, `OneRole`, `CompleteIsEnrolled`,
`CredentialKept`) for any number of machines, names, invitations, credentials,
commands and faults. Requests outlive their commands, so what the two
sides know of each other is what the credentials say: `Owned` binds each
credential to one name wherever it is (tables, requests, commands,
configurations). With it the answer to a finalization, which names nobody,
speaks of the identity the machine enrolls (`Clearing`), and a credential in the
making is never the one in use (`Superseding`), so giving it up loses nothing.

`SkillUpdateProofs` proves `RecordedSkillsAreInstalled`, `JournalsRestore` and
`LastEditsAreKept` (`RecordedIsInstalled`, `JournalRestores`, `LastEditKept`) for
any set of skills and any number of versions, commands, kills, failures and
edits, from `ConstantsAssumption` alone. A kill takes the command's memory, so
the invariant is in two parts. `Durable` speaks of files only: a skill is in
order or `Held`, which it is while the journal tells of an uncommitted swap of
it; only a held one has an edit in its backup; what a held one had is in the
backup or still in place. `Doing` adds what the command in progress knows of the
skills it has moved aside, installed or restored. Two facts close the argument:
the commit writes the config only when every swap is installed, so that nothing
is held any longer; and a rollback that did not fail leaves no backup, so that
the journal may go.

`FollowerScheduleProofs` proves `JobsFollowTheDecision` and
`JobsTurnedOffStayOff` (`ApartFollowsDecision`, `OffStaysOff`) for any calendars,
any set of commands at once and any number of edits, errors, kills and revisions.
For the first, `Apart` says what holds while nobody has written from an older
row: an actor whose row is the latest wants the job that row asks for
(`WantsAsked`), what such an actor is about to enable is the job it wants
(`EnablesWanted`), and an armed job that is not the one asked for has somebody
about to change it (`ArmedIsAsked`). The last part ends with the first fault,
because an interrupted run is recovered and a recovery stores the default without
looking at the job (`NoRecovery`). For the second, a run goes on to change a job
only after it found it armed, so the job was not off all along (`OffStays`).

`TakeoverProofs` proves `LastVersionsAreKept`, `RowsAlwaysResolve` and
`RowsAreOfAppliedSurfaces` (`LastVersionKept`, `RowsResolve`, `RowsAreApplied`)
for any surfaces and folder entries, any retention, and any number of runs,
edits, failures and kills, from `ConstantsAssumption` alone. `Inv` is the types
and four parts. `Phase` relates the command to the open run: what a command that
is preparing knows of files and records is still true, and what an open run has
not written is as it was. `Saved` is for the user's content. A copy of the latest
version may be in the snapshot of the very run that is about to be undone, so
the invariant tells copies elsewhere (`Elsewhere`) from any copy (`Preserved`):
content that comes from a record or from an earlier snapshot has one elsewhere
(`RecordKept`, `StartCovered`, `OpenCovered`), content the run takes over has
one by the time the engine writes, and an entry is dropped only while its surface
holds the same (`CopiesMatch`). `RowsKept` adds that the rows of a run go before
the entries they name (`RowsReleased`). `Applied` gives each row its reason,
which, while a run is on its way, may be that the run is the current one
(`Pending`), and keeps the reason through a rollback, which puts back the record
of before (`RunRows`).

The inductive invariants of publication, enrollment, the skills, the schedule and
the takeovers were checked by TLC on the instances of `RunPublication`,
`RunEnrollment`, `RunSkills`, `RunSchedule` and `RunTakeover` before they were
proved; that of the schedule also with two commands at once, and with three
commands and two outside edits; that of the takeovers also with three failures
or kills, on two runs of three surfaces and on three runs of two.

Model-checked only:

- liveness (`AcquireEnds`, `OpenRunEnds`, `CatchesUp`, `DriftIsRepaired`), which
  is out of the prover's reach;
- `Planner` (`ConvergedIsDesired`, `RetiredAfterReplacement`, `EditsAreKept`): it
  orders resources with recursive operators, for which the prover has no support,
  and a plan is a fold over that order, of which a proof would need induction
  over data.

## Plan

1. `FollowerSync`: composes an abstract run with the upgrade gate, the run
   artifacts and the schedule; other kinds and policies in `Planner`.
2. The switch of the installed build (`runtime/self-update`).

## Not modelled

Adapters, codecs, compilers and rendering are pure translation; machine layers,
tunnel, source service and GUI are I/O around the parts above. Agent resolution
reaches a run as one more held or verified action. Most lines of the repository
are of these kinds, or validate, describe and report what the modelled parts do.
`PROJECT.json` lists every component with its status.
