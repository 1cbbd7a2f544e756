----------------------------- MODULE SkillUpdate -----------------------------
(***************************************************************************)
(* How the skills manager (src/src/skills/manager.ts) tracks installed     *)
(* skills and updates several of them as one transaction: new directories  *)
(* are staged, a recovery journal is written, each installed directory is  *)
(* moved aside and its successor moved in, and then the configuration that *)
(* records what is installed is replaced.  A failure undoes it; a process  *)
(* that is killed leaves its lock, and perhaps the journal, and every      *)
(* later command refuses until somebody has looked.                        *)
(*                                                                         *)
(* Abstractions: a directory is its content; skills are swapped and        *)
(* restored in any order (the code goes by the configuration, and back);   *)
(* modes, links and previews are left out; the names of staged and backed  *)
(* up directories are never used again, so what an earlier command left of *)
(* them is forgotten.  A write or a rename that fails has done nothing,    *)
(* and the lock is always released.  A configuration is the recorded       *)
(* content of each skill and a counter for whatever else the user changes. *)
(***************************************************************************)
EXTENDS Naturals, FiniteSets

CONSTANTS
  Skill,
  MaxVersions,  \* bound: versions of each skill upstream
  MaxEdits,     \* bound: edits of skills and of the configuration
  MaxFaults,    \* bound: operations that fail, and kills
  MaxCommands   \* bound: commands

ASSUME ConstantsAssumption ==
  MaxVersions \in Nat \ {0} /\ {MaxEdits, MaxFaults, MaxCommands} \subseteq Nat

\* What a directory holds: nothing, a version, an edit of the user's, or
\* what a failed removal left.
Gone == 0
Version == 1..MaxVersions
Edit == MaxVersions + 1..MaxVersions + MaxEdits
Torn == MaxVersions + MaxEdits + 1
Untracked == 0

VARIABLES
  upstream,  \* the latest version of each skill
  config,    \* the configuration file
  disk,      \* the installed directories
  staged, backup,
  journal,   \* the .pending file, as the set of its swaps with previousConfig
  lock,
  cmd,       \* the command that holds the lock
  commands, edits, faults,
  mine,      \* history: what the user last wrote to each skill, or Gone
  overrun    \* history: skills edited between the look at them and their removal

dirs == <<disk, staged, backup>>
bounds == <<commands, edits, faults>>
history == <<mine, overrun>>
vars == <<upstream, config, dirs, journal, lock, cmd, bounds, history>>

NoJournal == [swaps |-> {}, previous |-> [s \in Skill |-> Untracked]]

\* A command: where it is, the configuration it read, the versions it
\* fetched, the skills it swaps, those still to do, the one in hand and what
\* happened to each.
Idle == [pc |-> "idle", original |-> [skills |-> NoJournal.previous, note |-> 0],
         next |-> NoJournal.previous, swaps |-> {}, todo |-> {}, in |-> {},
         moved |-> {}, installed |-> {}, committed |-> FALSE, rollbackFailed |-> FALSE]

Init ==
  /\ upstream = [s \in Skill |-> 1]
  /\ config \in [skills : [Skill -> {Untracked, 1}], note : {0}]
  /\ disk = [s \in Skill |-> 1]
  /\ staged = [s \in Skill |-> Gone]
  /\ backup = [s \in Skill |-> Gone]
  /\ journal = NoJournal
  /\ lock = "free"
  /\ cmd = Idle
  /\ commands = 0 /\ edits = 0 /\ faults = 0
  /\ mine = [s \in Skill |-> Gone]
  /\ overrun = {}

Fault == faults < MaxFaults /\ faults' = faults + 1
Tracked == {s \in Skill : config.skills[s] # Untracked}

\* A step of the command in progress: which variables of the disk it changes
\* is said by each.
At(pc) == cmd.pc = pc
Step == UNCHANGED <<upstream, lock, commands, edits, mine>>
Goto(pc) == cmd' = [cmd EXCEPT !.pc = pc]

\* The catch block: everything is undone.
Throw == cmd' = [cmd EXCEPT !.pc = "rollback", !.todo = cmd.swaps, !.in = {}]

-----------------------------------------------------------------------------
(* Commands begin: the lock, the journal, the configuration.               *)

\* withLock: exclusive creation, and no command over an open journal.
WithLock ==
  /\ lock = "free"
  /\ journal = NoJournal
  /\ lock' = "held"
  /\ commands < MaxCommands
  /\ commands' = commands + 1

\* prepare: local edits in any of the wanted skills refuse the update of all.
Prepare(wanted) ==
  IF \E s \in Tracked \cap wanted : disk[s] # config.skills[s] THEN {}
  ELSE {s \in Tracked \cap wanted : upstream[s] # config.skills[s]}

\* updateSkills, up to what there is to do.
UpdateSkills(wanted) ==
  /\ WithLock
  /\ LET changed == Prepare(wanted) IN
     cmd' = [Idle EXCEPT !.pc = IF changed = {} THEN "unlock" ELSE "stage",
               !.original = config, !.swaps = changed, !.todo = changed,
               !.next = [s \in Skill |-> IF s \in changed THEN upstream[s]
                                         ELSE config.skills[s]]]
  /\ staged' = [s \in Skill |-> Gone]
  /\ backup' = [s \in Skill |-> Gone]
  /\ UNCHANGED <<upstream, config, disk, journal, edits, faults, history>>

\* trackSkill: a version the user asks for, installed already.
TrackSkill(s, v) ==
  /\ WithLock
  /\ s \notin Tracked
  /\ v <= upstream[s]
  /\ cmd' = [Idle EXCEPT !.pc = IF disk[s] = v THEN "track" ELSE "unlock",
               !.original = config, !.next = [config.skills EXCEPT ![s] = v]]
  /\ UNCHANGED <<upstream, config, dirs, journal, edits, faults, history>>

-----------------------------------------------------------------------------
(* The transaction.                                                        *)

Stage ==
  /\ At("stage")
  /\ IF cmd.todo = {} THEN Goto("journal") /\ UNCHANGED <<staged, faults>>
     ELSE \E s \in cmd.todo :
       \/ /\ disk[s] # Gone                 \* its mode is read
          /\ staged' = [staged EXCEPT ![s] = cmd.next[s]]
          /\ cmd' = [cmd EXCEPT !.todo = @ \ {s}]
          /\ UNCHANGED faults
       \/ /\ Fault /\ Throw
          /\ staged' \in {staged, [staged EXCEPT ![s] = Torn]}
  /\ Step /\ UNCHANGED <<config, disk, backup, journal, overrun>>

\* The journal is written when the configuration is as it was.
WriteJournal ==
  /\ At("journal")
  /\ \/ /\ config = cmd.original
        /\ journal' = [swaps |-> cmd.swaps, previous |-> cmd.original.skills]
        /\ cmd' = [cmd EXCEPT !.pc = "inspect", !.todo = cmd.swaps]
        /\ UNCHANGED faults
     \/ config # cmd.original /\ Throw /\ UNCHANGED <<journal, faults>>
     \/ Fault /\ Throw /\ UNCHANGED journal
  /\ Step /\ UNCHANGED <<config, dirs, overrun>>

\* Is the installed skill still what is recorded?
Inspect ==
  /\ At("inspect")
  /\ IF cmd.todo = {} THEN Goto("check") /\ UNCHANGED faults
     ELSE \E s \in cmd.todo :
       \/ /\ disk[s] = cmd.original.skills[s]
          /\ cmd' = [cmd EXCEPT !.pc = "aside", !.in = {s}, !.todo = @ \ {s}]
          /\ UNCHANGED faults
       \/ disk[s] # cmd.original.skills[s] /\ Throw /\ UNCHANGED faults
       \/ Fault /\ Throw
  /\ Step /\ UNCHANGED <<config, dirs, journal, overrun>>

\* It is moved aside, with whatever the user has done to it meanwhile.
MoveAside ==
  /\ At("aside")
  /\ \E s \in cmd.in :
       \/ /\ backup' = [backup EXCEPT ![s] = disk[s]]
          /\ disk' = [disk EXCEPT ![s] = Gone]
          /\ cmd' = [cmd EXCEPT !.pc = "verify", !.moved = @ \cup {s}]
          /\ UNCHANGED faults
       \/ Fault /\ Throw /\ UNCHANGED <<disk, backup>>
  /\ Step /\ UNCHANGED <<config, staged, journal, overrun>>

\* Mutant: what was moved aside is not looked at again.
MutantVerifyBackup ==
  /\ At("verify")
  /\ Goto("install")
  /\ Step /\ UNCHANGED <<config, dirs, journal, faults, overrun>>

VerifyBackup ==
  /\ At("verify")
  /\ \E s \in cmd.in :
       \/ backup[s] = cmd.original.skills[s] /\ Goto("install") /\ UNCHANGED faults
       \/ backup[s] # cmd.original.skills[s] /\ Throw /\ UNCHANGED faults
       \/ Fault /\ Throw
  /\ Step /\ UNCHANGED <<config, dirs, journal, overrun>>

Install ==
  /\ At("install")
  /\ \E s \in cmd.in :
       \/ /\ disk[s] = Gone
          /\ disk' = [disk EXCEPT ![s] = staged[s]]
          /\ staged' = [staged EXCEPT ![s] = Gone]
          /\ cmd' = [cmd EXCEPT !.pc = "inspect", !.in = {}, !.installed = @ \cup {s}]
          /\ UNCHANGED faults
       \/ disk[s] # Gone /\ Throw /\ UNCHANGED <<disk, staged, faults>>
       \/ Fault /\ Throw /\ UNCHANGED <<disk, staged>>
  /\ Step /\ UNCHANGED <<config, backup, journal, overrun>>

\* The configuration is compared and then replaced; trackSkill ends likewise.
CheckConfig ==
  /\ At("check") \/ At("track")
  /\ LET tracking == At("track") IN
     IF config = cmd.original THEN Goto(IF tracking THEN "record" ELSE "commit")
     ELSE IF tracking THEN Goto("unlock") ELSE Throw
  /\ Step /\ UNCHANGED <<config, dirs, journal, faults, overrun>>

WriteConfig ==
  /\ At("commit") \/ At("record")
  /\ LET tracking == At("record") IN
     \/ /\ config' = [cmd.original EXCEPT !.skills = cmd.next]
        /\ cmd' = [cmd EXCEPT !.pc = IF tracking THEN "unlock" ELSE "clean",
                     !.committed = TRUE, !.todo = cmd.swaps]
        /\ UNCHANGED faults
     \/ /\ Fault
        /\ IF tracking THEN Goto("unlock") ELSE Throw
        /\ UNCHANGED config
  /\ Step /\ UNCHANGED <<dirs, journal, overrun>>

-----------------------------------------------------------------------------
(* Rollback and cleanup.                                                   *)

\* What is installed is removed only when it is what was installed.
Rollback ==
  /\ At("rollback")
  /\ IF cmd.todo = {} THEN cmd' = [cmd EXCEPT !.pc = "clean", !.todo = cmd.swaps]
     ELSE \E s \in cmd.todo :
       LET edited == s \in cmd.installed /\ disk[s] # cmd.next[s] IN
       cmd' = [cmd EXCEPT !.todo = @ \ {s}, !.in = {s},
                 !.pc = IF s \in cmd.installed /\ ~edited THEN "remove"
                        ELSE IF s \in cmd.moved /\ ~edited THEN "restore"
                        ELSE "rollback",
                 !.rollbackFailed = @ \/ edited]
  /\ Step /\ UNCHANGED <<config, dirs, journal, faults, overrun>>

RemoveInstalled ==
  /\ At("remove")
  /\ \E s \in cmd.in :
       /\ overrun' = IF disk[s] # cmd.next[s] THEN overrun \cup {s} ELSE overrun
       /\ \/ /\ disk' = [disk EXCEPT ![s] = Gone]
             /\ Goto("restore")
             /\ UNCHANGED faults
          \/ /\ Fault
             /\ disk' \in {disk, [disk EXCEPT ![s] = Torn]}
             /\ cmd' = [cmd EXCEPT !.pc = "rollback", !.rollbackFailed = TRUE]
  /\ Step /\ UNCHANGED <<config, staged, backup, journal>>

RestoreBackup ==
  /\ At("restore")
  /\ \E s \in cmd.in :
       \/ /\ disk[s] = Gone
          /\ disk' = [disk EXCEPT ![s] = backup[s]]
          /\ backup' = [backup EXCEPT ![s] = Gone]
          /\ Goto("rollback")
          /\ UNCHANGED faults
       \/ /\ (disk[s] # Gone /\ UNCHANGED faults) \/ Fault
          /\ cmd' = [cmd EXCEPT !.pc = "rollback", !.rollbackFailed = TRUE]
          /\ UNCHANGED <<disk, backup>>
  /\ Step /\ UNCHANGED <<config, staged, journal, overrun>>

\* Mutant: the backups go although nothing was committed.
MutantDisposable(s) == {s}

\* The backups that go with the transaction.
Disposable(s) == IF cmd.committed THEN {s} ELSE {}

\* Staged directories, and backups after a commit; what cannot be removed stays.
Clean ==
  /\ At("clean")
  /\ IF cmd.todo = {} THEN Goto("unjournal") /\ UNCHANGED <<staged, backup, faults>>
     ELSE \E s \in cmd.todo :
       /\ cmd' = [cmd EXCEPT !.todo = @ \ {s}]
       /\ LET without == [staged EXCEPT ![s] = Gone]
              rest == [t \in Skill |-> IF t \in Disposable(s) THEN Gone ELSE backup[t]] IN
          \/ staged' = without /\ backup' = rest /\ UNCHANGED faults
          \/ Fault /\ staged' \in {staged, without} /\ backup' \in {backup, rest}
  /\ Step /\ UNCHANGED <<config, disk, journal, overrun>>

\* Mutant: the journal goes whatever became of the rollback.
MutantUnjournal ==
  /\ At("unjournal")
  /\ journal' = NoJournal
  /\ Goto("unlock")
  /\ Step /\ UNCHANGED <<config, dirs, faults, overrun>>

\* The journal stays when the rollback was not complete.
Unjournal ==
  /\ At("unjournal")
  /\ \/ journal' = (IF cmd.rollbackFailed THEN journal ELSE NoJournal) /\ UNCHANGED faults
     \/ Fault /\ UNCHANGED journal
  /\ Goto("unlock")
  /\ Step /\ UNCHANGED <<config, dirs, overrun>>

Unlock ==
  /\ At("unlock")
  /\ lock' = "free"
  /\ cmd' = Idle
  /\ UNCHANGED <<upstream, config, dirs, journal, bounds, history>>

-----------------------------------------------------------------------------
(* Kills, and what happens outside.                                        *)

Kill ==
  /\ cmd # Idle
  /\ Fault
  /\ cmd' = Idle
  /\ lock' = "stale"
  /\ UNCHANGED <<upstream, config, dirs, journal, commands, edits, history>>

\* Somebody removes the lock of a dead process.
RemoveLock ==
  /\ lock = "stale"
  /\ lock' = "free"
  /\ UNCHANGED <<upstream, config, dirs, journal, cmd, bounds, history>>

\* Somebody follows the journal: what was not committed is put back, but not
\* over an edit.
RecoverByHand ==
  /\ journal # NoJournal
  /\ lock = "free"
  /\ LET back == {s \in journal.swaps :
                    /\ config.skills[s] = journal.previous[s]
                    /\ backup[s] # Gone /\ disk[s] \notin Edit} IN
     /\ disk' = [s \in Skill |-> IF s \in back THEN backup[s] ELSE disk[s]]
     /\ mine' = [s \in Skill |-> IF s \notin back THEN mine[s]
                                 ELSE IF backup[s] \in Edit THEN backup[s] ELSE Gone]
  /\ backup' = [s \in Skill |-> Gone]
  /\ journal' = NoJournal
  /\ UNCHANGED <<upstream, config, staged, lock, cmd, bounds, overrun>>

\* The user edits a skill, or the configuration, or, while no command runs,
\* brings a skill back to what is recorded.
UserEdits ==
  /\ edits < MaxEdits
  /\ edits' = edits + 1
  /\ \/ \E s \in Skill :
          /\ disk' = [disk EXCEPT ![s] = MaxVersions + edits']
          /\ mine' = [mine EXCEPT ![s] = MaxVersions + edits']
          /\ UNCHANGED config
     \/ \E s \in Tracked :
          /\ disk[s] \in Edit /\ lock # "held"
          /\ disk' = [disk EXCEPT ![s] = config.skills[s]]
          /\ mine' = [mine EXCEPT ![s] = Gone]
          /\ UNCHANGED config
     \/ config' = [config EXCEPT !.note = edits'] /\ UNCHANGED <<disk, mine>>
  /\ UNCHANGED <<upstream, staged, backup, journal, lock, cmd, commands, faults, overrun>>

Release ==
  /\ \E s \in Skill : /\ upstream[s] < MaxVersions
                      /\ upstream' = [upstream EXCEPT ![s] = @ + 1]
  /\ UNCHANGED <<config, dirs, journal, lock, cmd, bounds, history>>

CommandStep ==
  \/ Stage \/ WriteJournal \/ Inspect \/ MoveAside \/ VerifyBackup \/ Install
  \/ CheckConfig \/ WriteConfig
  \/ Rollback \/ RemoveInstalled \/ RestoreBackup \/ Clean \/ Unjournal \/ Unlock

Next ==
  \/ \E wanted \in SUBSET Skill \ {{}} : UpdateSkills(wanted)
  \/ \E s \in Skill, v \in Version : TrackSkill(s, v)
  \/ CommandStep
  \/ Kill \/ RemoveLock \/ RecoverByHand \/ UserEdits \/ Release

Spec == Init /\ [][Next]_vars

-----------------------------------------------------------------------------
\* Unless a journal says otherwise, what is recorded is what is installed,
\* but for the user's edits, whenever no command is running: however one
\* failed or was killed.
RecordedIsInstalled ==
  lock # "held" /\ journal = NoJournal =>
    \A s \in Tracked : disk[s] \in {config.skills[s], mine[s]} \ {Gone}

\* While there is a journal, each skill of a transaction that did not commit
\* can be had back: what was installed, or the user's edit of it, is in its
\* place or in its backup.
JournalRestores ==
  \A s \in journal.swaps : config.skills[s] = journal.previous[s] =>
    \/ backup[s] \in {journal.previous[s]} \cup Edit
    \/ backup[s] = Gone /\ disk[s] \in {journal.previous[s]} \cup Edit

\* What the user wrote last to a skill is in its place or in a backup,
\* whatever an update, its failure or its undoing did, unless the edit fell
\* between the last look of a rollback and the removal it allows.
LastEditKept ==
  \A s \in Skill : mine[s] # Gone =>
    \/ mine[s] \in {disk[s], backup[s]}
    \/ s \in overrun
=============================================================================
