-------------------------- MODULE SkillUpdateProofs --------------------------
(***************************************************************************)
(* What TLAPS proves of the skills manager for any set of skills and any   *)
(* number of versions, edits, failures, kills and commands: what is        *)
(* recorded is installed or a journal stands, the journal is enough to     *)
(* have everything back, and the user's last edit is not lost.             *)
(*                                                                         *)
(* A skill is Held while the journal tells of a swap of it that was not    *)
(* committed.  Durable, which kills leave as it is, says of each skill     *)
(* that it is in order or held, that only a held one has an edit in its    *)
(* backup, and that what is in its place or its backup can be had back.    *)
(* Doing says what the command in progress knows of the skills it swaps:   *)
(* which are moved aside, installed or restored.  A rollback without a     *)
(* failure leaves no backup, so the journal may go.                        *)
(***************************************************************************)
EXTENDS SkillUpdate, TLAPS

\* What can be in a place: nothing, a version, an edit or a torn copy.
Contents == 0..MaxVersions + MaxEdits + 1

\* What the config can name: no version or one of them.
Recorded == 0..MaxVersions

\* Where a command prepares, swaps, records a skill, and undoes or cleans up.
Preparing == {"stage", "journal"}
Swapping  == {"inspect", "aside", "verify", "install", "check", "commit"}
Tracking  == {"track", "record"}
Undoing   == {"rollback", "remove", "restore"}
Ending    == {"clean", "unjournal"}

\* Where the command in progress can be.
Steps == {"idle", "unlock"} \cup Preparing \cup Swapping \cup Tracking \cup Undoing \cup Ending

\* What the config file says.
ConfigType == [skills : [Skill -> Recorded], note : Nat]

\* What the command in progress keeps in memory.
CommandType ==
  [pc : Steps,
   original : ConfigType, next : [Skill -> Recorded],
   swaps : SUBSET Skill, todo : SUBSET Skill, in : SUBSET Skill,
   moved : SUBSET Skill, installed : SUBSET Skill,
   committed : BOOLEAN, rollbackFailed : BOOLEAN]

\* The types of the variables.
TypeOK ==
  /\ upstream \in [Skill -> Version]
  /\ config \in ConfigType
  /\ disk \in [Skill -> Contents]
  /\ staged \in [Skill -> Contents]
  /\ backup \in [Skill -> Contents]
  /\ journal \in [swaps : SUBSET Skill, previous : [Skill -> Recorded]]
  /\ lock \in {"free", "held", "stale"}
  /\ cmd \in CommandType
  /\ {commands, edits, faults} \subseteq Nat
  /\ mine \in [Skill -> Edit \cup {Gone}]
  /\ overrun \in SUBSET Skill

-----------------------------------------------------------------------------
(* What holds of a skill whether a command runs or not.                    *)

\* The journal tells of a swap of the skill that was not committed.
Held(s) == s \in journal.swaps /\ config.skills[s] = journal.previous[s]

\* What is recorded of a skill, or an edit of it, is installed.
Proper(s) == {config.skills[s]} \cup Edit

\* What is installed is what is recorded, or the user edited it.
Sound(s) == config.skills[s] = Untracked \/ disk[s] \in Proper(s)

\* Holds of a skill also after a kill: it is in order or held, only a held one
\* has an edit in its backup, and the content of a held one is in its place or
\* in its backup; the last edit is in one of them or was overrun.
Durable(s) ==
  /\ Held(s) \/ Sound(s)
  /\ backup[s] \in Edit => Held(s)
  /\ Held(s) => /\ config.skills[s] # Untracked
                /\ backup[s] \in Proper(s) \/ (backup[s] = Gone /\ disk[s] \in Proper(s))
  /\ disk[s] \in Edit => disk[s] = mine[s]
  /\ backup[s] \in Edit /\ disk[s] = Gone => mine[s] = backup[s]
  /\ mine[s] # Gone => mine[s] \in {disk[s], backup[s]} \/ s \in overrun

-----------------------------------------------------------------------------
(* What a command in progress may take for granted.                        *)

\* The journal that the command in progress writes.
Own == [swaps |-> cmd.swaps, previous |-> cmd.original.skills]

\* The lock, the journal and the config that go with each step.
Control ==
  /\ lock = "held" <=> cmd.pc # "idle"
  /\ cmd.pc = "idle" => cmd = Idle
  /\ cmd.pc # "idle" =>
       config.skills = IF cmd.committed THEN cmd.next ELSE cmd.original.skills
  /\ cmd.committed => cmd.pc \in Ending \cup {"unlock"}
  /\ cmd.pc \in Preparing \cup Tracking => journal = NoJournal
  /\ cmd.pc \in Swapping => journal = Own
  /\ cmd.pc \in Undoing \cup Ending =>
       journal = Own \/ (journal = NoJournal /\ cmd.moved = {} /\ ~cmd.committed)

\* One skill is in hand.
One == \E s \in cmd.swaps : cmd.in = {s}

\* The swaps that are done, in hand and still to do.
Lists ==
  /\ cmd.todo \subseteq cmd.swaps /\ cmd.in \subseteq cmd.swaps
  /\ cmd.installed \subseteq cmd.moved /\ cmd.moved \subseteq cmd.swaps
  /\ cmd.pc \in Preparing => cmd.moved = {} /\ cmd.in = {}
  /\ cmd.pc = "journal" => cmd.todo = {}
  /\ cmd.pc \in Tracking => cmd.swaps = {}
  /\ cmd.pc \in Swapping =>
       /\ cmd.swaps = cmd.todo \cup cmd.in \cup cmd.installed
       /\ cmd.installed \cap (cmd.todo \cup cmd.in) = {} /\ cmd.todo \cap cmd.in = {}
       /\ cmd.moved = cmd.installed \cup (IF cmd.pc \in {"verify", "install"} THEN cmd.in ELSE {})
  /\ cmd.pc \in {"inspect", "check", "commit"} => cmd.in = {}
  /\ cmd.pc \in {"check", "commit"} => cmd.todo = {}
  /\ cmd.pc \in {"aside", "verify", "install", "remove", "restore"} => One
  /\ cmd.pc \in {"remove", "restore"} => cmd.in \cap cmd.todo = {}
  /\ cmd.pc = "remove" => cmd.in \subseteq cmd.installed
  /\ cmd.pc = "restore" => cmd.in \subseteq cmd.moved

\* What is to become of a skill.
Chosen(s) ==
  /\ s \in cmd.swaps =>
       cmd.original.skills[s] # Untracked /\ cmd.next[s] \notin {Untracked, cmd.original.skills[s]}
  /\ cmd.pc \in Preparing \cup Swapping /\ s \notin cmd.swaps => cmd.next[s] = cmd.original.skills[s]
  /\ cmd.pc \in Tracking => cmd.next[s] = cmd.original.skills[s] \/ disk[s] \in {cmd.next[s]} \cup Edit

\* Skills that a command has still to swap, or a rollback to undo.
Pending(s) == cmd.pc \in Swapping \/ (cmd.pc \in Undoing /\ s \in cmd.todo)

\* What became of a skill that is swapped.
Doing(s) ==
  /\ cmd.pc \in Preparing \cup Swapping \cup Undoing \cup Ending /\ s \notin cmd.moved => backup[s] = Gone
  /\ s \in cmd.installed /\ (Pending(s) \/ (cmd.pc = "remove" /\ s \in cmd.in)) =>
       backup[s] = cmd.original.skills[s] /\ disk[s] \in {cmd.next[s]} \cup Edit
  /\ \/ s \in cmd.moved \ cmd.installed /\ Pending(s)
     \/ cmd.pc = "restore" /\ s \in cmd.in
     => backup[s] # Gone /\ disk[s] \in {Gone} \cup Edit
  /\ cmd.pc = "install" /\ s \in cmd.in => backup[s] = cmd.original.skills[s]
  /\ \/ cmd.pc = "rollback" /\ s \in cmd.moved \ cmd.todo
     \/ cmd.pc \in {"remove", "restore"} /\ s \in cmd.moved \ (cmd.todo \cup cmd.in)
     \/ cmd.pc \in Ending
     => cmd.committed \/ cmd.rollbackFailed \/ backup[s] = Gone
  /\ \/ cmd.pc = "stage" /\ s \notin cmd.todo
     \/ cmd.pc \in {"journal"} \cup Swapping /\ s \notin cmd.installed
     => staged[s] = cmd.next[s]

\* The inductive invariant.
IInv ==
  /\ TypeOK /\ Control /\ Lists
  /\ \A s \in Skill : Durable(s) /\ Chosen(s)
  /\ \A s \in cmd.swaps : Doing(s)

-----------------------------------------------------------------------------
(* Types, and what a command becomes.                                      *)

\* How the contents of a directory are told apart.
LEMMA Ranges ==
  /\ Contents = 0..Torn /\ Gone = 0 /\ Untracked = 0 /\ Torn \in Contents
  /\ Torn \notin Edit /\ Gone \notin Edit /\ Edit \subseteq Contents
  /\ Version \subseteq Recorded /\ Recorded \subseteq Contents /\ Edit \cap Recorded = {}
  /\ Gone \in Recorded /\ 1 \in Version
  /\ Gone \in Contents /\ Version = Recorded \ {Untracked} /\ Torn \notin Recorded
BY ConstantsAssumption, SMT DEF Contents, Recorded, Torn, Gone, Untracked, Edit, Version

\* The command in progress changes at most these fields.
Becomes(pc, todo, in, moved, installed, committed, rollbackFailed) ==
  /\ cmd' \in CommandType
  /\ cmd'.pc = pc /\ cmd'.todo = todo /\ cmd'.in = in
  /\ cmd'.moved = moved /\ cmd'.installed = installed
  /\ cmd'.committed = committed /\ cmd'.rollbackFailed = rollbackFailed
  /\ cmd'.original = cmd.original /\ cmd'.next = cmd.next /\ cmd'.swaps = cmd.swaps

\* A command with another value in a field is still typed.
LEMMA FieldTypes ==
  ASSUME NEW c \in CommandType
  PROVE  /\ \A p \in Steps : [c EXCEPT !.pc = p] \in CommandType
         /\ \A S \in SUBSET Skill : [c EXCEPT !.todo = S] \in CommandType
         /\ \A S \in SUBSET Skill : [c EXCEPT !.in = S] \in CommandType
         /\ \A S \in SUBSET Skill : [c EXCEPT !.swaps = S] \in CommandType
         /\ \A S \in SUBSET Skill : [c EXCEPT !.moved = S] \in CommandType
         /\ \A S \in SUBSET Skill : [c EXCEPT !.installed = S] \in CommandType
         /\ \A b \in BOOLEAN : [c EXCEPT !.committed = b] \in CommandType
         /\ \A b \in BOOLEAN : [c EXCEPT !.rollbackFailed = b] \in CommandType
         /\ \A f \in [Skill -> Recorded] : [c EXCEPT !.next = f] \in CommandType
         /\ \A o \in ConfigType : [c EXCEPT !.original = o] \in CommandType
BY SMTT(30) DEF CommandType

\* The types of the fields of a command.
LEMMA Fields ==
  ASSUME NEW c \in CommandType
  PROVE  /\ c.pc \in Steps /\ c.original.skills \in [Skill -> Recorded]
         /\ c.next \in [Skill -> Recorded]
         /\ c.original \in ConfigType
         /\ c.swaps \subseteq Skill /\ c.todo \subseteq Skill /\ c.in \subseteq Skill
         /\ c.moved \subseteq Skill /\ c.installed \subseteq Skill
         /\ c.committed \in BOOLEAN /\ c.rollbackFailed \in BOOLEAN
BY SMTT(30) DEF CommandType, ConfigType

\* The command only goes to another step.
LEMMA Moves ==
  ASSUME cmd \in CommandType, NEW p \in Steps, cmd' = [cmd EXCEPT !.pc = p]
  PROVE  Becomes(p, cmd.todo, cmd.in, cmd.moved, cmd.installed, cmd.committed, cmd.rollbackFailed)
<1>1. cmd' \in CommandType
  BY FieldTypes
<1> QED
  BY <1>1 DEF Becomes, CommandType

\* The command only crosses skills off its list.
LEMMA Crosses ==
  ASSUME cmd \in CommandType, NEW todo \in SUBSET Skill, cmd' = [cmd EXCEPT !.todo = todo]
  PROVE  Becomes(cmd.pc, todo, cmd.in, cmd.moved, cmd.installed, cmd.committed, cmd.rollbackFailed)
<1>1. cmd' \in CommandType
  BY FieldTypes
<1> QED
  BY <1>1 DEF Becomes, CommandType

\* The command goes to a step with another list and another skill in hand.
LEMMA Takes ==
  ASSUME cmd \in CommandType, NEW p \in Steps, NEW todo \in SUBSET Skill,
         NEW in \in SUBSET Skill,
         cmd' = [cmd EXCEPT !.pc = p, !.todo = todo, !.in = in]
  PROVE  Becomes(p, todo, in, cmd.moved, cmd.installed, cmd.committed, cmd.rollbackFailed)
<1> DEFINE c == [cmd EXCEPT !.pc = p]
           d == [c EXCEPT !.todo = todo]
<1>1. c \in CommandType
  BY FieldTypes
<1>2. d \in CommandType
  BY <1>1, FieldTypes
<1>3. cmd' = [d EXCEPT !.in = in]
  OBVIOUS
<1>4. cmd' \in CommandType
  <2> HIDE DEF d
  <2>1. \A S \in SUBSET Skill : [d EXCEPT !.in = S] \in CommandType
    BY <1>2, FieldTypes
  <2> QED
    BY <2>1, <1>3
<1> QED
  BY <1>4 DEF Becomes, CommandType

\* The same, written in the other order.
LEMMA Picks ==
  ASSUME cmd \in CommandType, NEW p \in Steps, NEW in \in SUBSET Skill,
         NEW todo \in SUBSET Skill,
         cmd' = [cmd EXCEPT !.pc = p, !.in = in, !.todo = todo]
  PROVE  Becomes(p, todo, in, cmd.moved, cmd.installed, cmd.committed, cmd.rollbackFailed)
<1> DEFINE c == [cmd EXCEPT !.pc = p]
           d == [c EXCEPT !.in = in]
<1>1. c \in CommandType
  BY FieldTypes
<1>2. d \in CommandType
  BY <1>1, FieldTypes
<1>3. cmd' = [d EXCEPT !.todo = todo]
  OBVIOUS
<1>4. cmd' \in CommandType
  <2> HIDE DEF d
  <2>1. \A S \in SUBSET Skill : [d EXCEPT !.todo = S] \in CommandType
    BY <1>2, FieldTypes
  <2> QED
    BY <2>1, <1>3
<1> QED
  BY <1>4 DEF Becomes, CommandType

\* The command goes to a step with a list of its own.
LEMMA Restarts ==
  ASSUME cmd \in CommandType, NEW p \in Steps, NEW todo \in SUBSET Skill,
         cmd' = [cmd EXCEPT !.pc = p, !.todo = todo]
  PROVE  Becomes(p, todo, cmd.in, cmd.moved, cmd.installed, cmd.committed, cmd.rollbackFailed)
<1> DEFINE c == [cmd EXCEPT !.pc = p]
<1>1. c \in CommandType
  BY FieldTypes
<1>2. cmd' = [c EXCEPT !.todo = todo]
  OBVIOUS
<1>3. cmd' \in CommandType
  <2> HIDE DEF c
  <2>1. \A S \in SUBSET Skill : [c EXCEPT !.todo = S] \in CommandType
    BY <1>1, FieldTypes
  <2> QED
    BY <2>1, <1>2
<1> QED
  BY <1>3 DEF Becomes, CommandType

\* The command notes what it has moved aside.
LEMMA Displaces ==
  ASSUME cmd \in CommandType, NEW p \in Steps, NEW moved \in SUBSET Skill,
         cmd' = [cmd EXCEPT !.pc = p, !.moved = moved]
  PROVE  Becomes(p, cmd.todo, cmd.in, moved, cmd.installed, cmd.committed, cmd.rollbackFailed)
<1> DEFINE c == [cmd EXCEPT !.pc = p]
<1>1. c \in CommandType
  BY FieldTypes
<1>2. cmd' = [c EXCEPT !.moved = moved]
  OBVIOUS
<1>3. cmd' \in CommandType
  <2> HIDE DEF c
  <2>1. \A S \in SUBSET Skill : [c EXCEPT !.moved = S] \in CommandType
    BY <1>1, FieldTypes
  <2> QED
    BY <2>1, <1>2
<1> QED
  BY <1>3 DEF Becomes, CommandType

\* The command notes what it has installed.
LEMMA Installs ==
  ASSUME cmd \in CommandType, NEW p \in Steps, NEW in \in SUBSET Skill,
         NEW installed \in SUBSET Skill,
         cmd' = [cmd EXCEPT !.pc = p, !.in = in, !.installed = installed]
  PROVE  Becomes(p, cmd.todo, in, cmd.moved, installed, cmd.committed, cmd.rollbackFailed)
<1> DEFINE c == [cmd EXCEPT !.pc = p]
           d == [c EXCEPT !.in = in]
<1>1. c \in CommandType
  BY FieldTypes
<1>2. d \in CommandType
  BY <1>1, FieldTypes
<1>3. cmd' = [d EXCEPT !.installed = installed]
  OBVIOUS
<1>4. cmd' \in CommandType
  <2> HIDE DEF d
  <2>1. \A S \in SUBSET Skill : [d EXCEPT !.installed = S] \in CommandType
    BY <1>2, FieldTypes
  <2> QED
    BY <2>1, <1>3
<1> QED
  BY <1>4 DEF Becomes, CommandType

\* The command notes that it has committed.
LEMMA Commits ==
  ASSUME cmd \in CommandType, NEW p \in Steps, NEW committed \in BOOLEAN,
         NEW todo \in SUBSET Skill,
         cmd' = [cmd EXCEPT !.pc = p, !.committed = committed, !.todo = todo]
  PROVE  Becomes(p, todo, cmd.in, cmd.moved, cmd.installed, committed, cmd.rollbackFailed)
<1> DEFINE c == [cmd EXCEPT !.pc = p]
           d == [c EXCEPT !.committed = committed]
<1>1. c \in CommandType
  BY FieldTypes
<1>2. d \in CommandType
  BY <1>1, FieldTypes
<1>3. cmd' = [d EXCEPT !.todo = todo]
  OBVIOUS
<1>4. cmd' \in CommandType
  <2> HIDE DEF d
  <2>1. \A S \in SUBSET Skill : [d EXCEPT !.todo = S] \in CommandType
    BY <1>2, FieldTypes
  <2> QED
    BY <2>1, <1>3
<1> QED
  BY <1>4 DEF Becomes, CommandType

\* The rollback takes a skill in hand and notes whether it may undo it.
LEMMA Undoes ==
  ASSUME cmd \in CommandType, NEW todo \in SUBSET Skill, NEW in \in SUBSET Skill,
         NEW p \in Steps, NEW failed \in BOOLEAN,
         cmd' = [cmd EXCEPT !.todo = todo, !.in = in, !.pc = p, !.rollbackFailed = failed]
  PROVE  Becomes(p, todo, in, cmd.moved, cmd.installed, cmd.committed, failed)
<1> DEFINE c == [cmd EXCEPT !.todo = todo]
           d == [c EXCEPT !.in = in]
           e == [d EXCEPT !.pc = p]
<1>1. c \in CommandType
  BY FieldTypes
<1>2. d \in CommandType
  BY <1>1, FieldTypes
<1>3. e \in CommandType
  BY <1>2, FieldTypes
<1>4. cmd' = [e EXCEPT !.rollbackFailed = failed]
  OBVIOUS
<1>5. cmd' \in CommandType
  <2> HIDE DEF e
  <2>1. \A b \in BOOLEAN : [e EXCEPT !.rollbackFailed = b] \in CommandType
    BY <1>3, FieldTypes
  <2> QED
    BY <2>1, <1>4
<1> QED
  BY <1>5 DEF Becomes, CommandType

\* The rollback notes that it has failed.
LEMMA Gives ==
  ASSUME cmd \in CommandType, NEW p \in Steps, NEW failed \in BOOLEAN,
         cmd' = [cmd EXCEPT !.pc = p, !.rollbackFailed = failed]
  PROVE  Becomes(p, cmd.todo, cmd.in, cmd.moved, cmd.installed, cmd.committed, failed)
<1> DEFINE c == [cmd EXCEPT !.pc = p]
<1>1. c \in CommandType
  BY FieldTypes
<1>2. cmd' = [c EXCEPT !.rollbackFailed = failed]
  OBVIOUS
<1>3. cmd' \in CommandType
  <2> HIDE DEF c
  <2>1. \A b \in BOOLEAN : [c EXCEPT !.rollbackFailed = b] \in CommandType
    BY <1>1, FieldTypes
  <2> QED
    BY <2>1, <1>2
<1> QED
  BY <1>3 DEF Becomes, CommandType

\* A step that leaves the files alone.
LEMMA StillDurable ==
  ASSUME NEW s \in Skill, Durable(s), UNCHANGED <<disk, backup, journal, mine, overrun>>,
         config'.skills = config.skills
  PROVE  Durable(s)'
BY DEF Durable, Held, Sound, Proper

\* A command swaps skills.
LEMMA SwapsTyped == ASSUME TypeOK PROVE cmd.swaps \subseteq Skill
BY Fields DEF TypeOK

\* What is thrown before the commit leads to the rollback.
LEMMA ThrowKeeps ==
  ASSUME TypeOK, Control, Lists, \A s \in Skill : Durable(s) /\ Chosen(s),
         \A s \in cmd.swaps : Doing(s),
         cmd.pc \in Preparing \cup Swapping, Throw, UNCHANGED <<config, disk, backup, journal, lock>>
  PROVE  /\ cmd' \in CommandType /\ Control' /\ Lists'
         /\ \A s \in Skill : Chosen(s)'
         /\ \A s \in cmd.swaps' : Doing(s)'
<1>1. Becomes("rollback", cmd.swaps, {}, cmd.moved, cmd.installed, cmd.committed,
              cmd.rollbackFailed)
  BY Takes, SwapsTyped DEF Throw, TypeOK, Steps, Undoing
<1>2. ~cmd.committed /\ cmd.pc # "idle"
  BY DEF Control, Preparing, Swapping, Ending
<1>3. Control'
  BY <1>1, <1>2
     DEF Becomes, Control, Lists, Own, Preparing, Swapping, Tracking, Undoing, Ending
<1>4. Lists'
  BY <1>1 DEF Becomes, Lists, Preparing, Swapping, Tracking
<1>5. ASSUME NEW s \in Skill PROVE Chosen(s)'
  BY <1>1 DEF Becomes, Chosen, Preparing, Swapping, Tracking
<1>6. ASSUME NEW s \in cmd.swaps PROVE Doing(s)'
  <2>1. Doing(s) /\ Lists
    OBVIOUS
  <2> QED
    BY <1>1, <1>2, <2>1
       DEF Becomes, Doing, Lists, Pending, Preparing, Swapping, Undoing, Ending
<1> QED
  BY <1>1, <1>3, <1>4, <1>5, <1>6 DEF Becomes

\* A step that changes nothing but where the command is, staged copies and bounds.
LEMMA Quietly ==
  ASSUME TypeOK, \A s \in Skill : Durable(s), cmd' \in CommandType,
         staged' \in [Skill -> Contents], faults' \in Nat,
         UNCHANGED <<upstream, lock, commands, edits, mine, config, disk, backup, journal, overrun>>
  PROVE  TypeOK' /\ \A s \in Skill : Durable(s)'
BY StillDurable DEF TypeOK

\* Failures are counted.
LEMMA FaultTyped == ASSUME TypeOK, Fault \/ UNCHANGED faults PROVE faults' \in Nat
BY DEF TypeOK, Fault

\* The stages are filled with what is to be installed.
LEMMA StageKeeps == ASSUME IInv, Stage PROVE IInv'
<1>1. /\ staged' \in [Skill -> Contents] /\ faults' \in Nat
      /\ UNCHANGED <<upstream, lock, commands, edits, mine, config, disk, backup, journal, overrun>>
  <2>1. cmd.todo \subseteq Skill /\ cmd.next \in [Skill -> Recorded]
    BY Fields DEF IInv, TypeOK
  <2>2. faults' \in Nat
    BY FaultTyped DEF IInv, Stage
  <2>3. staged \in [Skill -> Contents] /\ Recorded \subseteq Contents /\ Torn \in Contents
    BY Ranges DEF IInv, TypeOK
  <2>4. staged' \in [Skill -> Contents]
    BY <2>1, <2>3 DEF Stage
  <2> QED
    BY <2>2, <2>4 DEF Stage, Step
<1>2. TypeOK /\ Control /\ Lists /\ cmd.pc = "stage" /\ cmd \in CommandType
  BY DEF IInv, TypeOK, Stage, At
<1>3. CASE cmd.todo = {} /\ Goto("journal") /\ UNCHANGED staged
  <2>1. Becomes("journal", {}, cmd.in, cmd.moved, cmd.installed, cmd.committed, cmd.rollbackFailed)
    BY <1>2, <1>3, Moves DEF Goto, Steps, Preparing
  <2>2. Control' /\ Lists'
    BY <1>1, <1>2, <2>1
       DEF Becomes, Control, Lists, Own, Preparing, Swapping, Tracking, Undoing, Ending
  <2>3. ASSUME NEW s \in Skill PROVE Chosen(s)'
    BY <1>2, <2>1 DEF IInv, Becomes, Chosen, Preparing, Swapping, Tracking
  <2>4. ASSUME NEW s \in cmd.swaps PROVE Doing(s)'
    BY <1>1, <1>2, <1>3, <2>1
       DEF IInv, Becomes, Doing, Lists, Pending, Preparing, Swapping, Undoing, Ending
  <2> QED
    BY <1>1, <2>1, <2>2, <2>3, <2>4, Quietly DEF IInv, Becomes
<1>4. ASSUME NEW s \in cmd.todo, staged' = [staged EXCEPT ![s] = cmd.next[s]],
             cmd' = [cmd EXCEPT !.todo = @ \ {s}]
      PROVE  IInv'
  <2>1. Becomes("stage", cmd.todo \ {s}, cmd.in, cmd.moved, cmd.installed, cmd.committed,
                cmd.rollbackFailed)
    BY <1>2, <1>4, Crosses, Fields
  <2>2. Control' /\ Lists'
    BY <1>1, <1>2, <2>1
       DEF Becomes, Control, Lists, Own, Preparing, Swapping, Tracking, Undoing, Ending
  <2>3. ASSUME NEW t \in Skill PROVE Chosen(t)'
    BY <1>2, <2>1 DEF IInv, Becomes, Chosen, Preparing, Swapping, Tracking
  <2>4. ASSUME NEW t \in cmd.swaps PROVE Doing(t)'
    <3>1. staged' [t] = IF t = s THEN cmd.next[s] ELSE staged[t]
      BY <1>2, <1>4, SwapsTyped DEF TypeOK
    <3> QED
      BY <1>1, <1>2, <2>1, <3>1
         DEF IInv, Becomes, Doing, Lists, Pending, Preparing, Swapping, Undoing, Ending
  <2> QED
    BY <1>1, <2>1, <2>2, <2>3, <2>4, Quietly DEF IInv, Becomes
<1>5. CASE Throw
  BY <1>1, <1>2, <1>5, ThrowKeeps, Quietly DEF IInv, Preparing
<1> QED
  BY <1>3, <1>4, <1>5 DEF Stage

\* The journal is written while nothing is moved: from here on each swap is
\* held, and its content is in its place.
LEMMA WriteJournalKeeps == ASSUME IInv, WriteJournal PROVE IInv'
<1>1. TypeOK /\ Control /\ Lists /\ cmd.pc = "journal" /\ cmd \in CommandType /\ faults' \in Nat
  BY FaultTyped DEF IInv, TypeOK, WriteJournal, At
<1>2. UNCHANGED <<upstream, lock, commands, edits, mine, config, disk, staged, backup, overrun>>
  BY DEF WriteJournal, Step, dirs
<1>3. CASE Throw /\ UNCHANGED journal
  BY <1>1, <1>2, <1>3, ThrowKeeps, Quietly DEF IInv, TypeOK, Preparing
<1>4. ASSUME config = cmd.original,
             journal' = [swaps |-> cmd.swaps, previous |-> cmd.original.skills],
             cmd' = [cmd EXCEPT !.pc = "inspect", !.todo = cmd.swaps]
      PROVE  IInv'
  <2>1. Becomes("inspect", cmd.swaps, cmd.in, cmd.moved, cmd.installed, cmd.committed,
                cmd.rollbackFailed)
    BY <1>1, <1>4, SwapsTyped, Restarts DEF Steps, Swapping
  <2>2. Control'
    BY <1>1, <1>2, <1>4, <2>1
       DEF Becomes, Control, Own, Preparing, Swapping, Tracking, Undoing, Ending
  <2>3. Lists'
    BY <1>1, <1>2, <1>4, <2>1 DEF Becomes, Lists, Preparing, Swapping, Tracking
  <2>4. ASSUME NEW s \in Skill PROVE Chosen(s)'
    BY <1>1, <2>1 DEF IInv, Becomes, Chosen, Preparing, Swapping, Tracking
  <2>5. ASSUME NEW s \in cmd.swaps PROVE Doing(s)'
    BY <1>1, <1>2, <2>1
       DEF IInv, Becomes, Doing, Lists, Pending, Preparing, Swapping, Undoing, Ending
  <2>6. journal' \in [swaps : SUBSET Skill, previous : [Skill -> Recorded]]
    BY <1>1, <1>4, Fields DEF TypeOK
  <2>7. TypeOK'
    BY <1>1, <1>2, <2>1, <2>6 DEF TypeOK, Becomes
  <2>8. ASSUME NEW s \in Skill PROVE Durable(s)'
    <3>1. Durable(s) /\ Chosen(s) /\ journal = NoJournal
      BY <1>1 DEF IInv, Control, Preparing
    <3>2. backup[s] \notin Edit /\ ~Held(s) /\ Sound(s)
      BY <3>1 DEF Durable, Held, NoJournal
    <3>3. Held(s)' <=> s \in cmd.swaps
      BY <1>2, <1>4 DEF Held
    <3>4. s \in cmd.swaps => backup[s] = Gone /\ config.skills[s] # Untracked
      BY <1>1, <1>4, <3>1 DEF IInv, Doing, Lists, Chosen, Preparing
    <3> QED
      BY <1>2, <3>1, <3>2, <3>3, <3>4 DEF Durable, Sound, Proper
  <2> QED
    BY <2>1, <2>2, <2>3, <2>4, <2>5, <2>7, <2>8 DEF IInv, Becomes
<1> QED
  BY <1>3, <1>4 DEF WriteJournal

\* The next skill is taken in hand.
LEMMA InspectKeeps == ASSUME IInv, Inspect PROVE IInv'
<1>1. TypeOK /\ Control /\ Lists /\ cmd.pc = "inspect" /\ cmd \in CommandType /\ faults' \in Nat
  BY FaultTyped DEF IInv, TypeOK, Inspect, At
<1>2. /\ UNCHANGED <<upstream, lock, commands, edits, mine, config, disk, staged, backup, journal, overrun>>
      /\ staged' \in [Skill -> Contents]
  BY DEF IInv, TypeOK, Inspect, Step, dirs
<1>3. CASE Throw
  BY <1>1, <1>2, <1>3, ThrowKeeps, Quietly DEF IInv, Swapping
<1>4. CASE cmd.todo = {} /\ Goto("check")
  <2>1. Becomes("check", {}, cmd.in, cmd.moved, cmd.installed, cmd.committed, cmd.rollbackFailed)
    BY <1>1, <1>4, Moves DEF Goto, Steps, Swapping
  <2>2. Control'
    BY <1>1, <1>2, <2>1
       DEF Becomes, Control, Own, Preparing, Swapping, Tracking, Undoing, Ending
  <2>3. Lists'
    BY <1>1, <1>4, <2>1 DEF Becomes, Lists, Preparing, Swapping, Tracking
  <2>4. ASSUME NEW s \in Skill PROVE Chosen(s)'
    BY <1>1, <2>1 DEF IInv, Becomes, Chosen, Preparing, Swapping, Tracking
  <2>5. ASSUME NEW s \in cmd.swaps PROVE Doing(s)'
    BY <1>1, <1>2, <2>1
       DEF IInv, Becomes, Doing, Lists, Pending, Preparing, Swapping, Undoing, Ending
  <2> QED
    BY <1>1, <1>2, <2>1, <2>2, <2>3, <2>4, <2>5, Quietly DEF IInv, Becomes
<1>5. ASSUME NEW s \in cmd.todo,
             cmd' = [cmd EXCEPT !.pc = "aside", !.in = {s}, !.todo = @ \ {s}]
      PROVE  IInv'
  <2>1. s \in Skill /\ s \in cmd.swaps /\ cmd.todo \subseteq Skill
    BY <1>1, SwapsTyped DEF Lists
  <2>2. Becomes("aside", cmd.todo \ {s}, {s}, cmd.moved, cmd.installed, cmd.committed,
                cmd.rollbackFailed)
    BY <1>1, <1>5, <2>1, Picks DEF Steps, Swapping
  <2>3. Control'
    BY <1>1, <1>2, <2>2
       DEF Becomes, Control, Own, Preparing, Swapping, Tracking, Undoing, Ending
  <2>4. Lists'
    BY <1>1, <2>1, <2>2 DEF Becomes, Lists, One, Preparing, Swapping, Tracking
  <2>5. ASSUME NEW t \in Skill PROVE Chosen(t)'
    BY <1>1, <2>2 DEF IInv, Becomes, Chosen, Preparing, Swapping, Tracking
  <2>6. ASSUME NEW t \in cmd.swaps PROVE Doing(t)'
    BY <1>1, <1>2, <2>2
       DEF IInv, Becomes, Doing, Lists, Pending, Preparing, Swapping, Undoing, Ending
  <2> QED
    BY <1>1, <1>2, <2>2, <2>3, <2>4, <2>5, <2>6, Quietly DEF IInv, Becomes
<1> QED
  BY <1>3, <1>4, <1>5 DEF Inspect

\* What is installed goes to the backup, an edit of it too: the skill is held.
LEMMA MoveAsideKeeps == ASSUME IInv, MoveAside PROVE IInv'
<1>1. TypeOK /\ Control /\ Lists /\ cmd.pc = "aside" /\ cmd \in CommandType /\ faults' \in Nat
  BY FaultTyped DEF IInv, TypeOK, MoveAside, At
<1>2. UNCHANGED <<upstream, lock, commands, edits, mine, config, staged, journal, overrun>>
  BY DEF MoveAside, Step
<1>3. CASE Throw /\ UNCHANGED <<disk, backup>>
  BY <1>1, <1>2, <1>3, ThrowKeeps, Quietly DEF IInv, Swapping, TypeOK
<1>4. ASSUME NEW s \in cmd.in, backup' = [backup EXCEPT ![s] = disk[s]],
             disk' = [disk EXCEPT ![s] = Gone],
             cmd' = [cmd EXCEPT !.pc = "verify", !.moved = @ \cup {s}]
      PROVE  IInv'
  <2>1. /\ s \in Skill /\ s \in cmd.swaps /\ cmd.moved \subseteq Skill /\ cmd.in = {s}
        /\ s \notin cmd.moved
    BY <1>1, SwapsTyped DEF Lists, One, Swapping
  <2>2. Becomes("verify", cmd.todo, cmd.in, cmd.moved \cup {s}, cmd.installed,
                cmd.committed, cmd.rollbackFailed)
    BY <1>1, <1>4, <2>1, Displaces DEF Steps, Swapping
  <2>3. /\ \A t \in Skill : backup'[t] = IF t = s THEN disk[s] ELSE backup[t]
        /\ \A t \in Skill : disk'[t] = IF t = s THEN Gone ELSE disk[t]
        /\ disk' \in [Skill -> Contents] /\ backup' \in [Skill -> Contents]
    BY <1>1, <1>4, <2>1, Ranges DEF TypeOK
  <2>4. TypeOK'
    BY <1>1, <1>2, <2>2, <2>3 DEF TypeOK, Becomes
  <2>5. Control'
    BY <1>1, <1>2, <2>2
       DEF Becomes, Control, Own, Preparing, Swapping, Tracking, Undoing, Ending
  <2>6. Lists'
    BY <1>1, <2>1, <2>2 DEF Becomes, Lists, One, Preparing, Swapping, Tracking
  <2>7. ASSUME NEW t \in Skill PROVE Chosen(t)'
    BY <1>1, <2>2 DEF IInv, Becomes, Chosen, Preparing, Swapping, Tracking
  <2>8. Held(s) /\ config.skills[s] = cmd.original.skills[s] /\ backup[s] = Gone
    BY <1>1, <2>1 DEF IInv, Held, Control, Own, Doing, Swapping, Ending
  <2>9. disk[s] \in Proper(s) /\ disk[s] # Gone
    BY <2>1, <2>8, Ranges DEF IInv, Durable, Proper
  <2>10. ASSUME NEW t \in Skill PROVE Durable(t)'
    <3>1. Durable(t) /\ (Held(t)' <=> Held(t)) /\ Proper(t)' = Proper(t)
      BY <1>2 DEF IInv, Held, Proper
    <3>2. CASE t # s
      BY <1>2, <2>3, <3>1, <3>2 DEF Durable, Sound
    <3>3. CASE t = s
      BY <1>2, <2>1, <2>3, <2>8, <2>9, <3>1, <3>3, Ranges DEF Durable, Sound
    <3> QED
      BY <3>2, <3>3
  <2>11. ASSUME NEW t \in cmd.swaps PROVE Doing(t)'
    <3>1. Doing(t) /\ t \in Skill
      BY SwapsTyped DEF IInv
    <3>2. CASE t # s
      BY <1>1, <1>2, <2>1, <2>2, <2>3, <3>1, <3>2
         DEF Becomes, Doing, Lists, Pending, Preparing, Swapping, Undoing, Ending
    <3>3. CASE t = s
      BY <1>1, <1>2, <2>1, <2>2, <2>3, <2>9, <3>1, <3>3
         DEF Becomes, Doing, Lists, Pending, Preparing, Swapping, Undoing, Ending
    <3> QED
      BY <3>2, <3>3
  <2> QED
    BY <2>2, <2>4, <2>5, <2>6, <2>7, <2>10, <2>11 DEF IInv, Becomes
<1> QED
  BY <1>3, <1>4 DEF MoveAside

\* Only what was recorded goes on to be replaced.
LEMMA VerifyBackupKeeps == ASSUME IInv, VerifyBackup PROVE IInv'
<1>1. TypeOK /\ Control /\ Lists /\ cmd.pc = "verify" /\ cmd \in CommandType /\ faults' \in Nat
  BY FaultTyped DEF IInv, TypeOK, VerifyBackup, At
<1>2. /\ UNCHANGED <<upstream, lock, commands, edits, mine, config, disk, staged, backup, journal, overrun>>
      /\ staged' \in [Skill -> Contents]
  BY DEF IInv, TypeOK, VerifyBackup, Step, dirs
<1>3. CASE Throw
  BY <1>1, <1>2, <1>3, ThrowKeeps, Quietly DEF IInv, Swapping
<1>4. ASSUME NEW s \in cmd.in, backup[s] = cmd.original.skills[s], Goto("install")
      PROVE  IInv'
  <2>1. s \in Skill /\ s \in cmd.swaps /\ cmd.in = {s}
    BY <1>1, SwapsTyped DEF Lists, One
  <2>2. Becomes("install", cmd.todo, cmd.in, cmd.moved, cmd.installed, cmd.committed,
                cmd.rollbackFailed)
    BY <1>1, <1>4, Moves DEF Goto, Steps, Swapping
  <2>3. Control'
    BY <1>1, <1>2, <2>2
       DEF Becomes, Control, Own, Preparing, Swapping, Tracking, Undoing, Ending
  <2>4. Lists'
    BY <1>1, <2>1, <2>2 DEF Becomes, Lists, One, Preparing, Swapping, Tracking
  <2>5. ASSUME NEW t \in Skill PROVE Chosen(t)'
    BY <1>1, <2>2 DEF IInv, Becomes, Chosen, Preparing, Swapping, Tracking
  <2>6. ASSUME NEW t \in cmd.swaps PROVE Doing(t)'
    BY <1>1, <1>2, <1>4, <2>1, <2>2
       DEF IInv, Becomes, Doing, Lists, Pending, Preparing, Swapping, Undoing, Ending
  <2> QED
    BY <1>1, <1>2, <2>2, <2>3, <2>4, <2>5, <2>6, Quietly DEF IInv, Becomes
<1> QED
  BY <1>3, <1>4 DEF VerifyBackup

\* The new version comes in place of one that is in the backup.
LEMMA InstallKeeps == ASSUME IInv, Install PROVE IInv'
<1>1. TypeOK /\ Control /\ Lists /\ cmd.pc = "install" /\ cmd \in CommandType /\ faults' \in Nat
  BY FaultTyped DEF IInv, TypeOK, Install, At
<1>2. UNCHANGED <<upstream, lock, commands, edits, mine, config, backup, journal, overrun>>
  BY DEF Install, Step
<1>3. CASE Throw /\ UNCHANGED <<disk, staged>>
  BY <1>1, <1>2, <1>3, ThrowKeeps, Quietly DEF IInv, Swapping, TypeOK
<1>4. ASSUME NEW s \in cmd.in, disk[s] = Gone, disk' = [disk EXCEPT ![s] = staged[s]],
             staged' = [staged EXCEPT ![s] = Gone],
             cmd' = [cmd EXCEPT !.pc = "inspect", !.in = {}, !.installed = @ \cup {s}]
      PROVE  IInv'
  <2>1. /\ s \in Skill /\ s \in cmd.swaps /\ cmd.installed \subseteq Skill /\ cmd.in = {s}
        /\ s \notin cmd.installed
    BY <1>1, SwapsTyped DEF Lists, One, Swapping
  <2>2. Becomes("inspect", cmd.todo, {}, cmd.moved, cmd.installed \cup {s}, cmd.committed,
                cmd.rollbackFailed)
    BY <1>1, <1>4, <2>1, Installs DEF Steps, Swapping
  <2>3. /\ \A t \in Skill : disk'[t] = IF t = s THEN staged[s] ELSE disk[t]
        /\ \A t \in Skill : staged'[t] = IF t = s THEN Gone ELSE staged[t]
        /\ disk' \in [Skill -> Contents] /\ staged' \in [Skill -> Contents]
    BY <1>1, <1>4, <2>1, Ranges DEF TypeOK
  <2>4. TypeOK'
    BY <1>1, <1>2, <2>2, <2>3 DEF TypeOK, Becomes
  <2>5. Control'
    BY <1>1, <1>2, <2>2
       DEF Becomes, Control, Own, Preparing, Swapping, Tracking, Undoing, Ending
  <2>6. Lists'
    BY <1>1, <2>1, <2>2 DEF Becomes, Lists, One, Preparing, Swapping, Tracking
  <2>7. ASSUME NEW t \in Skill PROVE Chosen(t)'
    BY <1>1, <2>2 DEF IInv, Becomes, Chosen, Preparing, Swapping, Tracking
  <2>8. /\ Held(s) /\ config.skills[s] = cmd.original.skills[s]
        /\ backup[s] = cmd.original.skills[s] /\ staged[s] = cmd.next[s]
    BY <1>1, <2>1 DEF IInv, Held, Control, Own, Doing, Swapping, Ending
  <2>9. cmd.next[s] \in Recorded /\ cmd.original.skills[s] \in Recorded /\ cmd.next[s] # Gone
    BY <1>1, <2>1, Fields DEF IInv, Chosen, Untracked, Gone
  <2>10. ASSUME NEW t \in Skill PROVE Durable(t)'
    <3>1. Durable(t) /\ (Held(t)' <=> Held(t)) /\ Proper(t)' = Proper(t)
      BY <1>2 DEF IInv, Held, Proper
    <3>2. CASE t # s
      BY <1>2, <2>3, <3>1, <3>2 DEF Durable, Sound
    <3>3. CASE t = s
      <4>1. disk'[s] \notin Edit /\ disk'[s] # Gone /\ backup[s] \notin Edit /\ Gone \notin Edit
        BY <2>1, <2>3, <2>8, <2>9, Ranges
      <4>2. mine[s] \in Edit \cup {Gone}
        BY <1>1, <2>1 DEF TypeOK
      <4> QED
        BY <1>2, <1>4, <2>1, <2>3, <2>8, <3>1, <3>3, <4>1, <4>2 DEF Durable, Sound
    <3> QED
      BY <3>2, <3>3
  <2>11. ASSUME NEW t \in cmd.swaps PROVE Doing(t)'
    <3>1. Doing(t) /\ t \in Skill
      BY SwapsTyped DEF IInv
    <3>2. CASE t # s
      BY <1>1, <1>2, <2>1, <2>2, <2>3, <3>1, <3>2
         DEF Becomes, Doing, Lists, Pending, Preparing, Swapping, Undoing, Ending
    <3>3. CASE t = s
      BY <1>1, <1>2, <2>1, <2>2, <2>3, <2>8, <3>1, <3>3
         DEF Becomes, Doing, Lists, Pending, Preparing, Swapping, Undoing, Ending
    <3> QED
      BY <3>2, <3>3
  <2> QED
    BY <2>2, <2>4, <2>5, <2>6, <2>7, <2>10, <2>11 DEF IInv, Becomes
<1> QED
  BY <1>3, <1>4 DEF Install

\* A command that has nothing left to do but to unlock.
LEMMA UnlockingKeeps ==
  ASSUME IInv, cmd' \in CommandType, cmd'.pc = "unlock", cmd'.swaps = cmd.swaps,
         cmd'.original = cmd.original, cmd'.next = cmd.next,
         cmd'.todo = cmd.todo, cmd'.in = cmd.in, cmd'.moved = cmd.moved,
         cmd'.installed = cmd.installed,
         cmd'.committed = cmd.committed, cmd.pc # "idle", UNCHANGED <<config, lock>>
  PROVE  /\ Control' /\ Lists'
         /\ \A s \in Skill : Chosen(s)'
         /\ \A s \in cmd.swaps' : Doing(s)'
<1>1. Control'
  BY DEF IInv, Control, Own, Preparing, Swapping, Tracking, Undoing, Ending
<1>2. Lists'
  BY DEF IInv, Lists, Preparing, Swapping, Tracking
<1>3. ASSUME NEW t \in Skill PROVE Chosen(t)'
  BY DEF IInv, Chosen, Preparing, Swapping, Tracking
<1>4. ASSUME NEW t \in cmd.swaps PROVE Doing(t)'
  BY DEF Doing, Pending, Preparing, Swapping, Undoing, Ending
<1> QED
  BY <1>1, <1>2, <1>3, <1>4

\* The config is compared with the one read.
LEMMA CheckConfigKeeps == ASSUME IInv, CheckConfig PROVE IInv'
<1>1. /\ TypeOK /\ Control /\ Lists /\ cmd.pc \in {"check", "track"}
      /\ cmd \in CommandType /\ faults' \in Nat
  BY DEF IInv, TypeOK, CheckConfig, At
<1>2. /\ UNCHANGED <<upstream, lock, commands, edits, mine, config, disk, staged, backup, journal, overrun>>
      /\ staged' \in [Skill -> Contents]
  BY DEF IInv, TypeOK, CheckConfig, Step, dirs
<1>3. CASE cmd.pc = "check" /\ Throw
  BY <1>1, <1>2, <1>3, ThrowKeeps, Quietly DEF IInv, Swapping
<1>4. CASE cmd.pc = "track" /\ Goto("unlock")
  <2>1. Becomes("unlock", cmd.todo, cmd.in, cmd.moved, cmd.installed, cmd.committed,
                cmd.rollbackFailed)
    BY <1>1, <1>4, Moves DEF Goto, Steps
  <2> QED
    BY <1>1, <1>2, <1>4, <2>1, UnlockingKeeps, Quietly DEF IInv, Becomes
<1>5. ASSUME NEW p \in {"commit", "record"},
             p = IF cmd.pc = "track" THEN "record" ELSE "commit", Goto(p)
      PROVE  IInv'
  <2>1. Becomes(p, cmd.todo, cmd.in, cmd.moved, cmd.installed, cmd.committed, cmd.rollbackFailed)
    BY <1>1, <1>5, Moves DEF Goto, Steps, Swapping, Tracking
  <2>2. Control'
    BY <1>1, <1>2, <1>5, <2>1
       DEF Becomes, Control, Own, Preparing, Swapping, Tracking, Undoing, Ending
  <2>3. Lists'
    BY <1>1, <1>5, <2>1 DEF Becomes, Lists, Preparing, Swapping, Tracking
  <2>4. ASSUME NEW s \in Skill PROVE Chosen(s)'
    BY <1>1, <1>2, <1>5, <2>1 DEF IInv, Becomes, Chosen, Preparing, Swapping, Tracking
  <2>5. ASSUME NEW s \in cmd.swaps PROVE Doing(s)'
    BY <1>1, <1>2, <1>5, <2>1
       DEF IInv, Becomes, Doing, Lists, Pending, Preparing, Swapping, Undoing, Ending,
           Tracking
  <2> QED
    BY <1>1, <1>2, <2>1, <2>2, <2>3, <2>4, <2>5, Quietly DEF IInv, Becomes
<1> QED
  BY <1>1, <1>3, <1>4, <1>5 DEF CheckConfig, At

\* The commit: every swap is installed, and none is held any longer.
LEMMA WriteConfigKeeps == ASSUME IInv, WriteConfig PROVE IInv'
<1>1. /\ TypeOK /\ Control /\ Lists /\ cmd.pc \in {"commit", "record"}
      /\ cmd \in CommandType /\ faults' \in Nat
  BY FaultTyped DEF IInv, TypeOK, WriteConfig, At
<1>2. /\ UNCHANGED <<upstream, lock, commands, edits, mine, disk, staged, backup, journal, overrun>>
      /\ staged' \in [Skill -> Contents]
  BY DEF IInv, TypeOK, WriteConfig, Step, dirs
<1>3. CASE cmd.pc = "commit" /\ Throw /\ UNCHANGED config
  BY <1>1, <1>2, <1>3, ThrowKeeps, Quietly DEF IInv, Swapping
<1>4. CASE cmd.pc = "record" /\ Goto("unlock") /\ UNCHANGED config
  <2>1. Becomes("unlock", cmd.todo, cmd.in, cmd.moved, cmd.installed, cmd.committed,
                cmd.rollbackFailed)
    BY <1>1, <1>4, Moves DEF Goto, Steps
  <2> QED
    BY <1>1, <1>2, <1>4, <2>1, UnlockingKeeps, Quietly DEF IInv, Becomes
<1>5. ASSUME NEW p \in {"clean", "unlock"},
             p = IF cmd.pc = "record" THEN "unlock" ELSE "clean",
             config' = [cmd.original EXCEPT !.skills = cmd.next],
             cmd' = [cmd EXCEPT !.pc = p, !.committed = TRUE, !.todo = cmd.swaps]
      PROVE  IInv'
  <2>1. Becomes(p, cmd.swaps, cmd.in, cmd.moved, cmd.installed, TRUE, cmd.rollbackFailed)
    BY <1>1, <1>5, SwapsTyped, Commits DEF Steps, Ending
  <2>2. /\ config' \in ConfigType /\ config'.skills = cmd.next /\ ~cmd.committed
        /\ config.skills = cmd.original.skills
    BY <1>1, <1>5, Fields DEF ConfigType, Control, Ending
  <2>3. TypeOK'
    BY <1>1, <1>2, <2>1, <2>2 DEF TypeOK, Becomes
  <2>4. Control'
    BY <1>1, <1>2, <1>5, <2>1, <2>2
       DEF Becomes, Control, Own, Preparing, Swapping, Tracking, Undoing, Ending
  <2>5. Lists'
    BY <1>1, <1>5, <2>1 DEF Becomes, Lists, Preparing, Swapping, Tracking
  <2>6. ASSUME NEW s \in Skill PROVE Chosen(s)'
    BY <1>1, <1>2, <1>5, <2>1 DEF IInv, Becomes, Chosen, Preparing, Swapping, Tracking
  <2>7. ASSUME NEW s \in cmd.swaps PROVE Doing(s)'
    BY <1>1, <1>2, <1>5, <2>1
       DEF IInv, Becomes, Doing, Lists, Pending, Preparing, Swapping, Undoing, Ending,
           Tracking
  <2>8. ASSUME NEW s \in Skill PROVE Durable(s)'
    <3>1. Durable(s) /\ Chosen(s) /\ cmd.next[s] \in Recorded /\ cmd.original.skills[s] \in Recorded
      BY <1>1, Fields DEF IInv
    <3>2. ~Held(s)' /\ Proper(s)' = {cmd.next[s]} \cup Edit
      <4>1. CASE cmd.pc = "record"
        BY <1>1, <1>2, <4>1, <2>2 DEF Held, Proper, Control, NoJournal, Tracking
      <4>2. CASE cmd.pc = "commit"
        BY <1>1, <1>2, <4>2, <2>2, <3>1 DEF Held, Proper, Control, Own, Swapping, Chosen
      <4> QED
        BY <1>1, <4>1, <4>2
    <3>3. backup[s] \notin Edit /\ (cmd.next[s] = Untracked \/ disk[s] \in {cmd.next[s]} \cup Edit)
      <4>1. CASE cmd.pc = "record"
        <5>1. ~Held(s)
          BY <1>1, <4>1 DEF Control, NoJournal, Tracking, Held
        <5> QED
          BY <2>2, <3>1, <4>1, <5>1 DEF Durable, Sound, Proper, Chosen, Tracking
      <4>2. CASE cmd.pc = "commit" /\ s \notin cmd.swaps
        <5>1. ~Held(s)
          BY <1>1, <4>2 DEF Control, Own, Swapping, Held
        <5> QED
          BY <2>2, <3>1, <4>2, <5>1 DEF Durable, Sound, Proper, Chosen, Swapping
      <4>3. CASE cmd.pc = "commit" /\ s \in cmd.swaps
        <5>1. s \in cmd.installed /\ Doing(s)
          BY <1>1, <4>3 DEF IInv, Lists, Swapping
        <5> QED
          BY <3>1, <4>3, <5>1, Ranges DEF Doing, Pending, Swapping
      <4> QED
        BY <1>1, <4>1, <4>2, <4>3
    <3> QED
      BY <1>2, <2>2, <3>1, <3>2, <3>3 DEF Durable, Sound
  <2> QED
    BY <2>1, <2>3, <2>4, <2>5, <2>6, <2>7, <2>8 DEF IInv, Becomes
<1> QED
  BY <1>1, <1>3, <1>4, <1>5 DEF WriteConfig, At

\* Skills that are moved aside or still to be moved are held while nothing is committed.
LEMMA UndoingHolds ==
  ASSUME TypeOK, Control, cmd.pc \in Undoing, cmd.moved # {}, NEW s \in cmd.swaps
  PROVE  Held(s) /\ config.skills[s] = cmd.original.skills[s] /\ ~cmd.committed
BY DEF Control, Undoing, Ending, Own, Held

\* An edited skill is left alone, and the rollback has then failed.
LEMMA RollbackKeeps == ASSUME IInv, Rollback PROVE IInv'
<1>1. TypeOK /\ Control /\ Lists /\ cmd.pc = "rollback" /\ cmd \in CommandType /\ faults' \in Nat
  BY DEF IInv, TypeOK, Rollback, At
<1>2. /\ UNCHANGED <<upstream, lock, commands, edits, mine, config, disk, staged, backup, journal, overrun>>
      /\ staged' \in [Skill -> Contents]
  BY DEF IInv, TypeOK, Rollback, Step, dirs
<1>3. CASE cmd.todo = {} /\ cmd' = [cmd EXCEPT !.pc = "clean", !.todo = cmd.swaps]
  <2>1. Becomes("clean", cmd.swaps, cmd.in, cmd.moved, cmd.installed, cmd.committed,
                cmd.rollbackFailed)
    BY <1>1, <1>3, SwapsTyped, Restarts DEF Steps, Ending
  <2>2. Control'
    BY <1>1, <1>2, <2>1
       DEF Becomes, Control, Own, Preparing, Swapping, Tracking, Undoing, Ending
  <2>3. Lists'
    BY <1>1, <2>1 DEF Becomes, Lists, Preparing, Swapping, Tracking
  <2>4. ASSUME NEW s \in Skill PROVE Chosen(s)'
    BY <1>1, <2>1 DEF IInv, Becomes, Chosen, Preparing, Swapping, Tracking
  <2>5. ASSUME NEW s \in cmd.swaps PROVE Doing(s)'
    BY <1>1, <1>2, <1>3, <2>1
       DEF IInv, Becomes, Doing, Lists, Pending, Preparing, Swapping, Undoing, Ending
  <2> QED
    BY <1>1, <1>2, <2>1, <2>2, <2>3, <2>4, <2>5, Quietly DEF IInv, Becomes
<1>4. ASSUME NEW s \in cmd.todo, NEW edited \in BOOLEAN,
             edited = (s \in cmd.installed /\ disk[s] # cmd.next[s]),
             NEW p, p = IF s \in cmd.installed /\ ~edited THEN "remove"
                        ELSE IF s \in cmd.moved /\ ~edited THEN "restore" ELSE "rollback",
             cmd' = [cmd EXCEPT !.todo = @ \ {s}, !.in = {s}, !.pc = p, !.rollbackFailed = @ \/ edited]
      PROVE  IInv'
  <2>1. s \in Skill /\ s \in cmd.swaps /\ cmd.todo \subseteq Skill /\ cmd.rollbackFailed \in BOOLEAN
    BY <1>1, SwapsTyped, Fields DEF Lists
  <2>2. Becomes(p, cmd.todo \ {s}, {s}, cmd.moved, cmd.installed, cmd.committed,
                cmd.rollbackFailed \/ edited)
    <3>1. /\ p \in Steps /\ (cmd.rollbackFailed \/ edited) \in BOOLEAN
          /\ cmd.todo \ {s} \in SUBSET Skill /\ {s} \in SUBSET Skill
      BY <1>4, <2>1 DEF Steps, Undoing
    <3> QED
      BY <1>1, <1>4, <3>1, Undoes
  <2>3. p \in Undoing
    BY <1>4 DEF Undoing
  <2>4. Control'
    BY <1>1, <1>2, <2>2, <2>3
       DEF Becomes, Control, Own, Preparing, Swapping, Tracking, Undoing, Ending
  <2>5. Lists'
    BY <1>1, <1>4, <2>1, <2>2, <2>3
       DEF Becomes, Lists, One, Preparing, Swapping, Tracking, Undoing
  <2>6. ASSUME NEW t \in Skill PROVE Chosen(t)'
    BY <1>1, <2>2, <2>3 DEF IInv, Becomes, Chosen, Preparing, Swapping, Tracking, Undoing
  <2>7. ASSUME NEW t \in cmd.swaps PROVE Doing(t)'
    <3>1. Doing(t) /\ cmd.installed \subseteq cmd.moved
      BY <1>1 DEF IInv, Lists
    <3>2. CASE t # s
      BY <1>1, <1>2, <2>2, <2>3, <3>1, <3>2
         DEF Becomes, Doing, Pending, Preparing, Swapping, Undoing, Ending
    <3>3. CASE t = s
      <4>1. CASE p = "remove"
        BY <1>1, <1>2, <1>4, <2>2, <3>1, <3>3, <4>1
           DEF Becomes, Doing, Pending, Preparing, Swapping, Undoing, Ending
      <4>2. CASE p = "restore"
        BY <1>1, <1>2, <1>4, <2>2, <3>1, <3>3, <4>2
           DEF Becomes, Doing, Pending, Preparing, Swapping, Undoing, Ending
      <4>3. CASE p = "rollback"
        BY <1>1, <1>2, <1>4, <2>2, <3>1, <3>3, <4>3
           DEF Becomes, Doing, Pending, Preparing, Swapping, Undoing, Ending
      <4> QED
        BY <2>3, <4>1, <4>2, <4>3 DEF Undoing
    <3> QED
      BY <3>2, <3>3
  <2> QED
    BY <1>1, <1>2, <2>2, <2>4, <2>5, <2>6, <2>7, Quietly DEF IInv, Becomes
<1> QED
  <2>1. CASE cmd.todo = {}
    BY <1>3, <2>1 DEF Rollback
  <2>2. CASE cmd.todo # {}
    <3>1. PICK s \in cmd.todo : LET edited == s \in cmd.installed /\ disk[s] # cmd.next[s] IN
             cmd' = [cmd EXCEPT !.todo = @ \ {s}, !.in = {s},
                 !.pc = IF s \in cmd.installed /\ ~edited THEN "remove"
                        ELSE IF s \in cmd.moved /\ ~edited THEN "restore"
                        ELSE "rollback",
                 !.rollbackFailed = @ \/ edited]
      BY <2>2 DEF Rollback
    <3> QED
      BY <1>4, <3>1
  <2> QED
    BY <2>1, <2>2

\* What was installed goes; an edit that comes between the check and the
\* removal is overrun.
LEMMA RemoveInstalledKeeps == ASSUME IInv, RemoveInstalled PROVE IInv'
<1>1. TypeOK /\ Control /\ Lists /\ cmd.pc = "remove" /\ cmd \in CommandType
  BY DEF IInv, TypeOK, RemoveInstalled, At
<1>2. UNCHANGED <<upstream, lock, commands, edits, mine, config, staged, backup, journal>>
  BY DEF RemoveInstalled, Step
<1>3. PICK s \in cmd.in :
       /\ overrun' = IF disk[s] # cmd.next[s] THEN overrun \cup {s} ELSE overrun
       /\ \/ /\ disk' = [disk EXCEPT ![s] = Gone]
             /\ Goto("restore")
             /\ UNCHANGED faults
          \/ /\ Fault
             /\ disk' \in {disk, [disk EXCEPT ![s] = Torn]}
             /\ cmd' = [cmd EXCEPT !.pc = "rollback", !.rollbackFailed = TRUE]
  BY DEF RemoveInstalled
<1>4. /\ s \in Skill /\ s \in cmd.swaps /\ cmd.in = {s} /\ s \in cmd.installed
      /\ s \in cmd.moved /\ s \notin cmd.todo
  BY <1>1, <1>3, SwapsTyped DEF Lists, One
<1>5. PICK failed \in BOOLEAN, p \in {"restore", "rollback"} :
        /\ Becomes(p, cmd.todo, cmd.in, cmd.moved, cmd.installed, cmd.committed, failed)
        /\ p = "rollback" => failed
        /\ p = "restore" => failed = cmd.rollbackFailed /\ disk'[s] = Gone
        /\ disk'[s] \in {disk[s], Gone, Torn} /\ disk' \in [Skill -> Contents]
        /\ \A t \in Skill : t # s => disk'[t] = disk[t]
  <2>1. /\ cmd.rollbackFailed \in BOOLEAN /\ disk \in [Skill -> Contents]
        /\ Torn \in Contents /\ Gone \in Contents
    BY <1>1, Fields, Ranges DEF TypeOK
  <2>2. CASE disk' = [disk EXCEPT ![s] = Gone] /\ Goto("restore")
    <3>1. Becomes("restore", cmd.todo, cmd.in, cmd.moved, cmd.installed, cmd.committed,
                  cmd.rollbackFailed)
      BY <1>1, <2>2, Moves DEF Goto, Steps, Undoing
    <3> QED
      BY <1>4, <2>1, <2>2, <3>1
  <2>3. CASE /\ disk' \in {disk, [disk EXCEPT ![s] = Torn]}
             /\ cmd' = [cmd EXCEPT !.pc = "rollback", !.rollbackFailed = TRUE]
    <3>1. Becomes("rollback", cmd.todo, cmd.in, cmd.moved, cmd.installed, cmd.committed, TRUE)
      BY <1>1, <2>3, Gives DEF Steps, Undoing
    <3> QED
      BY <1>4, <2>1, <2>3, <3>1
  <2> QED
    BY <1>3, <2>2, <2>3
<1>6. TypeOK'
  <2>1. faults' \in Nat /\ overrun' \in SUBSET Skill
    BY <1>1, <1>3, <1>4, FaultTyped DEF TypeOK
  <2> QED
    BY <1>1, <1>2, <1>5, <2>1 DEF TypeOK, Becomes
<1>7. Control'
  BY <1>1, <1>2, <1>5
     DEF Becomes, Control, Own, Preparing, Swapping, Tracking, Undoing, Ending
<1>8. Lists'
  BY <1>1, <1>4, <1>5 DEF Becomes, Lists, One, Preparing, Swapping, Tracking
<1>9. ASSUME NEW t \in Skill PROVE Chosen(t)'
  BY <1>1, <1>5 DEF IInv, Becomes, Chosen, Preparing, Swapping, Tracking
<1>10. /\ Held(s) /\ config.skills[s] = cmd.original.skills[s] /\ backup[s] = cmd.original.skills[s]
       /\ disk[s] \in {cmd.next[s]} \cup Edit /\ cmd.next[s] \in Recorded
       /\ cmd.original.skills[s] \in Recorded
       /\ cmd.next[s] # Gone /\ cmd.original.skills[s] # Gone
  <2>1. Doing(s) /\ Chosen(s)
    BY <1>4 DEF IInv
  <2>2. Held(s) /\ config.skills[s] = cmd.original.skills[s]
    BY <1>1, <1>4, UndoingHolds DEF Undoing
  <2> QED
    BY <1>1, <1>4, <2>1, <2>2, Fields DEF Doing, Chosen, Gone, Untracked
<1>11. ASSUME NEW t \in Skill PROVE Durable(t)'
  <2>1. Durable(t) /\ (Held(t)' <=> Held(t)) /\ Proper(t)' = Proper(t) /\ overrun \subseteq overrun'
    BY <1>2, <1>3 DEF IInv, Held, Proper
  <2>2. CASE t # s
    BY <1>2, <1>5, <2>1, <2>2 DEF Durable, Sound
  <2>3. CASE t = s
    <3>1. backup[s] \notin Edit /\ Gone \notin Edit /\ Torn \notin Edit
      BY <1>10, Ranges
    <3>2. mine[s] # Gone => mine[s] = disk[s] \/ s \in overrun
      <4>1. mine[s] \in Edit \cup {Gone}
        BY <1>1, <1>4 DEF TypeOK
      <4> QED
        BY <2>1, <2>3, <3>1, <4>1 DEF Durable
    <3>3. mine[s] = disk[s] /\ disk[s] = cmd.next[s] => mine[s] = Gone
      <4>1. mine[s] \in Edit \cup {Gone}
        BY <1>1, <1>4 DEF TypeOK
      <4> QED
        BY <1>10, <4>1, Ranges
    <3>4. mine[s] # Gone => s \in overrun'
      BY <1>3, <2>1, <3>2, <3>3
    <3> QED
      BY <1>2, <1>5, <1>10, <2>1, <2>3, <3>1, <3>4 DEF Durable, Sound, Proper
  <2> QED
    BY <2>2, <2>3
<1>12. ASSUME NEW t \in cmd.swaps PROVE Doing(t)'
  <2>1. Doing(t) /\ t \in Skill
    BY SwapsTyped DEF IInv
  <2>2. CASE t # s
    BY <1>1, <1>2, <1>4, <1>5, <2>1, <2>2
       DEF Becomes, Doing, Lists, Pending, Preparing, Swapping, Undoing, Ending
  <2>3. CASE t = s
    BY <1>1, <1>2, <1>4, <1>5, <1>10, <2>1, <2>3
       DEF Becomes, Doing, Lists, Pending, Preparing, Swapping, Undoing, Ending
  <2> QED
    BY <2>2, <2>3
<1> QED
  BY <1>5, <1>6, <1>7, <1>8, <1>9, <1>11, <1>12 DEF IInv, Becomes

\* A backup comes back where nothing is, or stays where it is.
LEMMA RestoreBackupKeeps == ASSUME IInv, RestoreBackup PROVE IInv'
<1>1. TypeOK /\ Control /\ Lists /\ cmd.pc = "restore" /\ cmd \in CommandType
  BY DEF IInv, TypeOK, RestoreBackup, At
<1>2. UNCHANGED <<upstream, lock, commands, edits, mine, config, staged, journal, overrun>>
  BY DEF RestoreBackup, Step
<1>3. PICK s \in cmd.in :
       \/ /\ disk[s] = Gone
          /\ disk' = [disk EXCEPT ![s] = backup[s]]
          /\ backup' = [backup EXCEPT ![s] = Gone]
          /\ Goto("rollback")
          /\ UNCHANGED faults
       \/ /\ (disk[s] # Gone /\ UNCHANGED faults) \/ Fault
          /\ cmd' = [cmd EXCEPT !.pc = "rollback", !.rollbackFailed = TRUE]
          /\ UNCHANGED <<disk, backup>>
  BY DEF RestoreBackup
<1>4. s \in Skill /\ s \in cmd.swaps /\ cmd.in = {s} /\ s \in cmd.moved /\ s \notin cmd.todo
  BY <1>1, <1>3, SwapsTyped DEF Lists, One
<1>5. PICK failed \in BOOLEAN :
        /\ Becomes("rollback", cmd.todo, cmd.in, cmd.moved, cmd.installed, cmd.committed, failed)
        /\ \/ failed /\ UNCHANGED <<disk, backup>>
           \/ failed = cmd.rollbackFailed /\ disk[s] = Gone /\ disk'[s] = backup[s] /\ backup'[s] = Gone
        /\ \A t \in Skill : t # s => disk'[t] = disk[t] /\ backup'[t] = backup[t]
        /\ disk' \in [Skill -> Contents] /\ backup' \in [Skill -> Contents]
  <2>1. /\ cmd.rollbackFailed \in BOOLEAN /\ disk \in [Skill -> Contents]
        /\ backup \in [Skill -> Contents] /\ Gone \in Contents
    BY <1>1, Fields, Ranges DEF TypeOK
  <2>2. CASE /\ disk[s] = Gone /\ disk' = [disk EXCEPT ![s] = backup[s]]
             /\ backup' = [backup EXCEPT ![s] = Gone] /\ Goto("rollback")
    <3>1. Becomes("rollback", cmd.todo, cmd.in, cmd.moved, cmd.installed, cmd.committed,
                  cmd.rollbackFailed)
      BY <1>1, <2>2, Moves DEF Goto, Steps, Undoing
    <3> QED
      BY <1>4, <2>1, <2>2, <3>1
  <2>3. CASE /\ cmd' = [cmd EXCEPT !.pc = "rollback", !.rollbackFailed = TRUE]
             /\ UNCHANGED <<disk, backup>>
    <3>1. Becomes("rollback", cmd.todo, cmd.in, cmd.moved, cmd.installed, cmd.committed, TRUE)
      BY <1>1, <2>3, Gives DEF Steps, Undoing
    <3> QED
      BY <1>4, <2>1, <2>3, <3>1
  <2> QED
    BY <1>3, <2>2, <2>3
<1>6. TypeOK'
  <2>1. faults' \in Nat
    BY <1>1, <1>3, FaultTyped DEF TypeOK
  <2> QED
    BY <1>1, <1>2, <1>5, <2>1 DEF TypeOK, Becomes
<1>7. Control'
  BY <1>1, <1>2, <1>5
     DEF Becomes, Control, Own, Preparing, Swapping, Tracking, Undoing, Ending
<1>8. Lists'
  BY <1>1, <1>4, <1>5 DEF Becomes, Lists, One, Preparing, Swapping, Tracking
<1>9. ASSUME NEW t \in Skill PROVE Chosen(t)'
  BY <1>1, <1>5 DEF IInv, Becomes, Chosen, Preparing, Swapping, Tracking
<1>10. Held(s) /\ backup[s] # Gone
  <2>1. Doing(s)
    BY <1>4 DEF IInv
  <2>2. Held(s)
    BY <1>1, <1>4, UndoingHolds DEF Undoing
  <2> QED
    BY <1>1, <1>4, <2>1, <2>2 DEF Doing
<1>11. ASSUME NEW t \in Skill PROVE Durable(t)'
  <2>1. Durable(t) /\ (Held(t)' <=> Held(t)) /\ Proper(t)' = Proper(t)
    BY <1>2 DEF IInv, Held, Proper
  <2>2. CASE t # s
    BY <1>2, <1>5, <2>1, <2>2 DEF Durable, Sound
  <2>3. CASE t = s /\ UNCHANGED <<disk, backup>>
    BY <1>2, <2>1, <2>3 DEF Durable, Sound
  <2>4. CASE t = s /\ disk[s] = Gone /\ disk'[s] = backup[s] /\ backup'[s] = Gone
    <3>1. mine[s] \in Edit \cup {Gone} /\ Gone \notin Edit
      BY <1>1, <1>4, Ranges DEF TypeOK
    <3> QED
      BY <1>2, <1>10, <2>1, <2>4, <3>1 DEF Durable, Sound
  <2> QED
    BY <1>5, <2>2, <2>3, <2>4
<1>12. ASSUME NEW t \in cmd.swaps PROVE Doing(t)'
  <2>1. Doing(t) /\ t \in Skill
    BY SwapsTyped DEF IInv
  <2>2. CASE t # s
    BY <1>1, <1>2, <1>4, <1>5, <2>1, <2>2
       DEF Becomes, Doing, Lists, Pending, Preparing, Swapping, Undoing, Ending
  <2>3. CASE t = s
    BY <1>1, <1>2, <1>4, <1>5, <2>1, <2>3
       DEF Becomes, Doing, Lists, Pending, Preparing, Swapping, Undoing, Ending
  <2> QED
    BY <2>2, <2>3
<1> QED
  BY <1>5, <1>6, <1>7, <1>8, <1>9, <1>11, <1>12 DEF IInv, Becomes

\* Backups go only after the commit: they are held no longer.
LEMMA CleanKeeps == ASSUME IInv, Clean PROVE IInv'
<1>1. TypeOK /\ Control /\ Lists /\ cmd.pc = "clean" /\ cmd \in CommandType /\ faults' \in Nat
  BY FaultTyped DEF IInv, TypeOK, Clean, At
<1>2. UNCHANGED <<upstream, lock, commands, edits, mine, config, disk, journal, overrun>>
  BY DEF Clean, Step
<1>3. PICK p \in Ending, todo \in SUBSET Skill :
        /\ todo \subseteq cmd.todo
        /\ Becomes(p, todo, cmd.in, cmd.moved, cmd.installed, cmd.committed, cmd.rollbackFailed)
        /\ staged' \in [Skill -> Contents] /\ backup' \in [Skill -> Contents]
        /\ \A t \in Skill : backup'[t] = backup[t] \/ (t \in cmd.todo /\ cmd.committed /\ backup'[t] = Gone)
  <2>1. /\ cmd.todo \subseteq Skill /\ staged \in [Skill -> Contents]
        /\ backup \in [Skill -> Contents] /\ Gone \in Contents
    BY <1>1, Fields, Ranges DEF TypeOK
  <2>2. CASE Goto("unjournal") /\ UNCHANGED <<staged, backup>>
    <3>1. Becomes("unjournal", cmd.todo, cmd.in, cmd.moved, cmd.installed, cmd.committed,
                  cmd.rollbackFailed)
      BY <1>1, <2>2, Moves DEF Goto, Steps, Ending
    <3> QED
      BY <2>1, <2>2, <3>1 DEF Ending
  <2>3. ASSUME NEW s \in cmd.todo, cmd' = [cmd EXCEPT !.todo = @ \ {s}],
               staged' \in {staged, [staged EXCEPT ![s] = Gone]},
               backup' \in {backup, [t \in Skill |-> IF t \in Disposable(s) THEN Gone ELSE backup[t]]}
        PROVE  /\ Becomes("clean", cmd.todo \ {s}, cmd.in, cmd.moved, cmd.installed,
                          cmd.committed, cmd.rollbackFailed)
               /\ staged' \in [Skill -> Contents] /\ backup' \in [Skill -> Contents]
               /\ \A t \in Skill : backup'[t] = backup[t] \/ (t \in cmd.todo /\ cmd.committed /\ backup'[t] = Gone)
    <3>1. Becomes("clean", cmd.todo \ {s}, cmd.in, cmd.moved, cmd.installed, cmd.committed,
                  cmd.rollbackFailed)
      BY <1>1, <2>1, <2>3, Crosses
    <3>2. staged' \in [Skill -> Contents]
      BY <2>1, <2>3
    <3>3. CASE backup' = backup
      BY <2>1, <3>1, <3>2, <3>3
    <3>4. CASE backup' = [t \in Skill |-> IF t \in Disposable(s) THEN Gone ELSE backup[t]]
      <4>1. backup' \in [Skill -> Contents]
        BY <2>1, <3>4
      <4> QED
        BY <2>3, <3>1, <3>2, <3>4, <4>1 DEF Disposable
    <3> QED
      BY <2>3, <3>3, <3>4
  <2>4. CASE cmd.todo # {}
    <3>1. PICK s \in cmd.todo :
            /\ cmd' = [cmd EXCEPT !.todo = @ \ {s}]
            /\ staged' \in {staged, [staged EXCEPT ![s] = Gone]}
            /\ backup' \in {backup, [t \in Skill |-> IF t \in Disposable(s) THEN Gone ELSE backup[t]]}
      BY <2>4 DEF Clean
    <3>2. cmd.todo \ {s} \in SUBSET Skill /\ "clean" \in Ending
      BY <2>1 DEF Ending
    <3> QED
      BY <2>3, <3>1, <3>2
  <2> QED
    BY <2>2, <2>4 DEF Clean
<1>4. TypeOK'
  BY <1>1, <1>2, <1>3 DEF TypeOK, Becomes
<1>5. Control'
  BY <1>1, <1>2, <1>3
     DEF Becomes, Control, Own, Preparing, Swapping, Tracking, Undoing, Ending
<1>6. Lists'
  BY <1>1, <1>3 DEF Becomes, Lists, Preparing, Swapping, Tracking, Ending
<1>7. ASSUME NEW t \in Skill PROVE Chosen(t)'
  BY <1>1, <1>3 DEF IInv, Becomes, Chosen, Preparing, Swapping, Tracking, Ending
<1>8. ASSUME NEW t \in Skill PROVE Durable(t)'
  <2>1. Durable(t) /\ (Held(t)' <=> Held(t)) /\ Proper(t)' = Proper(t) /\ (Sound(t)' <=> Sound(t))
    BY <1>2 DEF IInv, Held, Proper, Sound
  <2>2. CASE backup'[t] = backup[t]
    BY <1>2, <2>1, <2>2 DEF Durable
  <2>3. CASE t \in cmd.todo /\ cmd.committed /\ backup'[t] = Gone
    <3>1. ~Held(t)
      <4>1. Chosen(t) /\ t \in cmd.swaps
        BY <1>1, <2>3 DEF IInv, Lists
      <4> QED
        BY <1>1, <2>3, <4>1 DEF Chosen, Held, Control, Own, Ending, Undoing
    <3>2. mine[t] \in Edit \cup {Gone} /\ Gone \notin Edit
      BY <1>1, Ranges DEF TypeOK
    <3> QED
      BY <1>2, <2>1, <2>3, <3>1, <3>2 DEF Durable
  <2> QED
    BY <1>3, <2>2, <2>3
<1>9. ASSUME NEW t \in cmd.swaps PROVE Doing(t)'
  <2>1. Doing(t) /\ t \in Skill
    BY SwapsTyped DEF IInv
  <2> QED
    BY <1>1, <1>2, <1>3, <2>1
       DEF Becomes, Doing, Lists, Pending, Preparing, Swapping, Undoing, Ending
<1> QED
  BY <1>3, <1>4, <1>5, <1>6, <1>7, <1>8, <1>9 DEF IInv, Becomes

\* The journal goes after the commit, or when no backup is left.
LEMMA UnjournalKeeps == ASSUME IInv, Unjournal PROVE IInv'
<1>1. TypeOK /\ Control /\ Lists /\ cmd.pc = "unjournal" /\ cmd \in CommandType /\ faults' \in Nat
  BY FaultTyped DEF IInv, TypeOK, Unjournal, At
<1>2. UNCHANGED <<upstream, lock, commands, edits, mine, config, disk, staged, backup, overrun>>
  BY DEF Unjournal, Step, dirs
<1>3. Becomes("unlock", cmd.todo, cmd.in, cmd.moved, cmd.installed, cmd.committed,
              cmd.rollbackFailed)
  BY <1>1, Moves DEF Unjournal, Goto, Steps
<1>4. journal' = journal \/ (journal' = NoJournal /\ ~cmd.rollbackFailed)
  BY DEF Unjournal
<1>5. NoJournal \in [swaps : SUBSET Skill, previous : [Skill -> Recorded]]
  BY Ranges DEF NoJournal, Untracked, Gone
<1>6. TypeOK'
  BY <1>1, <1>2, <1>3, <1>4, <1>5 DEF TypeOK, Becomes
<1>7. Control' /\ Lists' /\ (\A s \in Skill : Chosen(s)') /\ (\A s \in cmd.swaps' : Doing(s)')
  BY <1>1, <1>2, <1>3, UnlockingKeeps DEF Becomes
<1>8. ASSUME NEW s \in Skill PROVE Durable(s)'
  <2>1. Durable(s) /\ Proper(s)' = Proper(s) /\ (Sound(s)' <=> Sound(s))
    BY <1>2 DEF IInv, Proper, Sound
  <2>2. CASE journal' = journal
    BY <1>2, <2>1, <2>2 DEF Durable, Held
  <2>3. CASE journal' = NoJournal /\ ~cmd.rollbackFailed
    <3>1. ~Held(s)'
      BY <2>3 DEF Held, NoJournal
    <3>2. CASE ~Held(s)
      BY <1>2, <2>1, <3>1, <3>2 DEF Durable
    <3>3. CASE Held(s)
      <4>1. s \in cmd.swaps /\ config.skills[s] = cmd.original.skills[s]
        BY <1>1, <3>3 DEF Held, Control, Own, NoJournal, Ending
      <4>2. ~cmd.committed
        BY <1>1, <4>1 DEF IInv, Control, Chosen
      <4>3. backup[s] = Gone
        BY <1>1, <2>3, <4>1, <4>2 DEF IInv, Doing, Ending
      <4>4. Gone \notin Edit
        BY Ranges
      <4> QED
        BY <1>2, <2>1, <3>1, <3>3, <4>3, <4>4 DEF Durable, Sound, Proper, Untracked, Gone
    <3> QED
      BY <3>2, <3>3
  <2> QED
    BY <1>4, <2>2, <2>3
<1> QED
  BY <1>3, <1>6, <1>7, <1>8 DEF IInv, Becomes

\* No command, no knowledge.
LEMMA IdleIsTyped ==
  /\ Idle \in CommandType /\ Idle.pc = "idle"
  /\ Idle.swaps = {} /\ Idle.in = {} /\ Idle.moved = {} /\ Idle.todo = {}
  /\ Idle.installed = {} /\ Idle.committed = FALSE /\ Idle.rollbackFailed = FALSE
<1>1. /\ [skills |-> NoJournal.previous, note |-> 0] \in ConfigType
      /\ NoJournal.previous \in [Skill -> Recorded]
  BY Ranges DEF ConfigType, NoJournal, Untracked, Gone
<1> QED
  BY <1>1 DEF Idle, CommandType, Steps

\* With no command, what is durable is all that matters.
LEMMA RestKeeps ==
  ASSUME cmd' = Idle, lock' # "held"
  PROVE  Control' /\ Lists' /\ (\A s \in Skill : Chosen(s)') /\ (\A s \in cmd.swaps' : Doing(s)')
<1>1. /\ cmd'.pc = "idle" /\ cmd'.swaps = {} /\ cmd'.todo = {} /\ cmd'.in = {}
      /\ cmd'.moved = {} /\ cmd'.installed = {} /\ ~cmd'.committed
  BY IdleIsTyped
<1>2. Control'
  BY <1>1 DEF Control, Preparing, Swapping, Tracking, Undoing, Ending, Own
<1>3. Lists'
  BY <1>1 DEF Lists, Preparing, Swapping, Tracking
<1>4. ASSUME NEW s \in Skill PROVE Chosen(s)'
  BY <1>1 DEF Chosen, Preparing, Swapping, Tracking
<1> QED
  BY <1>1, <1>2, <1>3, <1>4

\* A command that ends or is killed leaves what is durable.
LEMMA StopKeeps == ASSUME IInv, Unlock \/ Kill \/ RemoveLock PROVE IInv'
<1>1. cmd' = Idle /\ lock' # "held" /\ lock' \in {"free", "stale"}
  <2>1. CASE RemoveLock
    BY <2>1 DEF RemoveLock, IInv, Control
  <2> QED
    BY <2>1 DEF Unlock, Kill
<1>2. /\ UNCHANGED <<upstream, config, disk, staged, backup, journal, commands, edits, mine, overrun>>
      /\ faults' \in Nat
  <2>1. faults' \in Nat
    BY FaultTyped DEF IInv, Unlock, Kill, RemoveLock, bounds
  <2> QED
    BY <2>1 DEF Unlock, Kill, RemoveLock, dirs, bounds, history
<1>3. TypeOK'
  BY <1>1, <1>2, IdleIsTyped DEF IInv, TypeOK
<1>4. \A s \in Skill : Durable(s)'
  BY <1>2, StillDurable DEF IInv
<1> QED
  BY <1>1, <1>3, <1>4, RestKeeps DEF IInv

\* Recovery by hand brings back the backup of each held skill that the user did
\* not edit since, and drops the journal and the other backups.
LEMMA RecoverByHandKeeps == ASSUME IInv, RecoverByHand PROVE IInv'
<1> DEFINE back == {s \in journal.swaps :
                    /\ config.skills[s] = journal.previous[s]
                    /\ backup[s] # Gone /\ disk[s] \notin Edit}
<1>1. /\ TypeOK /\ lock = "free" /\ cmd = Idle
      /\ UNCHANGED <<upstream, config, staged, lock, cmd, commands, edits, faults, overrun>>
      /\ disk' = [s \in Skill |-> IF s \in back THEN backup[s] ELSE disk[s]]
      /\ mine' = [s \in Skill |-> IF s \notin back THEN mine[s]
                                  ELSE IF backup[s] \in Edit THEN backup[s] ELSE Gone]
      /\ backup' = [s \in Skill |-> Gone] /\ journal' = NoJournal
  BY DEF IInv, RecoverByHand, Control, bounds
<1>2. NoJournal \in [swaps : SUBSET Skill, previous : [Skill -> Recorded]]
  BY Ranges DEF NoJournal, Untracked, Gone
<1>3. TypeOK'
  <2>1. /\ disk' \in [Skill -> Contents] /\ backup' \in [Skill -> Contents]
        /\ mine' \in [Skill -> Edit \cup {Gone}]
    BY <1>1, Ranges DEF TypeOK
  <2> QED
    BY <1>1, <1>2, <2>1 DEF TypeOK
<1>4. ASSUME NEW s \in Skill PROVE Durable(s)'
  <2>1. Durable(s) /\ Proper(s)' = Proper(s)
    BY <1>1 DEF IInv, Proper
  <2>2. ~Held(s)' /\ backup'[s] = Gone /\ Gone \notin Edit
    BY <1>1, Ranges DEF Held, NoJournal
  <2>3. mine[s] \in Edit \cup {Gone} /\ config.skills[s] \in Recorded
    BY <1>1 DEF TypeOK, ConfigType
  <2>4. s \in back <=> Held(s) /\ backup[s] # Gone /\ disk[s] \notin Edit
    BY DEF Held
  <2>5. CASE s \in back
    <3>1. disk'[s] = backup[s] /\ mine'[s] = IF backup[s] \in Edit THEN backup[s] ELSE Gone
      BY <1>1, <2>5
    <3> QED
      BY <1>1, <2>1, <2>2, <2>4, <2>5, <3>1 DEF Durable, Sound, Proper
  <2>6. CASE s \notin back
    <3>1. disk'[s] = disk[s] /\ mine'[s] = mine[s]
      BY <1>1, <2>6
    <3>2. Sound(s) /\ (backup[s] \in Edit => disk[s] \in Edit)
      <4> HIDE DEF back
      <4> QED
        BY <2>1, <2>2, <2>4, <2>6 DEF Durable, Sound, Proper, Untracked, Gone
    <3> HIDE DEF back
    <3> QED
      BY <1>1, <2>1, <2>2, <2>3, <3>1, <3>2 DEF Durable, Sound
  <2> QED
    BY <2>5, <2>6
<1> QED
  BY <1>1, <1>3, <1>4, RestKeeps DEF IInv

\* What the user writes is an edit that no command takes for its own.
LEMMA EditKeeps ==
  ASSUME IInv, NEW s \in Skill, NEW content, NEW author,
         disk' = [disk EXCEPT ![s] = content], mine' = [mine EXCEPT ![s] = author],
         \/ content \in Edit /\ author = content
         \/ lock # "held" /\ content = config.skills[s] /\ content # Untracked /\ author = Gone,
         edits' \in Nat,
         UNCHANGED <<config, upstream, staged, backup, journal, lock, cmd, commands, faults, overrun>>
  PROVE  IInv'
<1>1. /\ \A t \in Skill : disk'[t] = IF t = s THEN content ELSE disk[t]
      /\ \A t \in Skill : mine'[t] = IF t = s THEN author ELSE mine[t]
      /\ disk' \in [Skill -> Contents] /\ mine' \in [Skill -> Edit \cup {Gone}] /\ content # Gone
  BY Ranges DEF IInv, TypeOK, ConfigType, Untracked, Gone
<1>2. TypeOK'
  BY <1>1 DEF IInv, TypeOK
<1>3. Control'
  BY DEF IInv, Control, Own
<1>4. Lists'
  BY DEF IInv, Lists, One
<1>5. ASSUME NEW t \in Skill PROVE Durable(t)'
  <2>1. Durable(t) /\ (Held(t)' <=> Held(t)) /\ Proper(t)' = Proper(t)
    BY DEF IInv, Held, Proper
  <2>2. CASE t # s
    BY <1>1, <2>1, <2>2 DEF Durable, Sound
  <2>3. CASE t = s
    <3>1. config.skills[s] \notin Edit
      BY Ranges DEF IInv, TypeOK, ConfigType
    <3> QED
      BY <1>1, <2>1, <2>3, <3>1 DEF Durable, Sound, Proper
  <2> QED
    BY <2>2, <2>3
<1>6. CASE lock # "held"
  <2>1. cmd.pc = "idle" /\ cmd.swaps = {}
    BY <1>6, IdleIsTyped DEF IInv, Control
  <2>2. ASSUME NEW t \in Skill PROVE Chosen(t)'
    BY <2>1 DEF Chosen, Preparing, Swapping, Tracking
  <2> QED
    BY <1>2, <1>3, <1>4, <1>5, <2>1, <2>2 DEF IInv
<1>7. CASE content \in Edit
  <2>1. ASSUME NEW t \in Skill PROVE Chosen(t)'
    BY <1>1, <1>7 DEF IInv, Chosen
  <2>2. ASSUME NEW t \in cmd.swaps PROVE Doing(t)'
    <3>1. Doing(t) /\ t \in Skill
      BY SwapsTyped DEF IInv
    <3> QED
      BY <1>1, <1>7, <3>1 DEF Doing, Pending
  <2> QED
    BY <1>2, <1>3, <1>4, <1>5, <2>1, <2>2 DEF IInv
<1> QED
  BY <1>6, <1>7

\* The user edits a skill, reverts it or changes the rest of the config.
LEMMA UserEditsKeeps == ASSUME IInv, UserEdits PROVE IInv'
<1>1. /\ edits' = edits + 1 /\ edits < MaxEdits /\ edits \in Nat /\ edits' \in Nat
      /\ UNCHANGED <<upstream, staged, backup, journal, lock, cmd, commands, faults, overrun>>
  BY DEF IInv, TypeOK, UserEdits
<1>2. ASSUME NEW s \in Skill, disk' = [disk EXCEPT ![s] = MaxVersions + edits'],
             mine' = [mine EXCEPT ![s] = MaxVersions + edits'], UNCHANGED config
      PROVE  IInv'
  <2>1. MaxVersions + edits' \in Edit
    BY <1>1, ConstantsAssumption DEF Edit
  <2> QED
    BY <1>1, <1>2, <2>1, EditKeeps
<1>3. ASSUME NEW s \in Tracked, lock # "held",
             disk' = [disk EXCEPT ![s] = config.skills[s]],
             mine' = [mine EXCEPT ![s] = Gone], UNCHANGED config
      PROVE  IInv'
  <2>1. s \in Skill /\ config.skills[s] # Untracked
    BY DEF Tracked
  <2> QED
    BY <1>1, <1>3, <2>1, EditKeeps
<1>4. CASE config' = [config EXCEPT !.note = edits'] /\ UNCHANGED <<disk, mine>>
  <2>1. config' \in ConfigType /\ config'.skills = config.skills
    BY <1>1, <1>4 DEF IInv, TypeOK, ConfigType
  <2>2. TypeOK'
    BY <1>1, <1>4, <2>1 DEF IInv, TypeOK
  <2>3. Control' /\ Lists'
    BY <1>1, <2>1 DEF IInv, Control, Own, Lists, One
  <2>4. ASSUME NEW s \in Skill PROVE Durable(s)' /\ Chosen(s)'
    BY <1>1, <1>4, <2>1, StillDurable DEF IInv, Chosen
  <2>5. ASSUME NEW s \in cmd.swaps PROVE Doing(s)'
    BY <1>1, <1>4 DEF IInv, Doing, Pending
  <2> QED
    BY <1>1, <2>2, <2>3, <2>4, <2>5 DEF IInv
<1> QED
  BY <1>2, <1>3, <1>4 DEF UserEdits

\* A new version upstream changes nothing here.
LEMMA ReleaseKeeps == ASSUME IInv, Release PROVE IInv'
<1>1. UNCHANGED <<config, disk, staged, backup, journal, lock, cmd, commands, edits, faults, mine, overrun>>
  BY DEF Release, dirs, bounds, history
<1>2. upstream' \in [Skill -> Version]
  <2>1. PICK s \in Skill : upstream[s] < MaxVersions /\ upstream' = [upstream EXCEPT ![s] = @ + 1]
    BY DEF Release
  <2>2. upstream[s] + 1 \in Version
    BY <2>1, ConstantsAssumption DEF IInv, TypeOK, Version
  <2> QED
    BY <2>1, <2>2 DEF IInv, TypeOK
<1>3. TypeOK'
  BY <1>1, <1>2 DEF IInv, TypeOK
<1>4. Control' /\ Lists'
  BY <1>1 DEF IInv, Control, Own, Lists, One
<1>5. ASSUME NEW s \in Skill PROVE Durable(s)' /\ Chosen(s)'
  BY <1>1, StillDurable DEF IInv, Chosen
<1>6. ASSUME NEW s \in cmd.swaps PROVE Doing(s)'
  BY <1>1 DEF IInv, Doing, Pending
<1> QED
  BY <1>1, <1>3, <1>4, <1>5, <1>6 DEF IInv

-----------------------------------------------------------------------------
(* How commands begin.                                                     *)

\* Only swaps are held, so without a journal all skills are in order.
LEMMA Settled ==
  ASSUME IInv, journal = NoJournal, NEW s \in Skill
  PROVE  /\ ~Held(s) /\ backup[s] \notin Edit
         /\ config.skills[s] # Untracked => disk[s] \in Proper(s)
         /\ mine[s] # Gone => mine[s] = disk[s] \/ s \in overrun
<1>1. ~Held(s)
  BY DEF Held, NoJournal
<1>2. mine[s] \in Edit \cup {Gone}
  BY DEF IInv, TypeOK
<1> QED
  BY <1>1, <1>2 DEF IInv, Durable, Sound

\* An update begins without a journal, so its empty backups lose nothing.
LEMMA UpdateKeeps ==
  ASSUME IInv, NEW wanted \in SUBSET Skill, UpdateSkills(wanted)
  PROVE  IInv'
<1> DEFINE changed == Prepare(wanted)
           next == [s \in Skill |-> IF s \in changed THEN upstream[s] ELSE config.skills[s]]
           p == IF changed = {} THEN "unlock" ELSE "stage"
<1>1. /\ TypeOK /\ journal = NoJournal /\ lock = "free" /\ lock' = "held"
      /\ commands' = commands + 1
      /\ staged' = [s \in Skill |-> Gone] /\ backup' = [s \in Skill |-> Gone]
      /\ UNCHANGED <<upstream, config, disk, journal, edits, faults, mine, overrun>>
  BY DEF IInv, UpdateSkills, WithLock, history
<1>2. \A s \in changed : /\ s \in Skill /\ config.skills[s] # Untracked
                         /\ disk[s] = config.skills[s] /\ upstream[s] # config.skills[s]
  BY DEF Prepare, Tracked
<1>3. /\ changed \subseteq Skill /\ next \in [Skill -> Recorded] /\ config \in ConfigType
      /\ p \in Steps
  BY <1>1, <1>2, Ranges DEF TypeOK, ConfigType, Steps, Preparing
<1>4. cmd' = [Idle EXCEPT !.pc = p, !.original = config, !.swaps = changed, !.todo = changed, !.next = next]
  BY DEF UpdateSkills
<1>5. /\ cmd' \in CommandType /\ cmd'.pc = p /\ cmd'.original = config
      /\ cmd'.swaps = changed /\ cmd'.todo = changed
      /\ cmd'.next = next /\ cmd'.in = {} /\ cmd'.moved = {} /\ cmd'.installed = {}
      /\ cmd'.committed = FALSE
  <2> HIDE DEF changed, next, p
  <2> DEFINE c == [Idle EXCEPT !.pc = p]
             d == [c EXCEPT !.original = config]
             e == [d EXCEPT !.swaps = changed]
             f == [e EXCEPT !.todo = changed]
  <2>1. c \in CommandType
    BY <1>3, IdleIsTyped, FieldTypes
  <2>2. d \in CommandType
    BY <1>3, <2>1, FieldTypes
  <2>3. e \in CommandType
    BY <1>3, <2>2, FieldTypes
  <2>4. f \in CommandType
    BY <1>3, <2>3, FieldTypes
  <2>5. cmd' = [f EXCEPT !.next = next]
    BY <1>4
  <2>6. cmd' \in CommandType
    <3> HIDE DEF f
    <3> QED
      BY <1>3, <2>4, <2>5, FieldTypes
  <2> QED
    BY <1>4, <2>6, IdleIsTyped DEF CommandType
<1> HIDE DEF p
<1>6. p \in {"unlock", "stage"} /\ (p = "unlock" <=> changed = {})
  BY DEF p
<1>7. TypeOK'
  BY <1>1, <1>5, Ranges DEF TypeOK
<1>8. Control'
  BY <1>1, <1>5, <1>6 DEF Control, Preparing, Swapping, Tracking, Undoing, Ending
<1>9. Lists'
  BY <1>5, <1>6 DEF Lists, Preparing, Swapping, Tracking
<1>10. ASSUME NEW s \in Skill PROVE Chosen(s)'
  <2>1. next[s] = IF s \in changed THEN upstream[s] ELSE config.skills[s]
    OBVIOUS
  <2>2. upstream[s] # Untracked
    BY <1>1, Ranges DEF TypeOK
  <2> HIDE DEF next, changed
  <2> QED
    BY <1>2, <1>5, <1>6, <2>1, <2>2 DEF Chosen, Preparing, Swapping, Tracking
<1>11. ASSUME NEW s \in changed PROVE Doing(s)'
  <2>1. backup'[s] = Gone
    BY <1>1, <1>3
  <2> HIDE DEF next, changed
  <2> QED
    BY <1>5, <1>6, <1>11, <2>1 DEF Doing, Pending, Preparing, Swapping, Undoing, Ending
<1>12. ASSUME NEW s \in Skill PROVE Durable(s)'
  <2>1. Durable(s) /\ ~Held(s) /\ (mine[s] # Gone => mine[s] = disk[s] \/ s \in overrun)
    BY <1>1, Settled DEF IInv
  <2>2. backup'[s] = Gone /\ Gone \notin Edit
    BY <1>1, Ranges
  <2> QED
    BY <1>1, <2>1, <2>2 DEF Durable, Held, Sound, Proper
<1> QED
  <2> HIDE DEF changed, next
  <2> QED
    BY <1>5, <1>7, <1>8, <1>9, <1>10, <1>11, <1>12 DEF IInv

\* A skill is tracked at the version that is installed.
LEMMA TrackKeeps ==
  ASSUME IInv, NEW s \in Skill, NEW v \in Version, TrackSkill(s, v)
  PROVE  IInv'
<1> DEFINE next == [config.skills EXCEPT ![s] = v]
           p == IF disk[s] = v THEN "track" ELSE "unlock"
<1>1. /\ TypeOK /\ journal = NoJournal /\ lock = "free" /\ lock' = "held"
      /\ commands' = commands + 1
      /\ UNCHANGED <<upstream, config, disk, staged, backup, journal, edits, faults, mine, overrun>>
  BY DEF IInv, TrackSkill, WithLock, dirs, history
<1>2. /\ next \in [Skill -> Recorded] /\ config \in ConfigType /\ p \in Steps
      /\ config.skills \in [Skill -> Recorded]
  BY <1>1, Ranges DEF TypeOK, ConfigType, Steps, Tracking
<1>3. cmd' = [Idle EXCEPT !.pc = p, !.original = config, !.next = next]
  BY DEF TrackSkill
<1>4. /\ cmd' \in CommandType /\ cmd'.pc = p /\ cmd'.original = config /\ cmd'.swaps = {}
      /\ cmd'.todo = {}
      /\ cmd'.next = next /\ cmd'.in = {} /\ cmd'.moved = {} /\ cmd'.installed = {}
      /\ cmd'.committed = FALSE
  <2> HIDE DEF next, p
  <2> DEFINE c == [Idle EXCEPT !.pc = p]
             d == [c EXCEPT !.original = config]
  <2>1. c \in CommandType
    BY <1>2, IdleIsTyped, FieldTypes
  <2>2. d \in CommandType
    BY <1>2, <2>1, FieldTypes
  <2>3. cmd' = [d EXCEPT !.next = next]
    BY <1>3
  <2>4. cmd' \in CommandType
    <3> HIDE DEF d
    <3> QED
      BY <1>2, <2>2, <2>3, FieldTypes
  <2> QED
    BY <1>3, <2>4, IdleIsTyped DEF CommandType
<1>5. p \in {"unlock", "track"} /\ (p = "track" => disk[s] = v)
  OBVIOUS
<1> HIDE DEF p
<1>6. TypeOK'
  BY <1>1, <1>4 DEF TypeOK
<1>7. Control'
  BY <1>1, <1>4, <1>5 DEF Control, Preparing, Swapping, Tracking, Undoing, Ending
<1>8. Lists'
  BY <1>4, <1>5 DEF Lists, Preparing, Swapping, Tracking
<1>9. ASSUME NEW t \in Skill PROVE Chosen(t)'
  <2>1. next[t] = IF t = s THEN v ELSE config.skills[t]
    BY <1>2
  <2> HIDE DEF next
  <2> QED
    BY <1>1, <1>4, <1>5, <2>1 DEF Chosen, Preparing, Swapping, Tracking
<1>10. ASSUME NEW t \in Skill PROVE Durable(t)'
  BY <1>1, StillDurable DEF IInv
<1> QED
  <2> HIDE DEF next
  <2> QED
    BY <1>4, <1>6, <1>7, <1>8, <1>9, <1>10 DEF IInv

-----------------------------------------------------------------------------
(* The theorems.                                                           *)

\* At first every tracked skill is installed.
LEMMA Initially == ASSUME Init PROVE IInv
<1>1. config \in ConfigType /\ \A s \in Skill : config.skills[s] \in {Untracked, 1}
  BY Ranges DEF Init, ConfigType, Untracked, Gone
<1>2. NoJournal \in [swaps : SUBSET Skill, previous : [Skill -> Recorded]]
  BY Ranges DEF NoJournal, Untracked, Gone
<1>3. TypeOK
  BY <1>1, <1>2, IdleIsTyped, Ranges DEF Init, TypeOK
<1>4. /\ cmd.pc = "idle" /\ cmd.swaps = {} /\ cmd.todo = {} /\ cmd.in = {}
      /\ cmd.moved = {} /\ cmd.installed = {} /\ ~cmd.committed
  BY IdleIsTyped DEF Init
<1>5. Control
  BY <1>4 DEF Init, Control, Preparing, Swapping, Tracking, Undoing, Ending
<1>6. Lists
  BY <1>4 DEF Lists, Preparing, Swapping, Tracking
<1>7. ASSUME NEW s \in Skill PROVE Durable(s) /\ Chosen(s)
  <2>1. /\ disk[s] = 1 /\ backup[s] = Gone /\ mine[s] = Gone /\ ~Held(s) /\ 1 \notin Edit
        /\ Gone \notin Edit
    BY Ranges DEF Init, Held, NoJournal
  <2> QED
    BY <1>1, <1>4, <2>1 DEF Durable, Chosen, Sound, Proper, Preparing, Swapping, Tracking
<1> QED
  BY <1>3, <1>4, <1>5, <1>6, <1>7 DEF IInv

\* Every step keeps the invariant.
LEMMA NextKeeps == ASSUME IInv, [Next]_vars PROVE IInv'
<1>1. CASE CommandStep
  BY <1>1, StageKeeps, WriteJournalKeeps, InspectKeeps, MoveAsideKeeps, VerifyBackupKeeps,
     InstallKeeps, CheckConfigKeeps,
     WriteConfigKeeps, RollbackKeeps, RemoveInstalledKeeps, RestoreBackupKeeps, CleanKeeps, UnjournalKeeps, StopKeeps
     DEF CommandStep
<1>2. CASE UNCHANGED vars
  <2>1. TypeOK' /\ Control' /\ Lists'
    BY <1>2 DEF IInv, TypeOK, Control, Own, Lists, One, vars, dirs, bounds, history
  <2>2. ASSUME NEW s \in Skill PROVE Durable(s)' /\ Chosen(s)'
    BY <1>2, StillDurable DEF IInv, Chosen, vars, dirs, bounds, history
  <2>3. ASSUME NEW s \in cmd.swaps PROVE Doing(s)'
    BY <1>2 DEF IInv, Doing, Pending, vars, dirs, bounds, history
  <2> QED
    BY <1>2, <2>1, <2>2, <2>3 DEF IInv, vars
<1> QED
  BY <1>1, <1>2, UpdateKeeps, TrackKeeps, StopKeeps, RecoverByHandKeeps, UserEditsKeeps,
     ReleaseKeeps DEF Next

\* The invariant holds in every behaviour.
LEMMA Always == Spec => []IInv
<1>1. Init => IInv
  BY Initially
<1>2. IInv /\ [Next]_vars => IInv'
  BY NextKeeps
<1> QED
  BY <1>1, <1>2, PTL DEF Spec

\* The manager's files and its commands keep their types.
THEOREM TypeCorrect == Spec => []TypeOK
<1>1. IInv => TypeOK
  BY DEF IInv
<1> QED
  BY <1>1, Always, PTL

\* While no journal stands, each tracked skill is installed at the recorded
\* version or as the user last edited it, whatever failed or was killed.
THEOREM RecordedSkillsAreInstalled == Spec => []RecordedIsInstalled
<1>1. IInv => RecordedIsInstalled
  <2> SUFFICES ASSUME IInv, journal = NoJournal, NEW s \in Tracked
               PROVE  disk[s] \in {config.skills[s], mine[s]} \ {Gone}
    BY DEF RecordedIsInstalled
  <2>1. s \in Skill /\ config.skills[s] # Untracked /\ Gone \notin Edit
    BY Ranges DEF Tracked
  <2>2. disk[s] \in Proper(s) /\ Durable(s)
    BY <2>1, Settled DEF IInv
  <2> QED
    BY <2>1, <2>2 DEF Durable, Proper, Untracked, Gone
<1> QED
  BY <1>1, Always, PTL

\* Wherever the manager is killed, the journal it leaves names only swaps that
\* are committed, or whose old content is in the backup or still in place.
THEOREM JournalsRestore == Spec => []JournalRestores
<1>1. IInv => JournalRestores
  <2> SUFFICES ASSUME IInv, NEW s \in journal.swaps, config.skills[s] = journal.previous[s]
               PROVE  \/ backup[s] \in {journal.previous[s]} \cup Edit
                      \/ backup[s] = Gone /\ disk[s] \in {journal.previous[s]} \cup Edit
    BY DEF JournalRestores
  <2>1. s \in Skill /\ Held(s)
    BY DEF IInv, TypeOK, Held
  <2> QED
    BY <2>1 DEF IInv, Durable, Proper
<1> QED
  BY <1>1, Always, PTL

\* The last edit of the user is in its place or in the backup, unless the
\* rollback removed it in the moment between its check and its removal.
THEOREM LastEditsAreKept == Spec => []LastEditKept
<1>1. IInv => LastEditKept
  BY DEF IInv, Durable, LastEditKept
<1> QED
  BY <1>1, Always, PTL
=============================================================================
