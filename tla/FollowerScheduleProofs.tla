------------------------ MODULE FollowerScheduleProofs ------------------------
(***************************************************************************)
(* What TLAPS proves of the schedule of a follower for any calendars, any  *)
(* commands at once and any number of commands, edits, errors, kills and   *)
(* revisions: a run never arms a job that was off when it began; and as    *)
(* long as nobody writes from an older row, the decision of the user is    *)
(* kept and, if nothing failed either, an armed job follows it.            *)
(*                                                                         *)
(* Apart, the strengthening for the latter, says of an actor whose row is  *)
(* the latest that it wants the job the row asks for, of one that is about *)
(* to enable a job that it is the job it wants, and of a job that is armed *)
(* for another time than the row asks for that somebody is about to change *)
(* it.  An error or a kill breaks the last of these, and so does an        *)
(* interrupted run, whose recovery saves the default and does not look at  *)
(* the job.                                                                *)
(***************************************************************************)
EXTENDS FollowerSchedule, TLAPS

\* Where a run has a row that it may save.
Running == {"fetch", "run", "persist"}

\* Where an actor has one.
Holding == {"read", "save"} \cup Running

\* Where an actor that has saved its row goes on to change the job.
Arming == {"upsert", "install", "enable"}

\* Where an actor is about to make the job the one it wants.
Mending == {"inspect", "upsert", "install"}

\* Where an actor can be.
Steps == {"idle", "remove"} \cup Holding \cup Mending \cup Arming

\* What an actor may be about.
Activity ==
  [pc : Steps,
   kind : {"none", "set", "default", "remove", "policy", "unenroll", "sync", "recover"},
   copy : Row \cup {NoConfig}, want : Suggestion, late : BOOLEAN]

\* The types of the variables.
TypeOK ==
  /\ config \in Row \cup {NoConfig}
  /\ job \in [state : {"absent", "off", "armed"}, calendar : Suggestion, bound : BOOLEAN]
  /\ suggested \in Suggestion
  /\ interrupted \in SUBSET Suggestion
  /\ act \in [Actor -> Activity]
  /\ {commands, edits, faults, revisions} \subseteq Nat
  /\ overlapped \in BOOLEAN /\ handArmed \in BOOLEAN /\ stayedOff \in BOOLEAN

\* An actor that is to save a row has read one, and knows what to change in it.
Saving(activity) ==
  /\ activity.pc \in Holding => activity.copy \in Row
  /\ activity.pc = "save" => activity.kind \in {"set", "default", "remove", "policy", "unenroll"}
  /\ activity.pc = "read" => activity.kind = "default"
  /\ activity.pc \in Running => activity.kind \in {"sync", "recover"}
  /\ activity.kind \in {"set", "default"} => activity.want \in Calendar

\* What a row asks for.
Asked(row) == Desired(row.override, row.default)

\* A job that is off since the run began is not one the run is to arm.
OffStays ==
  /\ stayedOff => ~Armed
  /\ sync.pc \in Arming => ~stayedOff

\* An actor nobody wrote behind has the latest row.
UpToDate(activity, row) ==
  activity.pc \in Holding /\ ~activity.late => activity.copy = row

\* It wants the job this row asks for.
WantsAsked(activity, row) ==
  activity.pc \in Mending \cup Arming /\ ~activity.late =>
    Enrolled(row) /\ activity.want = Asked(row)

\* `schedule set --default` installs the default of the row it saves.
WantsDefault(activity) ==
  activity.pc = "save" /\ activity.kind = "default" => activity.want = activity.copy.default

\* What it is about to enable is the job it wants.
EnablesWanted(activity, native) ==
  activity.pc = "enable" /\ ~activity.late =>
    native.state = "absent" \/ native.calendar = activity.want

\* The same, of an actor, the latest row and the job.
Good(activity, row, native) ==
  /\ UpToDate(activity, row) /\ WantsAsked(activity, row)
  /\ WantsDefault(activity) /\ EnablesWanted(activity, native)

\* A job that Canonfig armed is the one asked for, or about to be.
ArmedIsAsked ==
  Armed /\ ~handArmed /\ Enrolled(config) =>
    \/ Asked(config) \in {job.calendar, NoCalendar}
    \/ \E a \in Actor : act[a].pc \in Mending /\ act[a].want = Asked(config)

\* Only a fault leaves a run to recover.
NoRecovery ==
  faults = 0 => interrupted = {} /\ \A a \in Actor : act[a].kind # "recover"

\* What holds while nobody has written from an older row.
Apart ==
  /\ DecisionKept
  /\ \A a \in Actor : Good(act[a], config, job)
  /\ faults = 0 => ArmedIsAsked

\* The inductive invariant.
Inv ==
  /\ TypeOK
  /\ \A a \in Actor : Saving(act[a])
  /\ OffStays
  /\ NoRecovery
  /\ ~overlapped => Apart

-----------------------------------------------------------------------------
(* What the operators of the model do to what the actors are about.        *)

\* The fields of an activity, and an activity that goes on to another step.
LEMMA Fields ==
  ASSUME NEW x \in Activity
  PROVE  /\ x.pc \in Steps /\ x.want \in Suggestion /\ x.late \in BOOLEAN
         /\ x.copy \in Row \cup {NoConfig}
         /\ x.kind \in {"none", "set", "default", "remove", "policy", "unenroll", "sync", "recover"}
         /\ \A p \in Steps :
              LET y == [x EXCEPT !.pc = p] IN
              /\ y \in Activity /\ y.pc = p /\ y.kind = x.kind /\ y.copy = x.copy
              /\ y.want = x.want /\ y.late = x.late
         /\ \A l \in BOOLEAN :
              LET y == [x EXCEPT !.late = l] IN
              /\ y \in Activity /\ y.pc = x.pc /\ y.kind = x.kind /\ y.copy = x.copy
              /\ y.want = x.want /\ y.late = l
         /\ \A row \in Row \cup {NoConfig} :
              LET y == [x EXCEPT !.copy = row] IN
              /\ y \in Activity /\ y.pc = x.pc /\ y.kind = x.kind /\ y.copy = row
              /\ y.want = x.want /\ y.late = x.late
  BY DEF Activity

\* An idle actor is about nothing.
LEMMA IdleIsIdle ==
  /\ Idle \in Activity /\ Saving(Idle)
  /\ Idle.pc = "idle" /\ Idle.kind = "none"
  BY DEF Idle, Activity, Saving, Steps, Holding, Running, Suggestion

\* Do changes what one actor is about, Goto its step, and Done makes it idle.
LEMMA Doing ==
  ASSUME act \in [Actor -> Activity], NEW a \in Actor, NEW r \in Activity, Do(a, r)
  PROVE  act' \in [Actor -> Activity] /\ act'[a] = r /\ \A b \in Actor \ {a} : act'[b] = act[b]
  BY DEF Do

\* Going on to another step.
LEMMA GotoIsDo ==
  ASSUME NEW a \in Actor, NEW p, Goto(a, p)
  PROVE  Do(a, [act[a] EXCEPT !.pc = p])
  BY DEF Goto, Do

\* Being done.
LEMMA DoneIsDo ==
  ASSUME NEW a \in Actor, Done(a)
  PROVE  Do(a, Idle)
  BY DEF Done, Do

\* Who else has read the row has an older one if it changes.
LEMMA Passing ==
  ASSUME act \in [Actor -> Activity], NEW b \in Actor
  PROVE  /\ Passed(b) \in Activity /\ Passed(b).pc = act[b].pc /\ Passed(b).kind = act[b].kind
         /\ Passed(b).copy = act[b].copy /\ Passed(b).want = act[b].want
         /\ Passed(b).late = (act[b].pc # "idle" /\ (act[b].late \/ config' # config))
<1> DEFINE l == act[b].pc # "idle" /\ (act[b].late \/ config' # config)
<1>1. act[b] \in Activity
  OBVIOUS
<1>2. l \in BOOLEAN
  OBVIOUS
<1>3. Passed(b) = [act[b] EXCEPT !.late = l]
  BY DEF Passed
<1> HIDE DEF l
<1>4. LET y == [act[b] EXCEPT !.late = l] IN
      /\ y \in Activity /\ y.pc = act[b].pc /\ y.kind = act[b].kind /\ y.copy = act[b].copy
      /\ y.want = act[b].want /\ y.late = l
  BY <1>1, <1>2, Fields
<1> QED
  BY <1>3, <1>4 DEF l

\* What becomes of the actors when the row is replaced.
LEMMA Replacing ==
  ASSUME act \in [Actor -> Activity], NEW a \in Actor, NEW row, NEW r \in Activity, Replace(a, row, r)
  PROVE  /\ act' \in [Actor -> Activity] /\ act'[a] = r /\ config' = row
         /\ \A b \in Actor \ {a} : act'[b] = Passed(b)
<1>1. \A b \in Actor : Passed(b) \in Activity
  BY Passing
<1> HIDE DEF Passed
<1> QED
  BY <1>1 DEF Replace

\* An activity that only goes on keeps to what it read.
LEMMA GoingOn ==
  ASSUME NEW x \in Activity, Saving(x), NEW p \in Steps \ {"read", "save"},
         p \in Running => x.pc \in Running
  PROVE  [x EXCEPT !.pc = p] \in Activity /\ Saving([x EXCEPT !.pc = p])
<1> DEFINE y == [x EXCEPT !.pc = p]
<1>1. y \in Activity /\ y.pc = p /\ y.kind = x.kind /\ y.copy = x.copy /\ y.want = x.want
  BY Fields
<1> HIDE DEF y
<1>2. Saving(y)
  BY <1>1 DEF Saving, Holding, Running
<1> QED
  BY <1>1, <1>2 DEF y

\* An activity, field by field.
About(p, k, c, w, l) == [pc |-> p, kind |-> k, copy |-> c, want |-> w, late |-> l]

\* An activity with several fields changed: of a command that reads again,
Reread(x, p, v, l) == [x EXCEPT !.pc = p, !.copy = v, !.late = l]
\* ... of a run that has fetched a revision
Rewanted(x, p, v) == [x EXCEPT !.pc = p, !.want = v]
\* ... and of a run that begins.
Restarted(x, p, k, v) == [x EXCEPT !.pc = p, !.kind = k, !.copy = v]

\* What these changes make of the fields.
LEMMA SeveralFields ==
  ASSUME NEW x, NEW a, NEW b, NEW c, NEW d, NEW e, x = About(a, b, c, d, e),
         NEW p, NEW k, NEW v, NEW l
  PROVE  /\ Reread(x, p, v, l) = About(p, b, v, d, l)
         /\ Rewanted(x, p, v) = About(p, b, c, v, e)
         /\ Restarted(x, p, k, v) = About(p, k, v, d, e)
<1> USE DEF About
<1>1. [x EXCEPT !.pc = p] = About(p, b, c, d, e)
  OBVIOUS
<1> DEFINE y == About(p, b, c, d, e)
<1>2. /\ [y EXCEPT !.copy = v] = About(p, b, v, d, e)
      /\ [y EXCEPT !.want = v] = About(p, b, c, v, e)
      /\ [y EXCEPT !.kind = k] = About(p, k, c, d, e)
  OBVIOUS
<1>3. [About(p, b, v, d, e) EXCEPT !.late = l] = About(p, b, v, d, l)
  OBVIOUS
<1>4. [About(p, k, c, d, e) EXCEPT !.copy = v] = About(p, k, v, d, e)
  OBVIOUS
<1>5. /\ Reread(x, p, v, l) = [[[x EXCEPT !.pc = p] EXCEPT !.copy = v] EXCEPT !.late = l]
      /\ Rewanted(x, p, v) = [[x EXCEPT !.pc = p] EXCEPT !.want = v]
      /\ Restarted(x, p, k, v) = [[[x EXCEPT !.pc = p] EXCEPT !.kind = k] EXCEPT !.copy = v]
  BY DEF Reread, Rewanted, Restarted
<1> HIDE DEF About
<1> QED
  BY <1>1, <1>2, <1>3, <1>4, <1>5, Zenon

\* The same, of a well-formed activity.
LEMMA Renewed ==
  ASSUME NEW x \in Activity, NEW p, NEW v, NEW l
  PROVE  /\ Reread(x, p, v, l) = About(p, x.kind, v, x.want, l)
         /\ Rewanted(x, p, v) = About(p, x.kind, x.copy, v, x.late)
<1>1. x = About(x.pc, x.kind, x.copy, x.want, x.late)
  BY DEF Activity, About
<1> QED
  BY <1>1, SeveralFields

\* What a run begins with.
LEMMA Started ==
  ASSUME NEW p, NEW k, NEW c, NEW l \in BOOLEAN, ~l
  PROVE  Restarted(Idle, p, k, c) = About(p, k, c, NoCalendar, l)
<1>1. Idle = About("idle", "none", NoConfig, NoCalendar, l)
  BY DEF Idle, About
<1> QED
  BY <1>1, SeveralFields

\* What a command saves, by kind of command.
LEMMA Changing ==
  ASSUME NEW x \in Activity, Saving(x), x.pc = "save"
  PROVE  /\ x.copy \in Row /\ Changed(x) \in Row \cup {NoConfig}
         /\ x.kind = "unenroll" => Changed(x) = NoConfig
         /\ x.kind # "unenroll" => Changed(x) \in Row /\ Changed(x).default = x.copy.default
         /\ x.kind = "set" => Changed(x).override = x.want /\ x.want \in Calendar
         /\ x.kind = "default" => Changed(x).override = "inherit"
         /\ x.kind = "remove" => Changed(x).override = "off"
         /\ x.kind = "policy" => Changed(x).override = x.copy.override
         /\ x.kind \in {"set", "default", "remove", "policy", "unenroll"}
<1>1. x.copy \in Row /\ x.kind \in {"set", "default", "remove", "policy", "unenroll"}
      /\ (x.kind \in {"set", "default"} => x.want \in Calendar)
  BY DEF Saving, Holding, Running
<1>2. CASE x.kind = "set"
  <2>1. Changed(x) = [x.copy EXCEPT !.override = x.want] /\ x.want \in Override
    BY <1>1, <1>2 DEF Changed, Override
  <2> QED
    BY <1>1, <1>2, <2>1 DEF Row
<1>3. CASE x.kind = "default"
  <2>1. Changed(x) = [x.copy EXCEPT !.override = "inherit"] /\ "inherit" \in Override
    BY <1>1, <1>3 DEF Changed, Override
  <2> QED
    BY <1>1, <1>3, <2>1 DEF Row
<1>4. CASE x.kind = "remove"
  <2>1. Changed(x) = [x.copy EXCEPT !.override = "off"] /\ "off" \in Override
    BY <1>1, <1>4 DEF Changed, Override
  <2> QED
    BY <1>1, <1>4, <2>1 DEF Row
<1>5. CASE x.kind = "policy"
  <2>1. PICK p \in {"deterministic", "agent"} : Changed(x) = [x.copy EXCEPT !.policy = p]
    BY <1>1, <1>5 DEF Changed
  <2> QED
    BY <1>1, <1>5, <2>1 DEF Row
<1>6. CASE x.kind = "unenroll"
  BY <1>1, <1>6 DEF Changed
<1> QED
  BY <1>1, <1>2, <1>3, <1>4, <1>5, <1>6

\* A command that has saved goes on to change the job, or is done.
LEMMA Thereafter ==
  ASSUME NEW kind \in {"set", "default", "remove", "policy", "unenroll"}
  PROVE  /\ Then(kind) \in {"upsert", "remove", "idle"}
         /\ Then(kind) = "upsert" <=> kind \in {"set", "default"}
  BY DEF Then

\* What a command is about after it has saved.
Saved(x) ==
  IF Then(x.kind) = "idle" THEN Idle
  ELSE [Idle EXCEPT !.pc = Then(x.kind), !.want = x.want]

\* It is well-formed, and wants a job only if the command chose one.
LEMMA AfterSave ==
  ASSUME NEW x \in Activity, Saving(x), x.pc = "save"
  PROVE  /\ Saved(x) \in Activity /\ Saving(Saved(x)) /\ ~Saved(x).late
         /\ Saved(x).pc \in {"idle", "upsert", "remove"} /\ Saved(x).kind = "none"
         /\ x.kind \in {"set", "default"} => Saved(x).pc = "upsert" /\ Saved(x).want = x.want
         /\ x.kind \notin {"set", "default"} => Saved(x).pc # "upsert"
<1>1. x.kind \in {"set", "default", "remove", "policy", "unenroll"} /\ x.want \in Suggestion
  BY Changing, Fields
<1>2. Then(x.kind) \in {"upsert", "remove", "idle"} /\ (Then(x.kind) = "upsert" <=> x.kind \in {"set", "default"})
  BY <1>1, Thereafter
<1>3. CASE Then(x.kind) = "idle"
  BY <1>2, <1>3, IdleIsIdle DEF Saved, Idle
<1>4. CASE Then(x.kind) # "idle"
  <2>1. Saved(x) = [pc |-> Then(x.kind), kind |-> "none", copy |-> NoConfig, want |-> x.want, late |-> FALSE]
    BY <1>4 DEF Saved, Idle
  <2> QED
    BY <1>1, <1>2, <1>4, <2>1 DEF Activity, Saving, Steps, Holding, Running, Arming
<1> QED
  BY <1>3, <1>4

\* Which calendar a row asks for.
LEMMA Desiring ==
  ASSUME NEW o \in Override, NEW d \in Suggestion
  PROVE  /\ Desired(o, d) \in Suggestion
         /\ o \in Calendar => Desired(o, d) = o
         /\ o = "inherit" => Desired(o, d) = d
         /\ o \in {"off", "undecided"} => Desired(o, d) = NoCalendar
  BY ConstantsAssumption DEF Desired, Suggestion, Override

\* What a run is about after it has saved.
LEMMA Reconciling ==
  ASSUME sync \in Activity, sync.copy \in Row
  PROVE  /\ Reconcile \in Activity /\ Saving(Reconcile) /\ ~Reconcile.late
         /\ Reconcile.pc \in {"idle", "inspect", "remove"} /\ Reconcile.kind = "none"
         /\ Reconcile.pc = "inspect" =>
              Reconcile.want = Desired(sync.copy.override, sync.want)
         /\ sync.kind # "recover" /\ Desired(sync.copy.override, sync.want) # NoCalendar =>
              Reconcile.pc = "inspect"
<1> DEFINE d == Desired(sync.copy.override, sync.want)
<1>1. sync.copy.override \in Override /\ sync.want \in Suggestion
  BY Fields DEF Row
<1>2. d \in Suggestion /\ (sync.copy.override = "off" => d = NoCalendar)
  BY <1>1, Desiring
<1>3. \/ Reconcile = Idle /\ (sync.kind = "recover" \/ d = NoCalendar)
      \/ Reconcile = [Idle EXCEPT !.pc = "inspect", !.want = d] /\ d # NoCalendar
      \/ Reconcile = [Idle EXCEPT !.pc = "remove"] /\ d = NoCalendar
  BY <1>2 DEF Reconcile
<1> HIDE DEF d
<1>4. CASE Reconcile = Idle /\ (sync.kind = "recover" \/ d = NoCalendar)
  BY <1>4, IdleIsIdle DEF Idle, d
<1>5. CASE Reconcile = [Idle EXCEPT !.pc = "inspect", !.want = d] /\ d # NoCalendar
  <2>1. Reconcile = [pc |-> "inspect", kind |-> "none", copy |-> NoConfig, want |-> d, late |-> FALSE]
    BY <1>5 DEF Idle
  <2> QED
    BY <1>2, <2>1 DEF Activity, Saving, Steps, Holding, Running, Mending, d
<1>6. CASE Reconcile = [Idle EXCEPT !.pc = "remove"] /\ d = NoCalendar
  <2>1. Reconcile = [pc |-> "remove", kind |-> "none", copy |-> NoConfig, want |-> NoCalendar, late |-> FALSE]
    BY <1>6 DEF Idle
  <2>2. Reconcile \in Activity
    BY <2>1 DEF Activity, Steps, Suggestion
  <2> QED
    BY <1>6, <2>1, <2>2 DEF Saving, Holding, Running, d
<1> QED
  BY <1>3, <1>4, <1>5, <1>6

-----------------------------------------------------------------------------
(* The types.                                                              *)

\* The types, and that rows to be saved have been read.
Typed == TypeOK /\ \A a \in Actor : Saving(act[a])

\* An actor goes on to a well-formed activity, and the rest stays typed.
LEMMA TypedDo ==
  ASSUME Typed, NEW a \in Actor, NEW r \in Activity, Saving(r), Do(a, r)
  PROVE  act' \in [Actor -> Activity] /\ \A b \in Actor : Saving(act'[b])
<1>1. act' \in [Actor -> Activity] /\ act'[a] = r /\ \A b \in Actor \ {a} : act'[b] = act[b]
  BY Doing DEF Typed, TypeOK
<1>2. ASSUME NEW b \in Actor  PROVE Saving(act'[b])
  BY <1>1 DEF Typed
<1> QED
  BY <1>1, <1>2

\* Being passed by another writer leaves an activity well-formed.
LEMMA TypedPassed ==
  ASSUME Typed, NEW b \in Actor
  PROVE  Passed(b) \in Activity /\ Saving(Passed(b))
  BY Passing DEF Typed, TypeOK, Saving

\* Replacing the row leaves everybody well-formed.
LEMMA TypedReplace ==
  ASSUME Typed, NEW a \in Actor, NEW row, NEW r \in Activity, Saving(r), Replace(a, row, r)
  PROVE  act' \in [Actor -> Activity] /\ config' = row /\ \A b \in Actor : Saving(act'[b])
<1>1. /\ act' \in [Actor -> Activity] /\ act'[a] = r /\ config' = row
      /\ \A b \in Actor \ {a} : act'[b] = Passed(b)
  BY Replacing DEF Typed, TypeOK
<1>2. ASSUME NEW b \in Actor  PROVE Saving(act'[b])
  BY <1>1, TypedPassed
<1> QED
  BY <1>1, <1>2

\* What a command of the user begins with.
LEMMA Beginning ==
  ASSUME Typed, NEW c \in Command, UserBegins(c)
  PROVE  \E r \in Activity :
           /\ Begin(c, r)
           /\ Saving(r) /\ r.copy = config /\ ~r.late /\ r.kind # "recover"
           /\ r.pc \in {"save", "read", "remove"} /\ (r.pc = "save" => r.kind # "default")
<1>1. config \in Row \cup {NoConfig} /\ (Enrolled(config) => config \in Row)
  BY DEF Typed, TypeOK, Enrolled
<1> DEFINE R(pc, kind, want) ==
      [pc |-> pc, kind |-> kind, copy |-> config, want |-> want, late |-> FALSE]
<1>2. ASSUME NEW calendar \in Calendar, SetSchedule(c, calendar)
      PROVE  Begin(c, R("save", "set", calendar)) /\ R("save", "set", calendar) \in Activity
             /\ config \in Row
  BY <1>1, <1>2 DEF SetSchedule, Activity, Steps, Holding, Running, Suggestion
<1>3. ASSUME SetDefault(c)
      PROVE  Begin(c, R("read", "default", config.default))
             /\ R("read", "default", config.default) \in Activity
             /\ config \in Row /\ config.default \in Calendar
  <2>1. config \in Row /\ config.default \in Calendar
    BY <1>1, <1>3 DEF SetDefault, Row, Suggestion
  <2> QED
    BY <2>1, <1>3 DEF SetDefault, Activity, Steps, Holding, Running, Suggestion
<1>4. ASSUME RemoveSchedule(c)
      PROVE  \E p \in {"save", "remove"} :
               /\ Begin(c, R(p, "remove", NoCalendar)) /\ R(p, "remove", NoCalendar) \in Activity
               /\ (p = "save" => config \in Row)
  <2>1. PICK p \in {"save", "remove"} :
          Begin(c, R(p, "remove", NoCalendar)) /\ (p = "save" => Enrolled(config))
    BY <1>4 DEF RemoveSchedule
  <2>2. R(p, "remove", NoCalendar) \in Activity
    BY <1>1 DEF Activity, Steps, Holding, Running, Suggestion
  <2> QED
    BY <1>1, <2>1, <2>2
<1>5. ASSUME SetAgentPolicy(c)
      PROVE  Begin(c, R("save", "policy", NoCalendar)) /\ R("save", "policy", NoCalendar) \in Activity
             /\ config \in Row
  BY <1>1, <1>5 DEF SetAgentPolicy, Activity, Steps, Holding, Running, Suggestion
<1>6. ASSUME Unenroll(c)
      PROVE  Begin(c, R("save", "unenroll", NoCalendar)) /\ R("save", "unenroll", NoCalendar) \in Activity
             /\ config \in Row
  BY <1>1, <1>6 DEF Unenroll, Activity, Steps, Holding, Running, Suggestion
<1>7. ASSUME NEW pc \in {"save", "read", "remove"}, NEW kind \in {"set", "default", "remove", "policy", "unenroll"},
             NEW want \in Suggestion, pc # "remove" => config \in Row,
             pc = "read" => kind = "default", kind \in {"set", "default"} => want \in Calendar
      PROVE  Saving(R(pc, kind, want))
  BY <1>7 DEF Saving, Holding, Running
<1>8. NoCalendar \in Suggestion /\ Calendar \subseteq Suggestion
  BY DEF Suggestion
<1>9. CASE \E calendar \in Calendar : SetSchedule(c, calendar)
  <2>1. PICK calendar \in Calendar : SetSchedule(c, calendar)
    BY <1>9
  <2>2. Begin(c, R("save", "set", calendar)) /\ R("save", "set", calendar) \in Activity /\ config \in Row
    BY <1>2, <2>1
  <2>3. Saving(R("save", "set", calendar))
    BY <1>7, <1>8, <2>2
  <2>4. R("save", "set", calendar) \in Activity
    BY <2>2
  <2> WITNESS R("save", "set", calendar) \in Activity
  <2> QED
    BY <2>2, <2>3
<1>10. CASE SetDefault(c)
  <2>2. Saving(R("read", "default", config.default))
    BY <1>3, <1>7, <1>8, <1>10
  <2>3. R("read", "default", config.default) \in Activity
    BY <1>3, <1>10
  <2> WITNESS R("read", "default", config.default) \in Activity
  <2> QED
    BY <1>3, <1>10, <2>2
<1>11. CASE RemoveSchedule(c)
  <2>1. PICK p \in {"save", "remove"} :
          /\ Begin(c, R(p, "remove", NoCalendar)) /\ R(p, "remove", NoCalendar) \in Activity
          /\ (p = "save" => config \in Row)
    BY <1>4, <1>11
  <2>2. Saving(R(p, "remove", NoCalendar))
    BY <1>7, <1>8, <2>1
  <2>3. R(p, "remove", NoCalendar) \in Activity
    BY <2>1
  <2> WITNESS R(p, "remove", NoCalendar) \in Activity
  <2> QED
    BY <2>1, <2>2
<1>12. CASE SetAgentPolicy(c)
  <2>2. Saving(R("save", "policy", NoCalendar))
    BY <1>5, <1>7, <1>8, <1>12
  <2>3. R("save", "policy", NoCalendar) \in Activity
    BY <1>5, <1>12
  <2> WITNESS R("save", "policy", NoCalendar) \in Activity
  <2> QED
    BY <1>5, <1>12, <2>2
<1>13. CASE Unenroll(c)
  <2>2. Saving(R("save", "unenroll", NoCalendar))
    BY <1>6, <1>7, <1>8, <1>13
  <2>3. R("save", "unenroll", NoCalendar) \in Activity
    BY <1>6, <1>13
  <2> WITNESS R("save", "unenroll", NoCalendar) \in Activity
  <2> QED
    BY <1>6, <1>13, <2>2
<1> QED
  BY <1>9, <1>10, <1>11, <1>12, <1>13 DEF UserBegins

\* Every step keeps the types.
LEMMA TypesKept ==
  ASSUME Typed, [Next]_vars
  PROVE  Typed'
<1> USE DEF Actor, bounds, history, vars
<1>1. TypeOK /\ \A a \in Actor : act[a] \in Activity /\ Saving(act[a])
  BY DEF Typed, TypeOK
<1>2. /\ NoJob \in [state : {"absent", "off", "armed"}, calendar : Suggestion, bound : BOOLEAN]
      /\ Fresh \in Row
  BY DEF NoJob, Suggestion, Fresh, Row, Override
<1>3. "sync" \in Actor
  OBVIOUS
<1> USE DEF TypeOK
<1>4. ASSUME NEW a \in Actor, ChangeJob(a)
      PROVE  Typed'
  <2>1. CASE Upsert(a)
    <3>1. PICK r \in Activity : Do(a, r) /\ Saving(r)
      BY <1>1, <2>1, GotoIsDo, DoneIsDo, IdleIsIdle, GoingOn DEF Upsert, Steps, Arming, Holding, Running
    <3>2. act' \in [Actor -> Activity] /\ \A b \in Actor : Saving(act'[b])
      BY <3>1, TypedDo
    <3> QED
      BY <1>1, <2>1, <3>2 DEF Typed, Upsert
  <2>2. CASE InstallUnits(a)
    <3>1. Do(a, [act[a] EXCEPT !.pc = "enable"])
      BY <2>2, GotoIsDo DEF InstallUnits
    <3>2. act' \in [Actor -> Activity] /\ \A b \in Actor : Saving(act'[b])
      BY <1>1, <3>1, TypedDo, GoingOn DEF Steps, Arming, Holding, Running
    <3>3. act[a].want \in Suggestion /\ act[a].late \in BOOLEAN
      BY <1>1, Fields
    <3> QED
      BY <1>1, <2>2, <3>2, <3>3 DEF Typed, InstallUnits, Stale
  <2>3. CASE InstallEnable(a)
    <3>1. act' \in [Actor -> Activity] /\ \A b \in Actor : Saving(act'[b])
      BY <2>3, DoneIsDo, IdleIsIdle, TypedDo DEF InstallEnable
    <3>2. act[a].late \in BOOLEAN
      BY <1>1, Fields
    <3> QED
      BY <1>1, <2>3, <3>1, <3>2 DEF Typed, InstallEnable, Stale
  <2>4. CASE Remove(a)
    <3>1. act' \in [Actor -> Activity] /\ \A b \in Actor : Saving(act'[b])
      BY <2>4, DoneIsDo, IdleIsIdle, TypedDo DEF Remove
    <3>2. act[a].late \in BOOLEAN
      BY <1>1, Fields
    <3> QED
      BY <1>1, <1>2, <2>4, <3>1, <3>2 DEF Typed, Remove, Stale
  <2> QED
    BY <1>4, <2>1, <2>2, <2>3, <2>4 DEF ChangeJob
<1>5. ASSUME NEW c \in Command, UserBegins(c)
      PROVE  Typed'
  <2>1. PICK r \in Activity : Begin(c, r) /\ Saving(r)
    BY <1>5, Beginning
  <2>2. act' \in [Actor -> Activity] /\ \A b \in Actor : Saving(act'[b])
    BY <2>1, TypedDo DEF Begin
  <2> QED
    BY <1>1, <2>1, <2>2 DEF Typed, Begin
<1>6. ASSUME NEW c \in Command, ReadAgain(c)
      PROVE  Typed'
  <2>1. CASE Enrolled(config)
    <3> PICK l \in BOOLEAN : ~l
      OBVIOUS
    <3> DEFINE r == Reread(act[c], "save", config, l)
    <3>1. act[c].kind = "default" /\ act[c].want \in Calendar /\ config \in Row
      BY <1>1, <1>6, <2>1 DEF ReadAgain, Saving, Enrolled
    <3>2. r = About("save", act[c].kind, config, act[c].want, l)
      <4>1. act[c] \in Activity
        BY <1>1
      <4> QED
        BY <4>1, Renewed
    <3>3. r \in Activity
      BY <3>1, <3>2, <1>1 DEF About, Activity, Steps, Holding, Suggestion
    <3>4. Saving(r)
      BY <3>1, <3>2 DEF About, Saving, Holding, Running
    <3>5. Do(c, r) /\ overlapped' \in BOOLEAN
      BY <1>6, <2>1 DEF ReadAgain, Reread
    <3> HIDE DEF r
    <3>6. act' \in [Actor -> Activity] /\ \A b \in Actor : Saving(act'[b])
      BY <3>3, <3>4, <3>5, TypedDo
    <3> QED
      BY <1>1, <1>6, <3>5, <3>6 DEF Typed, ReadAgain
  <2>2. CASE ~Enrolled(config)
    <3>1. act' \in [Actor -> Activity] /\ \A b \in Actor : Saving(act'[b])
      BY <1>6, <2>2, DoneIsDo, IdleIsIdle, TypedDo DEF ReadAgain
    <3> QED
      BY <1>1, <1>6, <2>2, <3>1 DEF Typed, ReadAgain
  <2> QED
    BY <2>1, <2>2
<1>7. ASSUME NEW c \in Command, Save(c)
      PROVE  Typed'
  <2>1. Replace(c, Changed(act[c]), Saved(act[c])) /\ act[c].pc = "save"
    BY <1>7 DEF Save, Saved
  <2>2. /\ Saved(act[c]) \in Activity /\ Saving(Saved(act[c]))
        /\ Changed(act[c]) \in Row \cup {NoConfig}
    BY <1>1, <2>1, AfterSave, Changing
  <2>3. act' \in [Actor -> Activity] /\ config' \in Row \cup {NoConfig} /\ \A b \in Actor : Saving(act'[b])
    BY <2>1, <2>2, TypedReplace
  <2>4. act[c].late \in BOOLEAN
    BY <1>1, Fields
  <2> QED
    BY <1>1, <1>7, <2>3, <2>4 DEF Typed, Save, Stale
<1>8. ASSUME Enroll
      PROVE  Typed'
  <2>1. act' = [b \in Actor |-> Passed(b)]
    BY <1>8 DEF Enroll
  <2>2. \A b \in Actor : Passed(b) \in Activity /\ Saving(Passed(b))
    BY TypedPassed
  <2> HIDE DEF Passed
  <2>3. act' \in [Actor -> Activity] /\ \A b \in Actor : Saving(act'[b])
    BY <2>1, <2>2
  <2>4. config' \in Row /\ commands' \in Nat
    BY <1>1, <1>2, <1>8 DEF Enroll
  <2> QED
    BY <1>1, <1>8, <2>3, <2>4 DEF Typed, Enroll
<1>9. ASSUME SyncBegin \/ SyncFetch \/ RecoverBegin \/ RunFails \/ RunConverges \/ Inspect
      PROVE  Typed'
  <2> USE DEF sync
  <2>1. sync \in Activity /\ Saving(sync)
    BY <1>1
  <2>2. \E r \in Activity : Do("sync", r) /\ Saving(r)
    <3>1. CASE SyncBegin
      <4> PICK l \in BOOLEAN : ~l
        OBVIOUS
      <4>1. config \in Row
        BY <1>1, <3>1 DEF SyncBegin, Enrolled
      <4>2. LET r == About("fetch", "sync", config, NoCalendar, l)
            IN  r \in Activity /\ Saving(r)
        BY <4>1 DEF About, Activity, Saving, Steps, Holding, Running, Suggestion
      <4> QED
        BY <3>1, <4>2, Started DEF SyncBegin, Restarted
    <3>2. CASE SyncFetch
      <4>1. CASE interrupted # {}
        BY <3>2, <4>1, DoneIsDo, IdleIsIdle DEF SyncFetch
      <4>2. CASE interrupted = {}
        <5> DEFINE r == About("run", sync.kind, sync.copy, suggested, sync.late)
        <5>1. sync.copy \in Row /\ sync.kind \in {"sync", "recover"} /\ sync.late \in BOOLEAN
          BY <2>1, <3>2, Fields DEF SyncFetch, Saving, Holding, Running
        <5>2. r \in Activity /\ Saving(r)
          BY <1>1, <5>1 DEF About, Activity, Saving, Steps, Holding, Running
        <5>3. Rewanted(sync, "run", suggested) = r
          BY <2>1, Renewed
        <5>4. Do("sync", Rewanted(sync, "run", suggested))
          BY <3>2, <4>2 DEF SyncFetch, Rewanted
        <5> HIDE DEF r
        <5> QED
          BY <5>2, <5>3, <5>4
      <4> QED
        BY <4>1, <4>2
    <3>3. CASE RecoverBegin
      <4>1. config \in Row
        BY <1>1, <3>3 DEF RecoverBegin, Enrolled
      <4>2. PICK default \in Suggestion :
              Do("sync", [pc |-> "run", kind |-> "recover", copy |-> config, want |-> default, late |-> FALSE])
        BY <1>1, <3>3 DEF RecoverBegin
      <4>3. LET r == [pc |-> "run", kind |-> "recover", copy |-> config, want |-> default, late |-> FALSE]
            IN  r \in Activity /\ Saving(r)
        BY <4>1 DEF Activity, Saving, Steps, Holding, Running
      <4> QED
        BY <4>2, <4>3
    <3>4. CASE RunFails
      BY <3>4, DoneIsDo, IdleIsIdle DEF RunFails
    <3>5. CASE RunConverges
      <4>1. Do("sync", [sync EXCEPT !.pc = "persist"]) /\ sync.pc = "run"
        BY <3>5, GotoIsDo DEF RunConverges
      <4> QED
        BY <2>1, <4>1, GoingOn DEF Steps, Holding, Running
    <3>6. CASE Inspect
      BY <2>1, <3>6, GotoIsDo, DoneIsDo, IdleIsIdle, GoingOn DEF Inspect, Steps, Arming, Running
    <3> QED
      BY <1>9, <3>1, <3>2, <3>3, <3>4, <3>5, <3>6
  <2>3. act' \in [Actor -> Activity] /\ \A b \in Actor : Saving(act'[b])
    BY <2>2, TypedDo
  <2>4. interrupted' \in SUBSET Suggestion /\ stayedOff' \in BOOLEAN
    BY <1>1, <1>9 DEF SyncBegin, SyncFetch, RecoverBegin, RunFails, RunConverges, Inspect
  <2> QED
    BY <1>1, <1>9, <2>3, <2>4
    DEF Typed, SyncBegin, SyncFetch, RecoverBegin, RunFails, RunConverges, Inspect
<1>10. ASSUME Persist
       PROVE  Typed'
  <2>1. sync \in Activity /\ sync.copy \in Row /\ sync.want \in Suggestion /\ sync.late \in BOOLEAN
    BY <1>1, <1>10, Fields DEF Persist, sync, Saving, Holding, Running
  <2>2. [sync.copy EXCEPT !.default = sync.want] \in Row
    BY <2>1 DEF Row
  <2>3. Reconcile \in Activity /\ Saving(Reconcile)
    BY <2>1, Reconciling
  <2>4. /\ act' \in [Actor -> Activity] /\ \A b \in Actor : Saving(act'[b])
        /\ config' = [sync.copy EXCEPT !.default = sync.want]
    BY <1>10, <2>3, TypedReplace DEF Persist
  <2> QED
    BY <1>1, <1>10, <2>1, <2>2, <2>4 DEF Typed, Persist, Stale, sync
<1>11. ASSUME NEW a \in Actor, Stop(a)
       PROVE  Typed'
  <2>1. act' \in [Actor -> Activity] /\ \A b \in Actor : Saving(act'[b])
    BY <1>11, DoneIsDo, IdleIsIdle, TypedDo DEF Stop
  <2>2. interrupted' \in SUBSET Suggestion /\ faults' \in Nat
    <3>1. act[a].want \in Suggestion
      BY <1>1, Fields
    <3> QED
      BY <1>1, <1>11, <3>1 DEF Stop, Fault
  <2> QED
    BY <1>1, <1>11, <2>1, <2>2 DEF Typed, Stop
<1>12. ASSUME EditJob
       PROVE  Typed'
  <2>1. job' \in [state : {"absent", "off", "armed"}, calendar : Suggestion, bound : BOOLEAN]
    BY <1>1, <1>2, <1>12 DEF EditJob
  <2>2. edits' \in Nat /\ handArmed' \in BOOLEAN /\ stayedOff' \in BOOLEAN
    BY <1>1, <1>12 DEF EditJob, Armed
  <2> QED
    BY <1>1, <1>12, <2>1, <2>2 DEF Typed, EditJob
<1>13. ASSUME Suggest
       PROVE  Typed'
  BY <1>1, <1>13 DEF Typed, Suggest
<1>14. ASSUME UNCHANGED vars
       PROVE  Typed'
  BY <1>1, <1>14 DEF Typed
<1> QED
  BY <1>4, <1>5, <1>6, <1>7, <1>8, <1>9, <1>10, <1>11, <1>12, <1>13, <1>14
  DEF Next, CommandStep, SyncStep

-----------------------------------------------------------------------------
(* What the user turned off.                                               *)

\* Only a run itself takes it to another step, unless another writer marks
\* its row as an older one.
LEMMA OtherActs ==
  ASSUME Typed, NEW a \in Actor, NEW r \in Activity,
         Do(a, r) \/ \E row : Replace(a, row, r)
  PROVE  act'[a] = r /\ \A b \in Actor \ {a} : act'[b].pc = act[b].pc
<1>1. CASE Do(a, r)
  BY <1>1, Doing DEF Typed, TypeOK
<1>2. CASE \E row : Replace(a, row, r)
  <2>1. PICK row : Replace(a, row, r)
    BY <1>2
  <2>2. act'[a] = r /\ \A b \in Actor \ {a} : act'[b] = Passed(b)
    BY <2>1, Replacing DEF Typed, TypeOK
  <2> QED
    BY <2>2, Passing DEF Typed, TypeOK
<1> QED
  BY <1>1, <1>2

\* A job that was off when the run began is not armed by it, and the run
\* never gets to where it would.
LEMMA OffStaysKept ==
  ASSUME Typed, OffStays, [Next]_vars
  PROVE  /\ OffStays'
         /\ stayedOff /\ (Persist \/ Inspect \/ ChangeJob("sync")) => ~Armed'
<1>1. /\ act \in [Actor -> Activity] /\ "sync" \in Actor /\ Command \subseteq Actor /\ "sync" \notin Command
      /\ \A a \in Actor : act[a] \in Activity /\ Saving(act[a])
      /\ job \in [state : {"absent", "off", "armed"}, calendar : Suggestion, bound : BOOLEAN]
  BY ConstantsAssumption DEF Typed, TypeOK, Actor
<1>2. (stayedOff => ~Armed) /\ (act["sync"].pc \in Arming => ~stayedOff)
  BY DEF OffStays, sync
<1>3. /\ Idle \in Activity /\ Idle.pc = "idle" /\ NoJob.state = "absent"
      /\ \A a \in Actor, p \in Steps : [act[a] EXCEPT !.pc = p] \in Activity /\ [act[a] EXCEPT !.pc = p].pc = p
  <2>1. ASSUME NEW a \in Actor, NEW p \in Steps
        PROVE  [act[a] EXCEPT !.pc = p] \in Activity /\ [act[a] EXCEPT !.pc = p].pc = p
    <3>1. act[a] \in Activity
      BY <1>1
    <3> QED
      BY <3>1, Fields
  <2> QED
    BY <2>1, IdleIsIdle DEF NoJob
<1>4. ASSUME UNCHANGED <<job, stayedOff>>, act'["sync"].pc \in Arming => act["sync"].pc \in Arming
      PROVE  OffStays' /\ (stayedOff => ~Armed')
  BY <1>2, <1>4 DEF OffStays, sync, Armed
<1>5. ASSUME NEW a \in Actor, ChangeJob(a)
      PROVE  OffStays' /\ (stayedOff /\ a = "sync" => ~Armed')
  <2>1. CASE Upsert(a)
    <3>1. act[a].pc = "upsert" /\ (Do(a, Idle) \/ Do(a, [act[a] EXCEPT !.pc = "install"]))
      BY <2>1, GotoIsDo, DoneIsDo DEF Upsert
    <3>2. act'["sync"].pc \in Arming => act["sync"].pc \in Arming
      BY <1>1, <1>3, <3>1, OtherActs DEF Steps, Mending, Arming
    <3>3. UNCHANGED <<job, stayedOff>>
      BY <2>1 DEF Upsert, history
    <3> QED
      BY <1>4, <3>2, <3>3
  <2>2. CASE InstallUnits(a)
    <3>1. act[a].pc = "install" /\ Do(a, [act[a] EXCEPT !.pc = "enable"])
      BY <2>2, GotoIsDo DEF InstallUnits
    <3>2. act'["sync"].pc \in Arming => act["sync"].pc \in Arming
      BY <1>1, <1>3, <3>1, OtherActs DEF Steps, Arming
    <3>3. job'.state = "off" /\ stayedOff' = stayedOff
      BY <2>2 DEF InstallUnits
    <3> QED
      BY <1>2, <3>2, <3>3 DEF OffStays, sync, Armed
  <2>3. CASE InstallEnable(a)
    <3>1. act[a].pc = "enable" /\ Do(a, Idle) /\ stayedOff' = (stayedOff /\ a = "sync")
      BY <2>3, DoneIsDo DEF InstallEnable
    <3>2. ~stayedOff'
      BY <1>2, <3>1 DEF Arming
    <3>3. a = "sync" => ~stayedOff
      BY <1>2, <3>1 DEF Arming
    <3> QED
      BY <3>2, <3>3 DEF OffStays
  <2>4. CASE Remove(a)
    <3>1. Do(a, Idle) /\ job' = NoJob /\ stayedOff' = stayedOff
      BY <2>4, DoneIsDo DEF Remove
    <3>2. act'["sync"].pc \in Arming => act["sync"].pc \in Arming
      BY <1>1, <1>3, <3>1, OtherActs DEF Arming
    <3> QED
      BY <1>2, <1>3, <3>1, <3>2 DEF OffStays, sync, Armed
  <2> QED
    BY <1>5, <2>1, <2>2, <2>3, <2>4 DEF ChangeJob
<1>6. ASSUME NEW c \in Command, UserBegins(c) \/ ReadAgain(c) \/ Save(c)
      PROVE  OffStays'
  <2>1. act["sync"].pc = act'["sync"].pc
    <3>1. CASE UserBegins(c)
      <4>1. PICK r \in Activity : Begin(c, r)
        BY <3>1, Beginning
      <4> QED
        BY <1>1, <4>1, OtherActs DEF Begin
    <3>2. CASE ReadAgain(c)
      BY <1>1, <3>2 DEF ReadAgain, Do, Done
    <3>3. CASE Save(c)
      <4>1. Replace(c, Changed(act[c]), Saved(act[c])) /\ act[c].pc = "save"
        BY <3>3 DEF Save, Saved
      <4>2. Saved(act[c]) \in Activity
        BY <1>1, <4>1, AfterSave
      <4> QED
        BY <1>1, <4>1, <4>2, OtherActs
    <3> QED
      BY <1>6, <3>1, <3>2, <3>3
  <2>2. UNCHANGED <<job, stayedOff>>
    <3>1. CASE UserBegins(c)
      <4>1. PICK r \in Activity : Begin(c, r)
        BY <3>1, Beginning
      <4> QED
        BY <4>1 DEF Begin, history
    <3> QED
      BY <1>6, <3>1 DEF ReadAgain, Save
  <2> QED
    BY <1>4, <2>1, <2>2
<1>7. ASSUME Enroll
      PROVE  OffStays'
  <2>1. act'["sync"] = Passed("sync") /\ UNCHANGED <<job, stayedOff>>
    BY <1>1, <1>7 DEF Enroll
  <2>2. act'["sync"].pc = act["sync"].pc
    BY <1>1, <2>1, Passing
  <2> QED
    BY <1>4, <2>1, <2>2
<1>8. ASSUME SyncBegin \/ RecoverBegin
      PROVE  OffStays'
  <2>1. act'["sync"].pc \in {"fetch", "run"}
    <3>1. CASE SyncBegin
      <4> PICK l \in BOOLEAN : ~l
        OBVIOUS
      <4>1. Restarted(Idle, "fetch", "sync", config) = About("fetch", "sync", config, NoCalendar, l)
        BY Started
      <4>2. act'["sync"] = Restarted(Idle, "fetch", "sync", config)
        BY <1>1, <3>1 DEF SyncBegin, Do, Restarted
      <4> QED
        BY <4>1, <4>2 DEF About
    <3>2. CASE RecoverBegin
      BY <1>1, <3>2 DEF RecoverBegin, Do
    <3> QED
      BY <1>8, <3>1, <3>2
  <2>2. stayedOff' = ~Armed /\ job' = job
    BY <1>8 DEF SyncBegin, RecoverBegin
  <2> QED
    BY <2>1, <2>2 DEF OffStays, sync, Armed, Arming
<1>9. ASSUME SyncFetch \/ RunFails \/ RunConverges
      PROVE  OffStays'
  <2>1. act'["sync"].pc \in {"idle", "run", "persist"}
    <3>1. CASE SyncFetch
      <4>1. sync \in Activity
        BY <1>1 DEF sync
      <4>2. Rewanted(sync, "run", suggested) = About("run", sync.kind, sync.copy, suggested, sync.late)
        BY <4>1, Renewed
      <4>3. act'["sync"] \in {Idle, Rewanted(sync, "run", suggested)}
        BY <1>1, <3>1 DEF SyncFetch, Do, Done, Rewanted
      <4> QED
        BY <4>2, <4>3, IdleIsIdle DEF About
    <3>2. CASE RunFails
      <4>1. act'["sync"] = Idle
        BY <1>1, <3>2 DEF RunFails, Done
      <4> QED
        BY <4>1, IdleIsIdle
    <3>3. CASE RunConverges
      <4>1. act'["sync"] = [act["sync"] EXCEPT !.pc = "persist"]
        BY <1>1, <3>3 DEF RunConverges, Goto
      <4> QED
        BY <1>1, <1>3, <4>1 DEF Steps, Holding, Running
    <3> QED
      BY <1>9, <3>1, <3>2, <3>3
  <2>2. UNCHANGED <<job, stayedOff>>
    BY <1>9 DEF SyncFetch, RunFails, RunConverges, history
  <2> QED
    BY <1>4, <2>1, <2>2 DEF Arming
<1>10. ASSUME Persist
       PROVE  OffStays' /\ (stayedOff => ~Armed')
  <2>1. sync \in Activity /\ sync.copy \in Row
    BY <1>1, <1>10 DEF Persist, sync, Saving, Holding, Running
  <2>2. Reconcile \in Activity /\ Reconcile.pc \in {"idle", "inspect", "remove"}
    BY <2>1, Reconciling
  <2>3. act'["sync"] = Reconcile
    BY <1>1, <1>10, <2>2, Replacing DEF Persist
  <2>4. UNCHANGED <<job, stayedOff>>
    BY <1>10 DEF Persist
  <2> QED
    BY <1>4, <2>2, <2>3, <2>4 DEF Arming
<1>11. ASSUME Inspect
       PROVE  OffStays' /\ (stayedOff => ~Armed')
  <2>1. UNCHANGED <<job, stayedOff>>
    BY <1>11 DEF Inspect, history
  <2>2. CASE Status(sync.want) = "drifted"
    <3>1. Armed
      BY <1>1, <2>2 DEF Status, Armed
    <3> QED
      BY <1>2, <2>1, <3>1 DEF OffStays, sync, Armed
  <2>3. CASE Status(sync.want) # "drifted"
    <3>1. act'["sync"].pc = "idle"
      BY <1>1, <1>3, <1>11, <2>3 DEF Inspect, Done
    <3> QED
      BY <1>4, <2>1, <3>1 DEF Arming
  <2> QED
    BY <2>2, <2>3
<1>12. ASSUME NEW a \in Actor, Stop(a)
       PROVE  OffStays'
  <2>1. Do(a, Idle) /\ UNCHANGED <<job, stayedOff>>
    BY <1>12, DoneIsDo DEF Stop, history
  <2>2. act'["sync"].pc \in Arming => act["sync"].pc \in Arming
    BY <1>1, <1>3, <2>1, OtherActs DEF Arming
  <2> QED
    BY <1>4, <2>1, <2>2
<1>13. ASSUME EditJob
       PROVE  OffStays'
  BY <1>2, <1>13 DEF EditJob, OffStays, sync, Armed
<1>14. ASSUME Suggest \/ UNCHANGED vars
       PROVE  OffStays'
  <2>1. UNCHANGED <<job, act, stayedOff>>
    BY <1>14 DEF Suggest, vars, history
  <2> QED
    BY <1>4, <2>1
<1>15. OffStays'
  BY <1>1, <1>5, <1>6, <1>7, <1>8, <1>9, <1>10, <1>11, <1>12, <1>13, <1>14
  DEF Next, CommandStep, SyncStep
<1> QED
  BY <1>1, <1>5, <1>10, <1>11, <1>15

-----------------------------------------------------------------------------
(* The decision of the user.                                               *)

\* An actor that neither has a row nor is about to change the job for one.
LEMMA GoodAside ==
  ASSUME NEW x, NEW row, NEW native, x.pc \in {"idle", "remove"}
  PROVE  Good(x, row, native)
  BY DEF Good, UpToDate, WantsAsked, WantsDefault, EnablesWanted, Holding, Running, Mending, Arming

\* Being passed by another writer is fine: the row is an older one then.
LEMMA GoodPassed ==
  ASSUME Typed, NEW b \in Actor, Good(act[b], config, job), job' = job
  PROVE  Good(Passed(b), config', job')
<1> DEFINE x == act[b]
           y == Passed(b)
<1>1. x \in Activity /\ y \in Activity /\ y.pc = x.pc /\ y.kind = x.kind /\ y.copy = x.copy /\ y.want = x.want
      /\ y.late = (x.pc # "idle" /\ (x.late \/ config' # config))
  BY Passing DEF Typed, TypeOK
<1> HIDE DEF x, y
<1>2. Good(y, config', job')
  <2>1. CASE x.pc = "idle"
    BY <1>1, <2>1, GoodAside
  <2>2. CASE x.pc # "idle" /\ y.late
    BY <1>1, <2>2 DEF x, Good, UpToDate, WantsAsked, WantsDefault, EnablesWanted
  <2>3. CASE x.pc # "idle" /\ ~y.late
    <3>1. config' = config /\ ~x.late
      BY <1>1, <2>3
    <3> QED
      BY <1>1, <2>3, <3>1 DEF x, Good, UpToDate, WantsAsked, WantsDefault, EnablesWanted
  <2> QED
    BY <2>1, <2>2, <2>3
<1> QED
  BY <1>2 DEF y

\* A step of one actor that changes neither the row nor the job.
LEMMA ActsAlone ==
  ASSUME Inv, ~overlapped, NEW a \in Actor, NEW r \in Activity, Do(a, r),
         config' = config, job' = job, chosen' = chosen, handArmed' = handArmed,
         Good(r, config, job),
         faults' = 0 => /\ faults = 0
                        /\ act[a].pc \in Mending =>
                             \/ r.pc \in Mending /\ r.want = act[a].want
                             \/ ~Armed \/ job.calendar = act[a].want
  PROVE  Apart'
<1>1. act'[a] = r /\ \A b \in Actor \ {a} : act'[b] = act[b]
  BY Doing DEF Inv, TypeOK
<1>2. DecisionKept /\ (\A b \in Actor : Good(act[b], config, job)) /\ (faults = 0 => ArmedIsAsked)
  BY DEF Inv, Apart
<1>3. DecisionKept'
  BY <1>2 DEF DecisionKept
<1>4. ASSUME NEW b \in Actor  PROVE Good(act'[b], config', job')
  BY <1>1, <1>2
<1>5. ASSUME faults' = 0  PROVE ArmedIsAsked'
  <2> SUFFICES ASSUME Armed, ~handArmed, Enrolled(config), Asked(config) \notin {job.calendar, NoCalendar}
               PROVE  \E b \in Actor : act'[b].pc \in Mending /\ act'[b].want = Asked(config)
    BY DEF ArmedIsAsked, Armed
  <2>1. PICK b \in Actor : act[b].pc \in Mending /\ act[b].want = Asked(config)
    BY <1>2, <1>5 DEF ArmedIsAsked
  <2>2. CASE b = a
    <3>1. act[a].pc \in Mending /\ act[a].want = Asked(config)
      BY <2>1, <2>2
    <3>2. r.pc \in Mending /\ r.want = Asked(config)
      BY <1>5, <3>1
    <3> QED
      BY <1>1, <3>2
  <2>3. CASE b # a
    <3>1. act'[b] = act[b]
      BY <1>1, <2>3
    <3> QED
      BY <2>1, <3>1
  <2> QED
    BY <2>2, <2>3
<1> QED
  BY <1>3, <1>4, <1>5 DEF Apart

\* The steps of commands and runs between their reading and their writing, and
\* those that find that the job is the one they want.
LEMMA ApartThinking ==
  ASSUME Inv, ~overlapped',
         \/ \E c \in Command : UserBegins(c) \/ ReadAgain(c)
         \/ SyncBegin \/ SyncFetch \/ RecoverBegin \/ RunFails \/ RunConverges \/ Inspect
         \/ \E a \in Actor : Upsert(a) \/ Stop(a)
  PROVE  Apart'
<1>1. /\ act \in [Actor -> Activity] /\ "sync" \in Actor /\ Command \subseteq Actor
      /\ \A a \in Actor : act[a] \in Activity
      /\ job \in [state : {"absent", "off", "armed"}, calendar : Suggestion, bound : BOOLEAN]
      /\ overlapped \in BOOLEAN /\ faults \in Nat /\ suggested \in Suggestion /\ interrupted \in SUBSET Suggestion
      /\ config \in Row \cup {NoConfig} /\ Typed
  BY DEF Inv, TypeOK, Actor, Typed
<1>2. \A a \in Actor : ~overlapped => Good(act[a], config, job)
  BY DEF Inv, Apart
<1>3. \A a \in Actor, p \in Steps :
        LET y == [act[a] EXCEPT !.pc = p] IN
        /\ y \in Activity /\ y.pc = p /\ y.kind = act[a].kind /\ y.copy = act[a].copy
        /\ y.want = act[a].want /\ y.late = act[a].late
  <2>1. ASSUME NEW a \in Actor, NEW p \in Steps
        PROVE  LET y == [act[a] EXCEPT !.pc = p] IN
               /\ y \in Activity /\ y.pc = p /\ y.kind = act[a].kind /\ y.copy = act[a].copy
               /\ y.want = act[a].want /\ y.late = act[a].late
    <3>1. act[a] \in Activity
      BY <1>1
    <3> QED
      BY <3>1, Fields
  <2> QED
    BY <2>1
<1>4. Idle \in Activity /\ \A row, native : Good(Idle, row, native)
  BY IdleIsIdle, GoodAside
<1>5. "idle" \notin Mending /\ "read" \notin Mending /\ "fetch" \notin Mending /\ "run" \notin Mending
  BY DEF Mending
<1>6. ASSUME NEW c \in Command, UserBegins(c)
      PROVE  Apart'
  <2>1. PICK r \in Activity :
          /\ Begin(c, r)
          /\ r.copy = config /\ r.pc \in {"save", "read", "remove"} /\ (r.pc = "save" => r.kind # "default")
    BY <1>1, <1>6, Beginning
  <2>2. Good(r, config, job)
    BY <2>1 DEF Good, UpToDate, WantsAsked, WantsDefault, EnablesWanted, Mending, Arming
  <2>3. /\ Do(c, r) /\ act[c].pc = "idle" /\ faults' = faults /\ ~overlapped
        /\ config' = config /\ job' = job /\ chosen' = chosen /\ handArmed' = handArmed
    BY <2>1 DEF Begin, history
  <2> QED
    BY <1>1, <1>5, <2>2, <2>3, ActsAlone
<1>7. ASSUME NEW c \in Command, ReadAgain(c)
      PROVE  Apart'
  <2>1. /\ act[c].pc = "read" /\ faults' = faults /\ ~overlapped /\ act[c] \in Activity
        /\ config' = config /\ job' = job /\ chosen' = chosen /\ handArmed' = handArmed
    BY <1>1, <1>7 DEF ReadAgain, bounds
  <2>2. CASE Enrolled(config)
    <3> PICK l \in BOOLEAN : ~l
      OBVIOUS
    <3> DEFINE r == Reread(act[c], "save", config, l)
    <3>1. r = About("save", act[c].kind, config, act[c].want, l)
      BY <2>1, Renewed
    <3>2. Do(c, r)
      BY <1>7, <2>2 DEF ReadAgain, Reread
    <3>3. act[c].want = config.default
      BY <1>7, <2>2 DEF ReadAgain
    <3>4. Good(r, config, job)
      BY <3>1, <3>3
      DEF About, Good, UpToDate, WantsAsked, WantsDefault, EnablesWanted, Mending, Arming
    <3>5. act[c].want \in Suggestion /\ act[c].kind = "default"
      BY <1>1, <2>1, Fields DEF Typed, Saving
    <3>6. r \in Activity
      BY <1>1, <3>1, <3>5 DEF About, Activity, Steps, Holding
    <3> HIDE DEF r
    <3> QED
      BY <1>1, <1>5, <2>1, <3>2, <3>4, <3>6, ActsAlone
  <2>3. CASE ~Enrolled(config)
    <3>1. Do(c, Idle)
      BY <1>1, <1>7, <2>3, DoneIsDo DEF ReadAgain
    <3> QED
      BY <1>1, <1>4, <1>5, <2>1, <3>1, ActsAlone
  <2> QED
    BY <2>2, <2>3
<1>8. ASSUME SyncBegin \/ RecoverBegin
      PROVE  Apart'
  <2>1. /\ sync.pc = "idle" /\ config \in Row /\ faults' = faults /\ ~overlapped
        /\ config' = config /\ job' = job /\ chosen' = chosen /\ handArmed' = handArmed
    BY <1>1, <1>8 DEF SyncBegin, RecoverBegin, bounds, Enrolled
  <2>2. PICK r \in Activity : Do("sync", r) /\ r.copy = config /\ r.pc \in {"fetch", "run"}
    <3>1. CASE SyncBegin
      <4> PICK l \in BOOLEAN : ~l
        OBVIOUS
      <4>1. Restarted(Idle, "fetch", "sync", config) = About("fetch", "sync", config, NoCalendar, l)
        BY Started
      <4>2. Do("sync", Restarted(Idle, "fetch", "sync", config))
        BY <3>1 DEF SyncBegin, Restarted
      <4>3. LET r == About("fetch", "sync", config, NoCalendar, l)
            IN  r \in Activity /\ r.copy = config /\ r.pc = "fetch"
        BY <2>1 DEF About, Activity, Steps, Holding, Running, Suggestion
      <4> QED
        BY <4>1, <4>2, <4>3
    <3>2. CASE RecoverBegin
      <4>1. PICK default \in Suggestion :
              Do("sync", [pc |-> "run", kind |-> "recover", copy |-> config, want |-> default, late |-> FALSE])
        BY <1>1, <3>2 DEF RecoverBegin
      <4>2. LET r == [pc |-> "run", kind |-> "recover", copy |-> config, want |-> default, late |-> FALSE]
            IN  r \in Activity /\ r.copy = config /\ r.pc = "run"
        BY <2>1 DEF Activity, Steps, Holding, Running
      <4> QED
        BY <4>1, <4>2
    <3> QED
      BY <1>8, <3>1, <3>2
  <2>3. Good(r, config, job)
    BY <2>2 DEF Good, UpToDate, WantsAsked, WantsDefault, EnablesWanted, Mending, Arming
  <2> QED
    BY <1>1, <1>5, <2>1, <2>2, <2>3, ActsAlone DEF sync
<1>9. ASSUME SyncFetch \/ RunFails \/ RunConverges
      PROVE  Apart'
  <2>1. /\ sync.pc \in {"fetch", "run"} /\ faults' = faults /\ ~overlapped /\ sync \in Activity
        /\ config' = config /\ job' = job /\ chosen' = chosen /\ handArmed' = handArmed
    BY <1>1, <1>9 DEF SyncFetch, RunFails, RunConverges, bounds, history, sync
  <2>2. Good(sync, config, job)
    BY <1>1, <1>2, <2>1 DEF sync
  <2>3. PICK r \in Activity :
          /\ Do("sync", r)
          /\ \/ r = Idle
             \/ r.copy = sync.copy /\ r.late = sync.late /\ r.pc \in {"run", "persist"}
    <3>1. CASE Done("sync")
      BY <1>1, <1>4, <3>1, DoneIsDo
    <3>2. CASE SyncFetch /\ ~Done("sync")
      <4>1. Rewanted(sync, "run", suggested) = About("run", sync.kind, sync.copy, suggested, sync.late)
        BY <2>1, Renewed
      <4>2. Do("sync", Rewanted(sync, "run", suggested))
        BY <3>2 DEF SyncFetch, Rewanted
      <4>3. /\ sync.copy \in Row \cup {NoConfig} /\ sync.late \in BOOLEAN
            /\ sync.kind \in {"none", "set", "default", "remove", "policy", "unenroll", "sync", "recover"}
        BY <2>1, Fields
      <4>4. LET r == About("run", sync.kind, sync.copy, suggested, sync.late)
            IN  r \in Activity /\ r.copy = sync.copy /\ r.late = sync.late /\ r.pc = "run"
        BY <1>1, <4>3 DEF About, Activity, Steps, Holding, Running
      <4> QED
        BY <4>1, <4>2, <4>4
    <3>3. CASE RunConverges
      <4>1. Do("sync", [act["sync"] EXCEPT !.pc = "persist"])
        BY <1>1, <3>3, GotoIsDo DEF RunConverges
      <4>2. LET y == [act["sync"] EXCEPT !.pc = "persist"] IN
            /\ y \in Activity /\ y.pc = "persist"
            /\ y.copy = act["sync"].copy /\ y.late = act["sync"].late
        BY <1>1, <1>3 DEF Steps, Holding, Running
      <4> QED
        BY <4>1, <4>2 DEF sync
    <3> QED
      BY <1>9, <3>1, <3>2, <3>3 DEF RunFails
  <2>4. Good(r, config, job)
    <3>1. CASE r = Idle
      BY <1>4, <3>1
    <3>2. CASE r.copy = sync.copy /\ r.late = sync.late /\ r.pc \in {"run", "persist"}
      BY <2>1, <2>2, <3>2
      DEF Good, UpToDate, WantsAsked, WantsDefault, EnablesWanted, Holding, Running, Mending, Arming
    <3> QED
      BY <2>3, <3>1, <3>2
  <2> QED
    BY <1>1, <1>5, <2>1, <2>3, <2>4, ActsAlone DEF sync
<1>10. ASSUME NEW a \in Actor, NEW p \in Mending, act[a].pc \in Mending,
              \/ Goto(a, p)
              \/ Done(a) /\ (Armed => job.calendar = act[a].want),
              UNCHANGED <<config, job, bounds, history>>
       PROVE  Apart'
  <2>1. /\ faults' = faults /\ ~overlapped /\ act[a] \in Activity /\ p \in Steps /\ p \in Mending \cup Arming
        /\ config' = config /\ job' = job /\ chosen' = chosen /\ handArmed' = handArmed
    BY <1>1, <1>10 DEF bounds, history, Steps
  <2>2. Good(act[a], config, job)
    BY <1>2, <2>1
  <2>3. CASE Goto(a, p)
    <3> DEFINE r == [act[a] EXCEPT !.pc = p]
    <3>1. r \in Activity /\ r.pc = p /\ r.want = act[a].want /\ r.late = act[a].late
      BY <1>3, <2>1
    <3>2. Do(a, r)
      BY <2>3, GotoIsDo
    <3> HIDE DEF r
    <3>3. Good(r, config, job)
      BY <1>10, <2>2, <3>1
      DEF Good, UpToDate, WantsAsked, WantsDefault, EnablesWanted, Holding, Running, Mending, Arming
    <3> QED
      BY <1>10, <2>1, <3>1, <3>2, <3>3, ActsAlone
  <2>4. CASE Done(a) /\ (Armed => job.calendar = act[a].want)
    <3>1. Do(a, Idle)
      BY <2>4, DoneIsDo
    <3> QED
      BY <1>4, <2>1, <2>4, <3>1, ActsAlone
  <2> QED
    BY <1>10, <2>3, <2>4
<1>11. ASSUME NEW a \in Actor, Upsert(a)
       PROVE  Apart'
  <2>1. act[a].pc \in Mending /\ "install" \in Mending /\ UNCHANGED <<config, job, bounds, history>>
    BY <1>11 DEF Upsert, Mending
  <2>2. \/ Goto(a, "install")
        \/ Done(a) /\ (Armed => job.calendar = act[a].want)
    BY <1>11 DEF Upsert, Status, Armed
  <2> QED
    BY <1>10, <2>1, <2>2
<1>12. ASSUME Inspect
       PROVE  Apart'
  <2>1. act["sync"].pc \in Mending /\ "upsert" \in Mending /\ UNCHANGED <<config, job, bounds, history>>
    BY <1>12 DEF Inspect, Mending, sync
  <2>2. \/ Goto("sync", "upsert")
        \/ Done("sync") /\ (Armed => job.calendar = act["sync"].want)
    BY <1>12 DEF Inspect, Status, Armed, sync
  <2> QED
    BY <1>1, <1>10, <2>1, <2>2
<1>13. ASSUME NEW a \in Actor, Stop(a)
       PROVE  Apart'
  <2>1. /\ faults' # 0 /\ ~overlapped /\ Do(a, Idle)
        /\ config' = config /\ job' = job /\ chosen' = chosen /\ handArmed' = handArmed
    BY <1>1, <1>13, DoneIsDo DEF Stop, Fault, history
  <2> QED
    BY <1>4, <2>1, ActsAlone
<1> QED
  BY <1>6, <1>7, <1>8, <1>9, <1>11, <1>12, <1>13

\* The steps that change the job.
LEMMA ApartChanging ==
  ASSUME Inv, ~overlapped',
         EditJob \/ \E a \in Actor : InstallUnits(a) \/ InstallEnable(a) \/ Remove(a)
  PROVE  Apart'
<1>1. /\ act \in [Actor -> Activity]
      /\ \A a \in Actor : act[a] \in Activity
      /\ job \in [state : {"absent", "off", "armed"}, calendar : Suggestion, bound : BOOLEAN]
      /\ overlapped \in BOOLEAN /\ handArmed \in BOOLEAN /\ \A a \in Actor : act[a].late \in BOOLEAN
  <2>1. \A a \in Actor : act[a] \in Activity
    BY DEF Inv, TypeOK
  <2> QED
    BY <2>1, Fields DEF Inv, TypeOK
<1>2. ~overlapped => /\ DecisionKept /\ \A a \in Actor : Good(act[a], config, job)
                     /\ faults = 0 => ArmedIsAsked
  BY DEF Inv, Apart
<1>3. ASSUME NEW a \in Actor, InstallUnits(a)
      PROVE  Apart'
  <2> DEFINE x == act[a]
             r == [act[a] EXCEPT !.pc = "enable"]
  <2>1. /\ ~overlapped /\ ~x.late /\ x.pc = "install" /\ x \in Activity
        /\ config' = config /\ chosen' = chosen
        /\ job' = [state |-> "off", calendar |-> x.want, bound |-> TRUE]
    BY <1>1, <1>3 DEF InstallUnits, Stale
  <2>2. r \in Activity /\ r.pc = "enable" /\ r.want = x.want /\ r.late = x.late
    BY <2>1, Fields DEF Steps, Arming
  <2>3. Do(a, r)
    BY <1>3, GotoIsDo DEF InstallUnits
  <2> HIDE DEF r
  <2>4. act'[a] = r /\ \A b \in Actor \ {a} : act'[b] = act[b]
    BY <1>1, <2>2, <2>3, Doing
  <2>5. Enrolled(config) /\ x.want = Asked(config)
    BY <1>2, <2>1 DEF Good, WantsAsked, Arming
  <2>6. Good(r, config', job')
    BY <2>1, <2>2, <2>5
    DEF Good, UpToDate, WantsAsked, WantsDefault, EnablesWanted, Holding, Running
  <2>7. ASSUME NEW b \in Actor, b # a  PROVE Good(act'[b], config', job')
    <3>1. act'[b] = act[b] /\ Good(act[b], config, job) /\ job'.calendar = Asked(config)
      BY <1>2, <2>1, <2>4, <2>5, <2>7
    <3>2. EnablesWanted(act[b], job')
      BY <3>1 DEF Good, WantsAsked, EnablesWanted, Arming
    <3> QED
      BY <2>1, <3>1, <3>2 DEF Good
  <2>8. ArmedIsAsked'
    BY <2>1 DEF ArmedIsAsked, Armed
  <2>9. DecisionKept'
    BY <1>2, <2>1 DEF DecisionKept
  <2> QED
    BY <2>4, <2>6, <2>7, <2>8, <2>9 DEF Apart
<1>4. ASSUME NEW a \in Actor, InstallEnable(a)
      PROVE  Apart'
  <2> DEFINE x == act[a]
  <2>1. /\ ~overlapped /\ ~x.late /\ x.pc = "enable"
        /\ config' = config /\ chosen' = chosen /\ faults' = faults
        /\ job'.calendar = job.calendar /\ (job.state = "absent" <=> job'.state = "absent")
    BY <1>1, <1>4 DEF InstallEnable, Stale, bounds
  <2>2. act'[a] = Idle /\ \A b \in Actor \ {a} : act'[b] = act[b]
    BY <1>1, <1>4, DoneIsDo, Doing, IdleIsIdle DEF InstallEnable
  <2>3. Enrolled(config) /\ (job.state = "absent" \/ job.calendar = Asked(config))
    BY <1>2, <2>1 DEF Good, WantsAsked, EnablesWanted, Arming
  <2>4. ASSUME NEW b \in Actor  PROVE Good(act'[b], config', job')
    <3>1. CASE b = a
      BY <2>2, <3>1, IdleIsIdle, GoodAside
    <3>2. CASE b # a
      <4>1. act'[b] = act[b] /\ Good(act[b], config, job)
        BY <1>2, <2>1, <2>2, <3>2
      <4> QED
        BY <2>1, <4>1 DEF Good, EnablesWanted
    <3> QED
      BY <3>1, <3>2
  <2>5. ArmedIsAsked'
    BY <2>1, <2>3 DEF ArmedIsAsked, Armed
  <2>6. DecisionKept'
    BY <1>2, <2>1 DEF DecisionKept
  <2> QED
    BY <2>4, <2>5, <2>6 DEF Apart
<1>5. ASSUME NEW a \in Actor, Remove(a)
      PROVE  Apart'
  <2>1. ~overlapped /\ config' = config /\ chosen' = chosen /\ job'.state = "absent"
    BY <1>1, <1>5 DEF Remove, Stale, NoJob
  <2>2. act'[a] = Idle /\ \A b \in Actor \ {a} : act'[b] = act[b]
    BY <1>1, <1>5, DoneIsDo, Doing, IdleIsIdle DEF Remove
  <2>3. ASSUME NEW b \in Actor  PROVE Good(act'[b], config', job')
    <3>1. CASE b = a
      BY <2>2, <3>1, IdleIsIdle, GoodAside
    <3>2. CASE b # a
      <4>1. act'[b] = act[b] /\ Good(act[b], config, job)
        BY <1>2, <2>1, <2>2, <3>2
      <4> QED
        BY <2>1, <4>1 DEF Good, EnablesWanted
    <3> QED
      BY <3>1, <3>2
  <2>4. ArmedIsAsked' /\ DecisionKept'
    BY <1>2, <2>1 DEF ArmedIsAsked, Armed, DecisionKept
  <2> QED
    BY <2>3, <2>4 DEF Apart
<1>6. ASSUME EditJob
      PROVE  Apart'
  <2>1. /\ ~overlapped /\ config' = config /\ chosen' = chosen /\ act' = act /\ faults' = faults
        /\ job'.state = "absent" \/ (job'.calendar = job.calendar /\ job.state # "absent")
        /\ Armed' /\ ~handArmed' => Armed /\ ~handArmed /\ job'.calendar = job.calendar
    <3>1. \/ job' = NoJob
          \/ Armed /\ job' = [job EXCEPT !.state = "off"]
          \/ ~Armed /\ job' = [job EXCEPT !.state = "armed"]
          \/ job' = [job EXCEPT !.bound = FALSE]
      BY <1>6 DEF EditJob
    <3>2. /\ job.state # "absent"
          /\ job'.state = "absent" \/ job'.calendar = job.calendar
      BY <1>1, <1>6, <3>1 DEF EditJob, NoJob
    <3>3. handArmed' = (Armed' /\ (handArmed \/ ~Armed))
      BY <1>6 DEF EditJob, Armed
    <3>4. Armed' => job'.state # "absent"
      BY DEF Armed
    <3>5. ~overlapped /\ config' = config /\ chosen' = chosen /\ act' = act /\ faults' = faults
      BY <1>6 DEF EditJob
    <3> QED
      BY <3>2, <3>3, <3>4, <3>5
  <2>2. ASSUME NEW b \in Actor  PROVE Good(act'[b], config', job')
    BY <1>2, <2>1 DEF Good, EnablesWanted
  <2>3. ASSUME faults' = 0  PROVE ArmedIsAsked'
    BY <1>2, <2>1, <2>3 DEF ArmedIsAsked
  <2>4. DecisionKept'
    BY <1>2, <2>1 DEF DecisionKept
  <2> QED
    BY <2>2, <2>3, <2>4 DEF Apart
<1> QED
  BY <1>3, <1>4, <1>5, <1>6

\* The steps that write the row.
LEMMA ApartWriting ==
  ASSUME Inv, ~overlapped', Enroll \/ Persist \/ \E c \in Command : Save(c)
  PROVE  Apart'
<1>1. /\ act \in [Actor -> Activity] /\ "sync" \in Actor /\ Command \subseteq Actor
      /\ overlapped \in BOOLEAN /\ config \in Row \cup {NoConfig} /\ Typed /\ NoConfig \notin Row
      /\ \A a \in Actor : act[a] \in Activity /\ Saving(act[a]) /\ act[a].late \in BOOLEAN
                          /\ act[a].want \in Suggestion
  <2>1. \A a \in Actor : act[a] \in Activity
    BY DEF Inv, TypeOK
  <2> QED
    BY <2>1, Fields, ConstantsAssumption DEF Inv, TypeOK, Actor, Typed
<1>2. ~overlapped => /\ DecisionKept /\ \A a \in Actor : Good(act[a], config, job)
                     /\ faults = 0 => ArmedIsAsked
  BY DEF Inv, Apart
<1>3. ASSUME NEW row \in Row
      PROVE  /\ row.override \in Override /\ row.default \in Suggestion
             /\ Asked(row) \in Suggestion
             /\ row.override \in Calendar => Asked(row) = row.override
             /\ row.override = "inherit" => Asked(row) = row.default
             /\ row.override \in {"off", "undecided"} => Asked(row) = NoCalendar
  BY Desiring DEF Row, Asked
<1>4. ASSUME NEW c \in Command, Save(c)
      PROVE  Apart'
  <2> DEFINE x == act[c]
             row == Changed(x)
  <2>1. /\ Replace(c, row, Saved(x)) /\ x.pc = "save" /\ chosen' = Decision(row)
        /\ ~overlapped /\ ~x.late /\ faults' = faults /\ handArmed' = handArmed /\ job' = job
    BY <1>1, <1>4 DEF Save, Saved, Stale, bounds
  <2>2. c \in Actor /\ x \in Activity /\ Saving(x)
    BY <1>1
  <2>3. /\ x.copy \in Row /\ row \in Row \cup {NoConfig}
        /\ x.kind = "unenroll" => row = NoConfig
        /\ x.kind # "unenroll" => row \in Row /\ row.default = x.copy.default
        /\ x.kind = "set" => row.override = x.want /\ x.want \in Calendar
        /\ x.kind = "default" => row.override = "inherit"
        /\ x.kind = "remove" => row.override = "off"
        /\ x.kind = "policy" => row.override = x.copy.override
        /\ x.kind \in {"set", "default", "remove", "policy", "unenroll"}
    BY <2>1, <2>2, Changing
  <2>4. /\ Saved(x) \in Activity
        /\ Saved(x).pc \in {"idle", "upsert", "remove"}
        /\ x.kind \in {"set", "default"} => Saved(x).pc = "upsert" /\ Saved(x).want = x.want
        /\ x.kind \notin {"set", "default"} => Saved(x).pc # "upsert"
    BY <2>1, <2>2, AfterSave
  <2>5. act'[c] = Saved(x) /\ config' = row /\ \A b \in Actor \ {c} : act'[b] = Passed(b)
    BY <1>1, <2>1, <2>2, <2>4, Replacing
  <2> HIDE DEF x, row
  <2>6. x.copy = config /\ (x.kind = "default" => x.want = x.copy.default)
    BY <1>2, <2>1, <2>2 DEF x, Good, UpToDate, WantsDefault, Holding
  <2>7. x.kind \in {"set", "default"} => row \in Row /\ x.want = Asked(row)
    BY <1>3, <2>3, <2>6
  <2>8. Good(Saved(x), row, job)
    <3>1. CASE x.kind \in {"set", "default"}
      BY <1>1, <2>4, <2>7, <3>1
      DEF Good, UpToDate, WantsAsked, WantsDefault, EnablesWanted, Holding, Running, Mending, Arming, Enrolled
    <3>2. CASE x.kind \notin {"set", "default"}
      BY <2>4, <3>2, GoodAside
    <3> QED
      BY <3>1, <3>2
  <2>9. ASSUME NEW b \in Actor  PROVE Good(act'[b], config', job')
    <3>1. CASE b = c
      BY <2>1, <2>5, <2>8, <3>1
    <3>2. CASE b # c
      BY <1>1, <1>2, <2>1, <2>5, <3>2, GoodPassed
    <3> QED
      BY <3>1, <3>2
  <2>10. ASSUME faults' = 0  PROVE ArmedIsAsked'
    <3> SUFFICES ASSUME Armed, ~handArmed, row \in Row, Asked(row) \notin {job.calendar, NoCalendar}
                 PROVE  \E b \in Actor : act'[b].pc \in Mending /\ act'[b].want = Asked(row)
      <4>1. Enrolled(config') => row \in Row
        BY <2>3, <2>5 DEF Enrolled
      <4> QED
        BY <2>1, <2>5, <4>1 DEF ArmedIsAsked, Armed
    <3>1. CASE x.kind \in {"set", "default"}
      BY <2>2, <2>4, <2>5, <2>7, <3>1 DEF Mending
    <3>2. CASE x.kind = "remove"
      BY <1>3, <2>3, <3>2
    <3>3. CASE x.kind = "unenroll"
      BY <1>1, <2>3, <3>3
    <3>4. CASE x.kind = "policy"
      <4>1. Asked(row) = Asked(config) /\ Enrolled(config)
        BY <1>1, <2>3, <2>6, <3>4 DEF Asked, Enrolled
      <4>2. PICK b \in Actor : act[b].pc \in Mending /\ act[b].want = Asked(config)
        BY <1>2, <2>1, <2>10, <4>1 DEF ArmedIsAsked
      <4>3. b # c
        BY <2>1, <4>2 DEF x, Mending
      <4>4. act'[b].pc = act[b].pc /\ act'[b].want = act[b].want
        BY <1>1, <2>5, <4>3, Passing
      <4> QED
        BY <4>1, <4>2, <4>4
    <3> QED
      BY <2>3, <3>1, <3>2, <3>3, <3>4
  <2>11. DecisionKept'
    BY <2>1, <2>5 DEF DecisionKept, Decision, Enrolled
  <2> QED
    BY <2>9, <2>10, <2>11 DEF Apart
<1>5. ASSUME Persist
      PROVE  Apart'
  <2> DEFINE x == sync
             row == [sync.copy EXCEPT !.default = sync.want]
  <2>1. /\ Replace("sync", row, Reconcile) /\ x.pc = "persist" /\ chosen' = chosen
        /\ ~overlapped /\ ~x.late /\ faults' = faults /\ handArmed' = handArmed /\ job' = job
    BY <1>1, <1>5 DEF Persist, Stale, bounds, sync
  <2>2. x \in Activity /\ x.copy \in Row /\ x.want \in Suggestion
    BY <1>1, <2>1 DEF sync, Saving, Holding, Running
  <2>3. row \in Row /\ row.override = x.copy.override /\ row.policy = x.copy.policy /\ row.default = x.want
    BY <2>2 DEF Row
  <2>4. /\ Reconcile \in Activity /\ Reconcile.pc \in {"idle", "inspect", "remove"}
        /\ Reconcile.pc = "inspect" => Reconcile.want = Asked(row)
        /\ x.kind # "recover" /\ Asked(row) # NoCalendar => Reconcile.pc = "inspect"
    <3>1. Asked(row) = Desired(x.copy.override, x.want)
      BY <2>3 DEF Asked
    <3> QED
      BY <2>2, <3>1, Reconciling
  <2>5. act'["sync"] = Reconcile /\ config' = row /\ \A b \in Actor \ {"sync"} : act'[b] = Passed(b)
    BY <1>1, <2>1, <2>4, Replacing
  <2> HIDE DEF row
  <2>6. x.copy = config
    BY <1>1, <1>2, <2>1 DEF sync, Good, UpToDate, Holding, Running
  <2>7. Good(Reconcile, row, job)
    <3>1. CASE Reconcile.pc = "inspect"
      BY <1>1, <2>3, <2>4, <3>1
      DEF Good, UpToDate, WantsAsked, WantsDefault, EnablesWanted, Holding, Running, Mending, Arming, Enrolled
    <3>2. CASE Reconcile.pc # "inspect"
      BY <2>4, <3>2, GoodAside
    <3> QED
      BY <3>1, <3>2
  <2>8. ASSUME NEW b \in Actor  PROVE Good(act'[b], config', job')
    <3>1. CASE b = "sync"
      BY <2>1, <2>5, <2>7, <3>1
    <3>2. CASE b # "sync"
      BY <1>1, <1>2, <2>1, <2>5, <3>2, GoodPassed
    <3> QED
      BY <3>1, <3>2
  <2>9. ASSUME faults' = 0  PROVE ArmedIsAsked'
    <3>1. x.kind # "recover"
      BY <1>1, <2>1, <2>9 DEF Inv, NoRecovery, sync
    <3>2. Asked(row) # NoCalendar => Reconcile.pc \in Mending /\ Reconcile.want = Asked(row)
      BY <2>4, <3>1 DEF Mending
    <3> QED
      BY <1>1, <2>5, <3>2 DEF ArmedIsAsked
  <2>10. DecisionKept'
    <3>1. Decision(row) = Decision(config)
      BY <1>1, <2>2, <2>3, <2>6 DEF Decision, Enrolled
    <3> QED
      BY <1>2, <2>1, <2>5, <3>1 DEF DecisionKept
  <2> QED
    BY <2>8, <2>9, <2>10 DEF Apart
<1>6. ASSUME Enroll
      PROVE  Apart'
  <2>1. /\ ~overlapped /\ config' = Fresh /\ chosen' = Decision(Fresh) /\ job' = job
        /\ \A b \in Actor : act'[b] = Passed(b)
    BY <1>6 DEF Enroll
  <2>2. ASSUME NEW b \in Actor  PROVE Good(act'[b], config', job')
    BY <1>1, <1>2, <2>1, <2>2, GoodPassed
  <2>3. Asked(config') = NoCalendar
    <3>1. Fresh \in Row /\ Fresh.override = "undecided"
      BY DEF Fresh, Row, Override, Suggestion
    <3> QED
      BY <1>3, <2>1, <3>1
  <2>4. ArmedIsAsked' /\ DecisionKept'
    BY <2>1, <2>3 DEF ArmedIsAsked, DecisionKept
  <2> QED
    BY <2>2, <2>4 DEF Apart
<1> QED
  BY <1>4, <1>5, <1>6

\* Without a fault no run is interrupted, and none is recovered.
LEMMA NoRecoveryKept ==
  ASSUME Typed, NoRecovery, [Next]_vars
  PROVE  NoRecovery'
<1>1. /\ act \in [Actor -> Activity] /\ "sync" \in Actor /\ Command \subseteq Actor
      /\ faults \in Nat /\ \A a \in Actor : act[a] \in Activity /\ Saving(act[a])
  BY DEF Typed, TypeOK, Actor
<1>2. faults = 0 => interrupted = {} /\ \A a \in Actor : act[a].kind # "recover"
  BY DEF NoRecovery
<1>3. ASSUME NEW a \in Actor, NEW r \in Activity, Do(a, r), r.kind # "recover" \/ r.kind = act[a].kind,
             interrupted' \in {interrupted, {}}, faults' = faults
      PROVE  NoRecovery'
  <2>1. act'[a] = r /\ \A b \in Actor \ {a} : act'[b] = act[b]
    BY <1>1, <1>3, Doing
  <2> QED
    BY <1>2, <1>3, <2>1 DEF NoRecovery
<1>4. ASSUME NEW a \in Actor, Done(a), interrupted' \in {interrupted, {}}, faults' = faults
      PROVE  NoRecovery'
  BY <1>3, <1>4, DoneIsDo, IdleIsIdle
<1>5. ASSUME NEW a \in Actor, NEW p \in Steps, Goto(a, p), interrupted' \in {interrupted, {}}, faults' = faults
      PROVE  NoRecovery'
  <2> DEFINE r == [act[a] EXCEPT !.pc = p]
  <2>1. act[a] \in Activity
    BY <1>1
  <2>2. r \in Activity /\ r.kind = act[a].kind
    BY <2>1, Fields
  <2>3. Do(a, r)
    BY <1>5, GotoIsDo
  <2> HIDE DEF r
  <2> QED
    BY <1>3, <1>5, <2>2, <2>3
<1>6. ASSUME NEW a \in Actor, NEW row, NEW r \in Activity, Replace(a, row, r), r.kind # "recover",
             interrupted' = interrupted, faults' = faults
      PROVE  NoRecovery'
  <2>1. act'[a] = r /\ \A b \in Actor \ {a} : act'[b].kind = act[b].kind
    <3>1. act'[a] = r /\ \A b \in Actor \ {a} : act'[b] = Passed(b)
      BY <1>1, <1>6, Replacing
    <3> QED
      BY <1>1, <3>1, Passing
  <2> QED
    BY <1>2, <1>6, <2>1 DEF NoRecovery
<1>7. ASSUME NEW a \in Actor, ChangeJob(a)
      PROVE  NoRecovery'
  <2>1. interrupted' = interrupted /\ faults' = faults
    BY <1>7 DEF ChangeJob, Upsert, InstallUnits, InstallEnable, Remove, bounds
  <2>2. Done(a) \/ Goto(a, "install") \/ Goto(a, "enable")
    BY <1>7 DEF ChangeJob, Upsert, InstallUnits, InstallEnable, Remove
  <2> QED
    BY <1>4, <1>5, <2>1, <2>2 DEF Steps, Arming
<1>8. ASSUME NEW c \in Command, UserBegins(c)
      PROVE  NoRecovery'
  <2>1. PICK r \in Activity : Begin(c, r) /\ r.kind # "recover"
    BY <1>8, Beginning
  <2>2. Do(c, r) /\ interrupted' = interrupted /\ faults' = faults
    BY <2>1 DEF Begin
  <2> QED
    BY <1>1, <1>3, <2>1, <2>2
<1>9. ASSUME NEW c \in Command, ReadAgain(c)
      PROVE  NoRecovery'
  <2>1. interrupted' = interrupted /\ faults' = faults /\ act[c] \in Activity /\ act[c].kind = "default"
    BY <1>1, <1>9 DEF ReadAgain, bounds, Saving
  <2>2. CASE Enrolled(config)
    <3> PICK l \in BOOLEAN : ~l
      OBVIOUS
    <3> DEFINE r == Reread(act[c], "save", config, l)
    <3>1. r = About("save", act[c].kind, config, act[c].want, l)
      BY <2>1, Renewed
    <3>2. Do(c, r)
      BY <1>9, <2>2 DEF ReadAgain, Reread
    <3>3. act[c].want \in Suggestion /\ config \in Row \cup {NoConfig}
      BY <2>1, Fields DEF Typed, TypeOK
    <3>4. r \in Activity /\ r.kind # "recover"
      BY <2>1, <3>1, <3>3 DEF About, Activity, Steps, Holding
    <3> HIDE DEF r
    <3> QED
      BY <1>1, <1>3, <2>1, <3>2, <3>4
  <2>3. CASE ~Enrolled(config)
    BY <1>1, <1>4, <1>9, <2>1, <2>3 DEF ReadAgain
  <2> QED
    BY <2>2, <2>3
<1>10. ASSUME NEW c \in Command, Save(c)
       PROVE  NoRecovery'
  <2>1. Replace(c, Changed(act[c]), Saved(act[c])) /\ act[c].pc = "save" /\ interrupted' = interrupted /\ faults' = faults
    BY <1>10 DEF Save, Saved, bounds
  <2>2. Saved(act[c]) \in Activity /\ Saved(act[c]).kind = "none"
    BY <1>1, <2>1, AfterSave
  <2> QED
    BY <1>1, <1>6, <2>1, <2>2
<1>11. ASSUME Enroll
       PROVE  NoRecovery'
  <2>1. interrupted' = interrupted /\ faults' = faults /\ \A b \in Actor : act'[b] = Passed(b)
    BY <1>11 DEF Enroll
  <2>2. \A b \in Actor : act'[b].kind = act[b].kind
    BY <1>1, <2>1, Passing
  <2> QED
    BY <1>2, <2>1, <2>2 DEF NoRecovery
<1>12. ASSUME SyncBegin
       PROVE  NoRecovery'
  <2> PICK l \in BOOLEAN : ~l
    OBVIOUS
  <2>1. Restarted(Idle, "fetch", "sync", config) = About("fetch", "sync", config, NoCalendar, l)
    BY Started
  <2>2. Do("sync", Restarted(Idle, "fetch", "sync", config)) /\ interrupted' = interrupted /\ faults' = faults
    BY <1>12 DEF SyncBegin, Restarted, bounds
  <2>3. LET r == About("fetch", "sync", config, NoCalendar, l)
        IN  r \in Activity /\ r.kind # "recover"
    BY DEF About, Activity, Steps, Holding, Running, Suggestion, Typed, TypeOK
  <2> QED
    BY <1>1, <1>3, <2>1, <2>2, <2>3
<1>13. ASSUME SyncFetch
       PROVE  NoRecovery'
  <2>1. interrupted' = interrupted /\ faults' = faults /\ sync \in Activity
    BY <1>1, <1>13 DEF SyncFetch, bounds, sync
  <2>2. CASE Done("sync")
    BY <1>1, <1>4, <2>1, <2>2
  <2>3. CASE ~Done("sync")
    <3>1. Rewanted(sync, "run", suggested) = About("run", sync.kind, sync.copy, suggested, sync.late)
      BY <2>1, Renewed
    <3>2. Do("sync", Rewanted(sync, "run", suggested))
      BY <1>13, <2>3 DEF SyncFetch, Rewanted
    <3>3. /\ sync.copy \in Row \cup {NoConfig} /\ sync.late \in BOOLEAN /\ suggested \in Suggestion
          /\ sync.kind \in {"none", "set", "default", "remove", "policy", "unenroll", "sync", "recover"}
      BY <2>1, Fields DEF Typed, TypeOK
    <3>4. LET r == About("run", sync.kind, sync.copy, suggested, sync.late)
          IN  r \in Activity /\ r.kind = sync.kind
      BY <3>3 DEF About, Activity, Steps, Holding, Running
    <3> QED
      BY <1>1, <1>3, <2>1, <3>1, <3>2, <3>4 DEF sync
  <2> QED
    BY <2>2, <2>3
<1>14. ASSUME RecoverBegin
       PROVE  NoRecovery'
  <2>1. faults # 0 /\ faults' = faults
    BY <1>2, <1>14 DEF RecoverBegin, bounds
  <2> QED
    BY <2>1 DEF NoRecovery
<1>15. ASSUME RunFails \/ RunConverges \/ Inspect
       PROVE  NoRecovery'
  <2>1. interrupted' \in {interrupted, {}} /\ faults' = faults
    BY <1>15 DEF RunFails, RunConverges, Inspect, bounds
  <2>2. Done("sync") \/ Goto("sync", "persist") \/ Goto("sync", "upsert")
    BY <1>15 DEF RunFails, RunConverges, Inspect
  <2> QED
    BY <1>1, <1>4, <1>5, <2>1, <2>2 DEF Steps, Arming, Holding, Running
<1>16. ASSUME Persist
       PROVE  NoRecovery'
  <2>1. sync \in Activity /\ sync.copy \in Row
    BY <1>1, <1>16 DEF Persist, sync, Saving, Holding, Running
  <2>2. Reconcile \in Activity /\ Reconcile.kind # "recover"
    BY <2>1, Reconciling
  <2>3. /\ Replace("sync", [sync.copy EXCEPT !.default = sync.want], Reconcile)
        /\ interrupted' = interrupted /\ faults' = faults
    BY <1>16 DEF Persist, bounds
  <2> QED
    BY <1>1, <1>6, <2>2, <2>3
<1>17. ASSUME NEW a \in Actor, Stop(a)
       PROVE  NoRecovery'
  BY <1>1, <1>17 DEF Stop, Fault, NoRecovery
<1>18. ASSUME EditJob \/ Suggest \/ UNCHANGED vars
       PROVE  NoRecovery'
  <2>1. UNCHANGED <<interrupted, faults, act>>
    BY <1>18 DEF EditJob, Suggest, vars, bounds
  <2> QED
    BY <1>2, <2>1 DEF NoRecovery
<1> QED
  BY <1>1, <1>7, <1>8, <1>9, <1>10, <1>11, <1>12, <1>13, <1>14, <1>15, <1>16, <1>17, <1>18
  DEF Next, CommandStep, SyncStep

\* As long as nobody has written from an older row, every step keeps to the
\* decision.
LEMMA ApartKept ==
  ASSUME Inv, [Next]_vars, ~overlapped'
  PROVE  Apart'
<1>1. /\ Command \subseteq Actor /\ "sync" \in Actor
  BY DEF Actor
<1>2. ASSUME \/ \E c \in Command : UserBegins(c) \/ ReadAgain(c)
             \/ SyncBegin \/ SyncFetch \/ RecoverBegin \/ RunFails \/ RunConverges \/ Inspect
             \/ \E a \in Actor : Upsert(a) \/ Stop(a)
      PROVE  Apart'
  BY <1>2, ApartThinking
<1>3. ASSUME EditJob \/ \E a \in Actor : InstallUnits(a) \/ InstallEnable(a) \/ Remove(a)
      PROVE  Apart'
  BY <1>3, ApartChanging
<1>4. ASSUME Enroll \/ Persist \/ \E c \in Command : Save(c)
      PROVE  Apart'
  BY <1>4, ApartWriting
<1>5. ASSUME Suggest \/ UNCHANGED vars
      PROVE  Apart'
  <2>1. UNCHANGED <<config, job, act, faults, chosen, overlapped, handArmed>>
    BY <1>5 DEF Suggest, vars, history, bounds
  <2> QED
    BY <2>1 DEF Inv, Apart, DecisionKept, ArmedIsAsked, Armed
<1> QED
  BY <1>1, <1>2, <1>3, <1>4, <1>5 DEF Next, CommandStep, SyncStep, ChangeJob

-----------------------------------------------------------------------------
(* The theorems.                                                           *)

\* The inductive invariant holds initially, ...
LEMMA InvInit == ASSUME Init PROVE Inv
<1>1. /\ act \in [Actor -> Activity] /\ \A a \in Actor : act[a] = Idle
  BY IdleIsIdle DEF Init
<1>2. "sync" \in Actor /\ Idle.pc = "idle" /\ Idle.kind = "none" /\ Saving(Idle)
  BY IdleIsIdle DEF Actor
<1>3. Fresh \in Row /\ NoJob \in [state : {"absent", "off", "armed"}, calendar : Suggestion, bound : BOOLEAN]
      /\ NoJob.state = "absent"
  BY DEF Fresh, Row, Override, Suggestion, NoJob
<1>4. TypeOK
  <2>1. /\ config \in Row /\ suggested \in Suggestion /\ interrupted = {}
        /\ job \in [state : {"absent", "off", "armed"}, calendar : Suggestion, bound : BOOLEAN]
        /\ commands = 0 /\ edits = 0 /\ faults = 0 /\ revisions = 0
    BY <1>3 DEF Init
  <2>2. overlapped \in BOOLEAN /\ handArmed \in BOOLEAN /\ stayedOff \in BOOLEAN
    BY DEF Init
  <2> QED
    BY <1>1, <2>1, <2>2 DEF TypeOK
<1>5. OffStays /\ NoRecovery
  BY <1>1, <1>2 DEF Init, OffStays, NoRecovery, sync, Arming
<1>6. Apart
  BY <1>1, <1>2, <1>3, GoodAside DEF Init, Apart, DecisionKept, ArmedIsAsked, Armed
<1> QED
  BY <1>1, <1>2, <1>4, <1>5, <1>6 DEF Inv

\* ... every step keeps it, ...
LEMMA InvNext == ASSUME Inv, [Next]_vars PROVE Inv'
<1>1. Typed /\ OffStays /\ NoRecovery
  BY DEF Inv, Typed
<1>2. Typed'
  BY <1>1, TypesKept
<1>3. OffStays' /\ NoRecovery'
  BY <1>1, OffStaysKept, NoRecoveryKept
<1>4. ~overlapped' => Apart'
  BY ApartKept
<1> QED
  BY <1>2, <1>3, <1>4 DEF Inv, Typed

\* ... so it always holds.
LEMMA Invariance == Spec => []Inv
  BY InvInit, InvNext, PTL DEF Spec

\* The variables keep their types, the rows and jobs those of the code
\* (FollowerSynchronizationConfiguration, the state of a native job).
THEOREM TypeCorrect == Spec => []TypeOK
<1>1. Inv => TypeOK
  BY DEF Inv
<1> QED
  BY <1>1, Invariance, PTL

\* As long as nobody writes the row or the job from an older row
\* (saveFollowerSynchronizationConfiguration replaces the whole row), the
\* decision of the user is kept; and if nothing failed, an armed job runs at
\* the time it asks for, unless it was enabled outside Canonfig.
THEOREM JobsFollowTheDecision == Spec => []ApartFollowsDecision
<1>1. Inv => ApartFollowsDecision
  <2> SUFFICES ASSUME Inv, ~overlapped  PROVE ApartFollowsDecision
    BY DEF ApartFollowsDecision
  <2>1. DecisionKept /\ (faults = 0 => ArmedIsAsked)
    BY DEF Inv, Apart
  <2>2. Quiet => \A a \in Actor : act[a].pc \notin Mending
    BY DEF Quiet, Mending
  <2> QED
    BY <2>1, <2>2 DEF ApartFollowsDecision, ArmedIsAsked, Asked
<1> QED
  BY <1>1, Invariance, PTL

\* ScheduleManager.reconcile renders only an armed job again: a run never arms
\* one that was off when it began, unless somebody armed it in between.
THEOREM JobsTurnedOffStayOff == Spec => OffStaysOff
<1>1. Inv /\ [Next]_vars =>
        [stayedOff /\ (Persist \/ Inspect \/ ChangeJob("sync")) => ~Armed']_vars
  <2> SUFFICES ASSUME Inv, [Next]_vars, stayedOff /\ (Persist \/ Inspect \/ ChangeJob("sync"))
               PROVE  ~Armed'
    OBVIOUS
  <2>1. Typed /\ OffStays
    BY DEF Inv, Typed
  <2> QED
    BY <2>1, OffStaysKept
<1> QED
  BY <1>1, Invariance, PTL DEF Spec, OffStaysOff

===============================================================================
