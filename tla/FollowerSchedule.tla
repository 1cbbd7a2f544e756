--------------------------- MODULE FollowerSchedule ---------------------------
(***************************************************************************)
(* The native synchronization job of a follower.  What the job should be   *)
(* is a decision in the follower's configuration row; `schedule set` and   *)
(* `schedule remove` (src/src/runtime/layers.ts) change the row and then   *)
(* the job, `agent policy set` and `unenroll` change the row, and a run of *)
(* `sync --apply` or `recover` (synchronization/follower-orchestration.ts) *)
(* writes the row back, with the schedule the profile suggests, when it    *)
(* converged, and then reconciles the job (schedule/schedule-manager.      *)
(* layer.ts).  Every writer saves the whole row it read when it began, and *)
(* only the runs hold the run lock.                                        *)
(*                                                                         *)
(* Abstractions: a calendar is a name; the job's `off` stands for disabled *)
(* and for stopped; native overrides, the macOS time zone and custom       *)
(* executables are left out; enrolling is one step (Enrollment.tla), and   *)
(* so is what a run does to files (SynchronizationRun.tla).  Installing a  *)
(* job stops it, writes it and then enables it, as the systemd backend of  *)
(* machine/linux.layer.ts does.                                            *)
(***************************************************************************)
EXTENDS Naturals

CONSTANTS
  Calendar,      \* the schedules one can choose
  Command,       \* commands of the user that may be in progress at once
  NoConfig,      \* the row of a machine that is not enrolled
  MaxCommands,   \* bound: commands
  MaxEdits,      \* bound: changes of the job outside Canonfig
  MaxFaults,     \* bound: errors and kills
  MaxRevisions   \* bound: changes of the suggested schedule

NoCalendar == "no calendar"

Suggestion == Calendar \cup {NoCalendar}
Override == {"undecided", "inherit", "off"} \cup Calendar
Row == [override : Override, policy : {"deterministic", "agent"}, default : Suggestion]

ASSUME ConstantsAssumption ==
  /\ Calendar # {} /\ {NoCalendar, "undecided", "inherit", "off"} \cap Calendar = {}
  /\ "sync" \notin Command
  /\ NoConfig \notin Row
  /\ {MaxCommands, MaxEdits, MaxFaults, MaxRevisions} \subseteq Nat

VARIABLES
  config,      \* follower_sync_configuration: the row, or NoConfig
  job,         \* the native job
  suggested,   \* the scheduleDefault of the latest revision
  interrupted, \* the scheduleDefaults of runs left open: a set of one at most
  act,         \* what each command and the run in progress is about
  commands, edits, faults, revisions,
  chosen,      \* history: the decision that the user saved last
  overlapped,  \* history: somebody wrote the row or the job from an older row
  handArmed,   \* history: the job is armed, and was enabled outside Canonfig
  stayedOff    \* history: the job is not armed since the current run began

history == <<chosen, overlapped, handArmed, stayedOff>>
bounds == <<commands, edits, faults, revisions>>
vars == <<config, job, suggested, interrupted, act, bounds, history>>

Actor == Command \cup {"sync"}

\* Who has read which row, what job it wants and what comes next; and, as
\* history, whether somebody else has changed the row since it was read.
Idle == [pc |-> "idle", kind |-> "none", copy |-> NoConfig, want |-> NoCalendar,
         late |-> FALSE]

Enrolled(row) == row # NoConfig
Decision(row) ==
  IF Enrolled(row) THEN [override |-> row.override, policy |-> row.policy] ELSE NoConfig
Fresh == [override |-> "undecided", policy |-> "deterministic", default |-> NoCalendar]
Armed == job.state = "armed"
NoJob == [state |-> "absent", calendar |-> NoCalendar, bound |-> TRUE]

Fault == faults < MaxFaults /\ faults' = faults + 1
Do(a, activity) == act' = [act EXCEPT ![a] = activity]
Goto(a, to) == act' = [act EXCEPT ![a].pc = to]
Done(a) == act' = [act EXCEPT ![a] = Idle]

Init ==
  /\ config = Fresh
  /\ job = NoJob
  /\ suggested \in Suggestion
  /\ interrupted = {}
  /\ act = [a \in Actor |-> Idle]
  /\ commands = 0 /\ edits = 0 /\ faults = 0 /\ revisions = 0
  /\ chosen = Decision(Fresh)
  /\ overlapped = FALSE /\ handArmed = FALSE /\ stayedOff = FALSE

-----------------------------------------------------------------------------
(* What the job should be, and what is said of the one that is there.      *)

\* desiredScheduleInput: the calendar chosen, or the one suggested to those
\* that inherit; NoCalendar when there should be no managed job.
Desired(override, default) ==
  IF override \in Calendar THEN override
  ELSE IF override = "inherit" THEN default ELSE NoCalendar

\* stateOf: a job that is not armed is never said to have drifted.
Status(want) ==
  CASE job.state = "absent" -> "not-installed"
    [] job.state = "off" -> "disabled"
    [] OTHER -> IF job.calendar = want /\ job.bound THEN "current" ELSE "drifted"

-----------------------------------------------------------------------------
(* Changing the job, for commands and runs alike.                          *)

\* An actor writes the row or the job although its own row is an older one.
Stale(a) == overlapped' = (overlapped \/ act[a].late)

\* upsert: a job that is current stays as it is.
Upsert(a) ==
  /\ act[a].pc = "upsert"
  /\ IF Status(act[a].want) = "current" THEN Done(a) ELSE Goto(a, "install")
  /\ UNCHANGED <<config, job, suggested, interrupted, bounds, history>>

\* installSchedulerJob writes the units and stops the timer ...
InstallUnits(a) ==
  /\ act[a].pc = "install"
  /\ job' = [state |-> "off", calendar |-> act[a].want, bound |-> TRUE]
  /\ handArmed' = FALSE
  /\ Stale(a)
  /\ Goto(a, "enable")
  /\ UNCHANGED <<config, suggested, interrupted, bounds, chosen, stayedOff>>

\* ... and then enables it, if the units are still there.
InstallEnable(a) ==
  /\ act[a].pc = "enable"
  /\ job' = IF job.state = "absent" THEN job ELSE [job EXCEPT !.state = "armed"]
  /\ handArmed' = FALSE
  /\ stayedOff' = (stayedOff /\ a = "sync")
  /\ Stale(a)
  /\ Done(a)
  /\ UNCHANGED <<config, suggested, interrupted, bounds, chosen>>

\* ScheduleManager.remove.
Remove(a) ==
  /\ act[a].pc = "remove"
  /\ job' = NoJob
  /\ handArmed' = FALSE
  /\ Stale(a)
  /\ Done(a)
  /\ UNCHANGED <<config, suggested, interrupted, bounds, chosen, stayedOff>>

-----------------------------------------------------------------------------
(* The user's commands: read the row, save it changed, then the job.       *)

Begin(c, activity) ==
  /\ act[c].pc = "idle"
  /\ commands < MaxCommands
  /\ commands' = commands + 1
  /\ Do(c, activity)
  /\ UNCHANGED <<config, job, suggested, interrupted, edits, faults, revisions, history>>

\* `schedule set <calendar>`, or an `agent policy set`.
SetSchedule(c, calendar) ==
  /\ Enrolled(config)
  /\ Begin(c, [pc |-> "save", kind |-> "set", copy |-> config, want |-> calendar,
               late |-> FALSE])

SetAgentPolicy(c) ==
  /\ Enrolled(config)
  /\ Begin(c, [pc |-> "save", kind |-> "policy", copy |-> config, want |-> NoCalendar,
               late |-> FALSE])

\* `schedule set --default` reads the default, and then the row again, which
\* it saves; what it installs is the default it read first.
SetDefault(c) ==
  /\ Enrolled(config) /\ config.default # NoCalendar
  /\ Begin(c, [pc |-> "read", kind |-> "default", copy |-> config,
               want |-> config.default, late |-> FALSE])

ReadAgain(c) ==
  /\ act[c].pc = "read"
  /\ IF Enrolled(config)
     THEN /\ Do(c, [act[c] EXCEPT !.pc = "save", !.copy = config, !.late = FALSE])
          /\ overlapped' = (overlapped \/ act[c].want # config.default)
     ELSE Done(c) /\ UNCHANGED overlapped
  /\ UNCHANGED <<config, job, suggested, interrupted, bounds, chosen, handArmed, stayedOff>>

\* `schedule remove` removes the job of a machine that is not enrolled, too.
RemoveSchedule(c) ==
  Begin(c, [pc |-> IF Enrolled(config) THEN "save" ELSE "remove", kind |-> "remove",
            copy |-> config, want |-> NoCalendar, late |-> FALSE])

Unenroll(c) ==
  /\ Enrolled(config)
  /\ Begin(c, [pc |-> "save", kind |-> "unenroll", copy |-> config, want |-> NoCalendar,
               late |-> FALSE])

\* What a command saves: the row it read, with its own field changed.
Changed(activity) ==
  LET row == activity.copy IN
  CASE activity.kind = "set" -> [row EXCEPT !.override = activity.want]
    [] activity.kind = "default" -> [row EXCEPT !.override = "inherit"]
    [] activity.kind = "remove" -> [row EXCEPT !.override = "off"]
    [] activity.kind = "policy" ->
         [row EXCEPT !.policy = IF @ = "agent" THEN "deterministic" ELSE "agent"]
    [] activity.kind = "unenroll" -> NoConfig

\* What the command then does to the job.
Then(kind) ==
  CASE kind \in {"set", "default"} -> "upsert"
    [] kind = "remove" -> "remove"
    [] OTHER -> "idle"

\* The row is replaced, and who else has read it has an older one.
Passed(b) == [act[b] EXCEPT !.late = act[b].pc # "idle" /\ (@ \/ config' # config)]

Replace(a, row, activity) ==
  /\ config' = row
  /\ act' = [b \in Actor |-> IF b = a THEN activity ELSE Passed(b)]

Save(c) ==
  /\ act[c].pc = "save"
  /\ LET row == Changed(act[c]) IN
     /\ Replace(c, row,
          IF Then(act[c].kind) = "idle" THEN Idle
          ELSE [Idle EXCEPT !.pc = Then(act[c].kind), !.want = act[c].want])
     /\ chosen' = Decision(row)
  /\ Stale(c)
  /\ UNCHANGED <<job, suggested, interrupted, bounds, handArmed, stayedOff>>

\* `follower enroll`, in one step: a new row with no decision.
Enroll ==
  /\ ~Enrolled(config)
  /\ commands < MaxCommands
  /\ commands' = commands + 1
  /\ config' = Fresh
  /\ act' = [b \in Actor |-> Passed(b)]
  /\ chosen' = Decision(Fresh)
  /\ UNCHANGED <<job, suggested, interrupted, edits, faults, revisions,
                 overlapped, handArmed, stayedOff>>

-----------------------------------------------------------------------------
(* A run: `sync --apply`, or `recover` of an interrupted one.              *)

sync == act["sync"]

SyncBegin ==
  /\ sync.pc = "idle"
  /\ Enrolled(config)
  /\ Do("sync", [Idle EXCEPT !.pc = "fetch", !.kind = "sync", !.copy = config])
  /\ stayedOff' = ~Armed
  /\ UNCHANGED <<config, job, suggested, interrupted, bounds, chosen, overlapped, handArmed>>

\* The revision is fetched and its run started, unless one is open.
SyncFetch ==
  /\ sync.pc = "fetch"
  /\ IF interrupted # {} THEN Done("sync")
     ELSE Do("sync", [sync EXCEPT !.pc = "run", !.want = suggested])
  /\ UNCHANGED <<config, job, suggested, interrupted, bounds, history>>

RecoverBegin ==
  /\ sync.pc = "idle"
  /\ Enrolled(config)
  /\ \E default \in interrupted :
       Do("sync", [pc |-> "run", kind |-> "recover", copy |-> config, want |-> default,
                   late |-> FALSE])
  /\ stayedOff' = ~Armed
  /\ UNCHANGED <<config, job, suggested, interrupted, bounds, chosen, overlapped, handArmed>>

\* The run ends without having converged: nothing else happens.
RunFails ==
  /\ sync.pc = "run"
  /\ Done("sync")
  /\ interrupted' = {}
  /\ UNCHANGED <<config, job, suggested, bounds, history>>

RunConverges ==
  /\ sync.pc = "run"
  /\ Goto("sync", "persist")
  /\ interrupted' = {}
  /\ UNCHANGED <<config, job, suggested, bounds, history>>

\* Mutant: the job is reconciled with the default the row had before.
MutantReconcile ==
  LET desired == Desired(sync.copy.override, sync.copy.default) IN
  IF sync.kind = "recover" \/ sync.copy.override = "off" THEN Idle
  ELSE IF desired # NoCalendar THEN [Idle EXCEPT !.pc = "inspect", !.want = desired]
  ELSE IF sync.copy.override = "inherit" THEN [Idle EXCEPT !.pc = "remove"]
  ELSE Idle

\* Mutant: only a job that follows the profile is looked at.
MutantReconcileInherited ==
  IF sync.kind = "recover" \/ sync.copy.override # "inherit" THEN Idle
  ELSE IF sync.want # NoCalendar THEN [Idle EXCEPT !.pc = "inspect", !.want = sync.want]
  ELSE [Idle EXCEPT !.pc = "remove"]

\* reconcileSchedule, with the row the run began with: which job to look
\* for, the removal of an inherited job whose default was withdrawn, or
\* nothing.  A recovery does not reconcile.
Reconcile ==
  LET desired == Desired(sync.copy.override, sync.want) IN
  IF sync.kind = "recover" \/ sync.copy.override = "off" THEN Idle
  ELSE IF desired # NoCalendar THEN [Idle EXCEPT !.pc = "inspect", !.want = desired]
  ELSE IF sync.copy.override = "inherit" THEN [Idle EXCEPT !.pc = "remove"]
  ELSE Idle

\* persistProfileScheduleDefault: the row the run began with, whatever the
\* table holds by now.
Persist ==
  /\ sync.pc = "persist"
  /\ Replace("sync", [sync.copy EXCEPT !.default = sync.want], Reconcile)
  /\ Stale("sync")
  /\ UNCHANGED <<job, suggested, interrupted, bounds, chosen, handArmed, stayedOff>>

\* Mutant: a job that is missing or disabled is put back.
MutantInspect ==
  /\ sync.pc = "inspect"
  /\ IF Status(sync.want) = "current" THEN Done("sync") ELSE Goto("sync", "upsert")
  /\ UNCHANGED <<config, job, suggested, interrupted, bounds, history>>

\* ScheduleManager.reconcile: only an armed job that drifted is rendered again.
Inspect ==
  /\ sync.pc = "inspect"
  /\ IF Status(sync.want) = "drifted" THEN Goto("sync", "upsert") ELSE Done("sync")
  /\ UNCHANGED <<config, job, suggested, interrupted, bounds, history>>

-----------------------------------------------------------------------------
(* What else happens.                                                      *)

\* A command or a run is killed, or a call it makes fails.
Stop(a) ==
  /\ act[a].pc # "idle"
  /\ Fault
  /\ Done(a)
  /\ interrupted' = IF a = "sync" /\ act[a].pc = "run" THEN {act[a].want} ELSE interrupted
  /\ UNCHANGED <<config, job, suggested, commands, edits, revisions, history>>

\* The user disables, deletes or enables the job with the native tools, or
\* the installation it names moves.
EditJob ==
  /\ job.state # "absent"
  /\ edits < MaxEdits
  /\ edits' = edits + 1
  /\ \/ job' = NoJob
     \/ Armed /\ job' = [job EXCEPT !.state = "off"]
     \/ ~Armed /\ job' = [job EXCEPT !.state = "armed"]
     \/ job.bound /\ job' = [job EXCEPT !.bound = FALSE]
  /\ handArmed' = (job'.state = "armed" /\ (handArmed \/ ~Armed))
  /\ stayedOff' = (stayedOff /\ job'.state # "armed")
  /\ UNCHANGED <<config, suggested, interrupted, act, commands, faults, revisions,
                 chosen, overlapped>>

\* A revision that suggests another schedule, or none.
Suggest ==
  /\ revisions < MaxRevisions
  /\ revisions' = revisions + 1
  /\ suggested' \in Suggestion \ {suggested}
  /\ UNCHANGED <<config, job, interrupted, act, commands, edits, faults, history>>

UserBegins(c) ==
  \/ \E calendar \in Calendar : SetSchedule(c, calendar)
  \/ SetDefault(c) \/ RemoveSchedule(c) \/ SetAgentPolicy(c) \/ Unenroll(c)

ChangeJob(a) == Upsert(a) \/ InstallUnits(a) \/ InstallEnable(a) \/ Remove(a)
CommandStep(c) == ReadAgain(c) \/ Save(c) \/ ChangeJob(c)
SyncStep ==
  SyncFetch \/ RunFails \/ RunConverges \/ Persist \/ Inspect \/ ChangeJob("sync")

Next ==
  \/ \E c \in Command : UserBegins(c) \/ CommandStep(c)
  \/ Enroll
  \/ SyncBegin \/ RecoverBegin \/ SyncStep
  \/ \E a \in Actor : Stop(a)
  \/ EditJob \/ Suggest

Spec == Init /\ [][Next]_vars

\* Runs are started again and again, by the job or by hand, an interrupted
\* one is recovered, every started command ends, and a run converges again
\* and again.  Nothing makes the user, the Source or an error act.
Fairness ==
  /\ WF_vars(SyncBegin) /\ SF_vars(RecoverBegin)
  /\ WF_vars(SyncStep) /\ SF_vars(RunConverges)
  /\ \A c \in Command : WF_vars(CommandStep(c))

FairSpec == Spec /\ Fairness

-----------------------------------------------------------------------------
Quiet == \A a \in Actor : act[a].pc = "idle"

\* The decision in the row is the one the user saved last.
DecisionKept == Decision(config) = chosen

\* As long as nobody writes from an older row, the decision is kept; and if no
\* command and no run failed either, an armed job that is managed, and that was
\* not enabled outside Canonfig, runs at the time the decision asks for.
ApartFollowsDecision ==
  ~overlapped =>
    /\ DecisionKept
    /\ Quiet /\ faults = 0 /\ Armed /\ ~handArmed /\ Enrolled(config) =>
         Desired(config.override, config.default) \in {job.calendar, NoCalendar}

\* A run never arms a job that was off when the run began, unless somebody
\* armed it in between: what the user turned off stays off.
OffStaysOff ==
  [][stayedOff /\ (Persist \/ Inspect \/ ChangeJob("sync")) => ~Armed']_vars

\* Once the user and the Source are done and runs converge, an armed job that
\* is managed comes to have the calendar and the binding it should.
DriftIsRepaired ==
  <>[](Armed /\ Enrolled(config) /\ Desired(config.override, config.default) # NoCalendar
         => Status(Desired(config.override, config.default)) = "current")
=============================================================================
