------------------------------- MODULE Planner -------------------------------
(***************************************************************************)
(* The plan of a synchronization run (synchronization/planner.ts): which   *)
(* resources are written, removed, left or handed to a human, and in which *)
(* order.  A plan is made for any revision and any state of the machine,   *)
(* and its actions are then executed one by one.                           *)
(*                                                                         *)
(* Abstractions: every resource is a file under `replace-if-unmodified`    *)
(* (resource-plans.ts), a content is a name, and a resource has one action *)
(* at most, so an action goes by its resource.  Transfers, modes, links,   *)
(* tools and credentials are left out; cycles and duplicates, which the    *)
(* planner refuses, are not among the inputs.  A directory is there as     *)
(* long as a file is in it.  A write under or over a file fails, as in     *)
(* resource-executors.ts; what happens when a run fails or stops is in     *)
(* SynchronizationRun.tla.                                                 *)
(***************************************************************************)
EXTENDS Naturals, SequencesExt

CONSTANTS
  Resource,  \* the resources, by the order of their ids
  Path,
  Above,     \* the directories above each path, as far as they are paths
  Content,   \* what a file may hold, the user's own contents included
  Before,    \* what earlier revisions may have applied
  Desired    \* the content each active resource shall have

Absent == "absent"
Never == "never applied"

ASSUME ConstantsAssumption ==
  /\ Resource \subseteq Nat
  /\ Above \in [Path -> SUBSET Path]
  /\ Before \subseteq Content
  /\ Desired \in [Resource -> Content]
  /\ {Absent, Never, "directory", "unverifiable"} \cap Content = {}

VARIABLES
  target,     \* the path of each resource
  dependsOn,  \* the resources each one depends on
  retired,    \* removedResources of the revision
  applied,    \* the content each resource was last applied with
  seen,       \* the content of each path when the plan was made
  plan,       \* the actions that are left
  file,       \* the content of each path
  outcome

revision == <<target, dependsOn, retired, applied>>
vars == <<revision, seen, plan, file, outcome>>

Active == Resource \ retired

-----------------------------------------------------------------------------
(* The order of the resources.                                             *)

InOrder == [ids \in SUBSET Resource |-> SetToSortSeq(ids, LAMBDA i, j : i < j)]

\* visit: a resource follows what it depends on.
RECURSIVE Visit(_, _)
Visit(ordered, id) ==
  IF id \in ToSet(ordered) THEN ordered
  ELSE Append(FoldLeft(Visit, ordered, InOrder[dependsOn[id]]), id)

\* orderResources.
Ordered == FoldLeft(Visit, <<>>, InOrder[Resource])

RECURSIVE Needed(_)
Needed(ids) ==
  LET more == ids \cup (Active \cap UNION {dependsOn[id] : id \in ids}) IN
  IF more = ids THEN ids ELSE Needed(more)

\* Mutant: what the active resources run early depend on is forgotten.
MutantEarly == Active \cap UNION {dependsOn[id] : id \in retired}

\* runEarly: the active resources that a retirement waits for.
Early == Needed(Active \cap UNION {dependsOn[id] : id \in retired})

\* The order of buildPlan's loop.
Schedule ==
  LET ordered == Ordered
      early == Early
      Those(ids) == SelectSeq(ordered, LAMBDA r : r \in ids)
      late == {r \in retired : dependsOn[r] # {}} IN
  Those(retired \ late) \o Those(early) \o Those(late) \o Those(Active \ early)

-----------------------------------------------------------------------------
(* What is to be done about one resource.                                  *)

Overlap(p, q) == p = q \/ p \in Above[q] \/ q \in Above[p]

\* observeFile: what is at the place of a resource.  Below a file, reading
\* fails with an error that is not taken for absence.
Observed(r) ==
  CASE \E p \in Path : target[r] \in Above[p] /\ seen[p] # Absent -> "directory"
    [] \E p \in Above[target[r]] : seen[p] # Absent -> "unverifiable"
    [] OTHER -> seen[target[r]]

\* Mutant: planning against the machine as it is, whatever is removed before.
MutantProjected(r, gone) == Observed(r)

\* The observation of an active resource after the removals before it.
Projected(r, gone) ==
  IF gone \cap ({target[r]} \cup Above[target[r]]) # {} THEN Absent ELSE Observed(r)

\* Mutant: the user's edits of a retired file are not looked for.
MutantRemoval(r) == {"remove"}

\* planRemoved, and the review of what an active resource takes over.
Removal(r) ==
  LET owned == applied[r] # Never /\ Observed(r) \in {Absent, applied[r]}
      successors == {n \in Active : Overlap(target[r], target[n])}
  IN IF owned THEN {"remove"}
     ELSE IF successors # {} /\ Observed(r) # Absent THEN {"human"} ELSE {}

\* planReplaceIfUnmodified.
Update(r, gone) ==
  LET observed == Projected(r, gone) IN
  CASE observed = Desired[r] -> {"keep"}
    [] observed = Absent -> {"write"}
    [] observed = applied[r] -> {"write"}
    [] observed = "unverifiable" -> {"human"}
    [] OTHER -> {"drift"}

\* One round of buildPlan's loop; `gone` are the removedPaths.
PlanOne(acc, r) ==
  LET kinds == IF r \in retired THEN Removal(r) ELSE Update(r, acc.gone) IN
  [actions |-> acc.actions \o SetToSeq({[resource |-> r, kind |-> k] : k \in kinds}),
   gone |-> acc.gone \cup IF r \in retired /\ "remove" \in kinds THEN {target[r]} ELSE {}]

Plan == FoldLeft(PlanOne, [actions |-> <<>>, gone |-> {}], Schedule).actions

-----------------------------------------------------------------------------
(* The inputs, and the execution of the plan.                              *)

\* Without cycles: of any resources, one depends on none of the others.
Acyclic ==
  {d \in [Resource -> SUBSET Resource] :
     \A S \in SUBSET Resource \ {{}} : \E r \in S : d[r] \cap S = {}}

\* Places that files can be at: none is below another.
Files == {f \in [Path -> {Absent} \cup Content] :
            \A p \in Path : f[p] # Absent => \A q \in Above[p] : f[q] = Absent}

\* A revision retires what was applied, its active resources depend on
\* active ones and have places of their own.
Inputs ==
  /\ retired \in SUBSET Resource
  /\ target \in [Resource -> Path]
  /\ \A r, n \in Active : r # n => ~Overlap(target[r], target[n])
  /\ applied \in [Resource -> {Never} \cup Before]
  /\ \A r \in retired : applied[r] # Never
  /\ seen \in Files

Init ==
  /\ Inputs
  /\ dependsOn \in Acyclic
  /\ \A r \in Active : dependsOn[r] \subseteq Active
  /\ file = seen
  /\ plan = <<>>
  /\ outcome = "planning"

MakePlan ==
  /\ outcome = "planning"
  /\ plan' = Plan
  /\ outcome' = "running"
  /\ UNCHANGED <<revision, seen, file>>

Execute(kind) ==
  /\ outcome = "running"
  /\ plan # <<>>
  /\ Head(plan).kind = kind
  /\ plan' = Tail(plan)
  /\ UNCHANGED <<revision, seen>>

\* A file that is in the way of one at p.
Blocked(p) == \E q \in Path : file[q] # Absent /\ (p \in Above[q] \/ q \in Above[p])

Write ==
  /\ Execute("write")
  /\ LET r == Head(plan).resource IN
     IF Blocked(target[r]) THEN outcome' = "failed" /\ UNCHANGED file
     ELSE file' = [file EXCEPT ![target[r]] = Desired[r]] /\ UNCHANGED outcome

RemoveFile ==
  /\ Execute("remove")
  /\ file' = [file EXCEPT ![target[Head(plan).resource]] = Absent]
  /\ UNCHANGED outcome

Keep == Execute("keep") /\ UNCHANGED <<file, outcome>>

\* Drift and questions for a human end the run before the next action.
Stop ==
  /\ Execute("human") \/ Execute("drift")
  /\ outcome' = "stopped"
  /\ UNCHANGED file

Converge ==
  /\ outcome = "running"
  /\ plan = <<>>
  /\ outcome' = "converged"
  /\ UNCHANGED <<revision, seen, plan, file>>

Next == MakePlan \/ Write \/ RemoveFile \/ Keep \/ Stop \/ Converge
Spec == Init /\ [][Next]_vars

-----------------------------------------------------------------------------
(* Properties.                                                             *)

\* No resource that runs before the retirements that wait is where one of
\* them is: such a retirement would remove what was just written.
NoLateHandover ==
  \A r \in retired, n \in Early : dependsOn[r] # {} => ~Overlap(target[r], target[n])

\* No write of a plan meets a file in its way, and a run that ends well has
\* every active resource in place with its content, and nothing is left of a
\* retired one that was as Canonfig had applied it, whatever paths the
\* revision hands from one owner to another.
ConvergedIsDesired ==
  /\ outcome # "failed"
  /\ outcome = "converged" /\ NoLateHandover =>
       /\ \A r \in Active : file[target[r]] = Desired[r]
       /\ \A r \in retired : seen[target[r]] = applied[r] =>
            \/ file[target[r]] = Absent
            \/ \E n \in Active : target[n] = target[r]

\* When a retired resource is removed, everything it waits for, and what
\* that waits for, is in place: drift there leaves the retired one alone.
RetiredAfterReplacement ==
  [][RemoveFile /\ NoLateHandover =>
       \A n \in Needed(Active \cap dependsOn[Head(plan).resource]) :
         file[target[n]] = Desired[n]]_vars

\* No action overwrites or removes a content that is neither absent nor one
\* that Canonfig applied or is to apply at that path.
EditsAreKept ==
  [][\A p \in Path : file'[p] # file[p] =>
       \/ file[p] = Absent
       \/ \E r \in Resource : target[r] = p /\ file[p] \in {applied[r], Desired[r]}]_vars
=============================================================================
