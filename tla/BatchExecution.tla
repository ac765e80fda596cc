---------------------------- MODULE BatchExecution ----------------------------
(* The run sheet of one fabrication batch: the status machine of the batch,   *)
(* its solution preparations and process executions, the memberships that     *)
(* split and merge move between them, and completion, which records actual    *)
(* substrate counts and attaches extra substrates                             *)
(* (src/web/repository/batch.py).                                             *)
(*                                                                            *)
(* Every handler holds the row of the batch FOR UPDATE, and has read the rows *)
(* it decides on under it or under their own locks, so a handler is one       *)
(* action.  The lock order, which is not the same everywhere, is the subject  *)
(* of RowLocks.                                                               *)
EXTENDS Integers, FiniteSets, FiniteSetsExt, Functions

CONSTANTS
    Conditions,      \* frozen conditions (fabrication_batch_conditions)
    Planned,         \* planned_substrate_count of each
    Steps,           \* process steps of the device layers
    LayerOf,         \* the layer ordinal of each step
    Processes,       \* process identities: method, layer context, parameters
    ProcessOf,       \* the process identity of each step
    Recipe,          \* the steps each condition's snapshot asks for
    Uses,            \* solution uses: a layer of a condition with a solution
    Solutions,       \* canonical hashes of solution snapshots
    SolutionOf,      \* the solution of each use
    Preparations,    \* ids of solution_preparations
    Executions,      \* ids of process_executions
    DeviationTypes,  \* deviation types users choose
    BatchLimit,      \* 99 substrates
    MaxCount,        \* bound: actual counts entered
    MaxDeviations,   \* bound: deviations entered by hand
    Actors,          \* active accounts
    Instructors,     \* those of rank instructor or above
    Owner,           \* experiments.created_by_id
    None             \* SQL NULL, or the absence of a row

BatchStatuses == {"draft", "ready", "in_progress", "completed", "cancelled"}
PreparationStatuses == {"planned", "preparing", "ready", "consumed",
                        "discarded"}
ExecutionStatuses == {"planned", "ready", "running", "completed", "failed",
                      "cancelled"}
RecordingModes == {"copied_from_plan", "entered"}

\* code is the number in the code of a row created by hand, 0 for the codes of
\* generated and split rows, which never clash.
PreparationRow == [solution: Solutions, status: PreparationStatuses,
                   actual: RecordingModes \cup {None}, code: Nat]
ExecutionRow == [process: Processes, status: ExecutionStatuses,
                 actual: RecordingModes \cup {None}, shared: BOOLEAN,
                 code: Nat]

Substrates == Conditions \X (Nat \ {0})
Members == [execution: Executions, substrate: Substrates, step: Steps]
ConditionOf(m) == m.substrate[1]

Targets == Preparations \cup Executions \cup Conditions \cup {None}
Deviations == [type: DeviationTypes \cup {"fabrication_shortfall"},
               target: Targets]

ASSUME RecipeType ==
    /\ Planned \in [Conditions -> Nat \ {0}]
    /\ Recipe \in [Conditions -> SUBSET Steps]
    /\ ProcessOf \in [Steps -> Processes]
    /\ SolutionOf \in [Uses -> Solutions]
ASSUME IdsAreFinite == IsFiniteSet(Preparations) /\ IsFiniteSet(Executions)
ASSUME NoneIsNotARow == None \notin PreparationRow \cup ExecutionRow
ASSUME NoneIsNoCount == None \notin Nat /\ None \notin RecordingModes
ASSUME TargetsAreDistinct ==
    /\ Preparations \cap (Executions \cup Conditions) = {}
    /\ Executions \cap Conditions = {}
    /\ None \notin Preparations \cup Executions \cup Conditions

VARIABLES
    status,      \* fabrication_batches.status
    prep,        \* solution_preparations
    useOf,       \* solution_preparation_uses: the preparation of each use
    exec,        \* process_executions
    members,     \* process_execution_members
    actual,      \* actual_substrate_count of each condition
    deviations   \* execution_deviations

vars == <<status, prep, useOf, exec, members, actual, deviations>>

Preps == {p \in Preparations : prep[p] # None}
Execs == {x \in Executions : exec[x] # None}
UsesOf(p) == {u \in Uses : useOf[u] = p}
MembersOf(x) == {m \in members : m.execution = x}

ConsumedOrDiscarded == {"consumed", "discarded"}
TerminalExecution == {"completed", "failed", "cancelled"}

\* Students write to the batches of their own plans only.
MayWrite(a) == a \in Instructors \/ a = Owner

BatchTransitions(current) ==
    CASE current = "draft"       -> {"ready", "cancelled"}
      [] current = "ready"       -> {"in_progress", "cancelled"}
      [] current = "in_progress" -> {"completed", "cancelled"}
      [] OTHER                   -> {}

PreparationTransitions(current) ==
    CASE current = "planned"   -> {"preparing", "ready", "discarded"}
      [] current = "preparing" -> {"ready", "discarded"}
      [] current = "ready"     -> {"consumed", "discarded"}
      [] OTHER                 -> {}

ExecutionTransitions(current) ==
    CASE current = "planned" -> {"ready", "running", "cancelled"}
      [] current = "ready"   -> {"running", "cancelled"}
      [] current = "running" -> {"completed", "failed", "cancelled"}
      [] OTHER               -> {}

UnknownPreparation(solution, code) ==  \* mutation: a status of its own
    [solution |-> solution, status |-> "new", actual |-> None, code |-> code]
PlannedPreparation(solution, code) ==
    [solution |-> solution, status |-> "planned", actual |-> None,
     code |-> code]

PlannedExecution(process, shared, code) ==
    [process |-> process, status |-> "planned", actual |-> None,
     shared |-> shared, code |-> code]

\* is_shared: the members come from more than one condition.
SpansConditions(M) == \E m, n \in M : ConditionOf(m) # ConditionOf(n)

-----------------------------------------------------------------------------
(* create_fabrication_batch groups the layers of all conditions: one          *)
(* preparation per solution, one execution per process identity, every        *)
(* substrate of every condition a member of the executions of its recipe.     *)

UsedSolutions == {SolutionOf[u] : u \in Uses}
Slots == UNION {{c} \X Recipe[c] : c \in Conditions}
UsedProcesses == {ProcessOf[slot[2]] : slot \in Slots}

GroupPreparations(group) ==
    /\ prep = [p \in Preparations |->
                 IF \E s \in UsedSolutions : group[s] = p
                 THEN PlannedPreparation(
                        CHOOSE s \in UsedSolutions : group[s] = p, 0)
                 ELSE None]
    /\ useOf = [u \in Uses |-> group[SolutionOf[u]]]

\* Here is_shared says that more than one layer of any condition is grouped.
GroupExecutions(group) ==
    /\ exec = [x \in Executions |->
                 IF \E o \in UsedProcesses : group[o] = x
                 THEN LET o == CHOOSE o \in UsedProcesses : group[o] = x
                      IN  PlannedExecution(
                            o,
                            \E s, t \in Slots :
                               s # t /\ ProcessOf[s[2]] = o
                                     /\ ProcessOf[t[2]] = o,
                            0)
                 ELSE None]
    /\ members =
         UNION {{[execution |-> group[ProcessOf[s]], substrate |-> <<c, n>>,
                  step |-> s] : n \in 1..Planned[c], s \in Recipe[c]} :
                  c \in Conditions}

Total(counts) == MapThenSumSet(LAMBDA c : counts[c], Conditions)

Init ==
    /\ Total(Planned) <= BatchLimit
    /\ status = "draft"
    /\ \E group \in Injection(UsedSolutions, Preparations) :
          GroupPreparations(group)
    /\ \E group \in Injection(UsedProcesses, Executions) :
          GroupExecutions(group)
    /\ actual = [c \in Conditions |-> None]
    /\ deviations = {}

-----------------------------------------------------------------------------
(* Solution preparations.                                                    *)

\* Open batches accept recordings, draft ones also take new groupings.
Recordable == status \in {"draft", "ready", "in_progress"}
MayRecord(a) == MayWrite(a) /\ Recordable

RegroupableReady ==  \* mutation: batches already declared ready
    status \in {"draft", "ready"}
Regroupable == status = "draft"
MayRegroup(a) == MayWrite(a) /\ Regroupable

\* The code of a row created by hand is the number of rows plus one: the
\* unique index refuses it when a merge has made that number come round again.
PreparationCode == Cardinality(Preps) + 1
ExecutionCode == Cardinality(Execs) + 1

CreateSolutionPreparation(a, p, solution) ==
    /\ MayRegroup(a)
    /\ prep[p] = None
    /\ \A q \in Preps : prep[q].code # PreparationCode
    /\ prep' = [prep EXCEPT ![p] =
                  PlannedPreparation(solution, PreparationCode)]
    /\ UNCHANGED <<status, useOf, exec, members, actual, deviations>>

SplitSolutionPreparation(a, p, new, selected) ==
    /\ MayRegroup(a)
    /\ prep[p] # None
    /\ prep[new] = None
    /\ selected \subseteq UsesOf(p)
    /\ selected # {}
    /\ selected # UsesOf(p)
    /\ prep' = [prep EXCEPT ![new] = PlannedPreparation(prep[p].solution, 0)]
    /\ useOf' = [u \in Uses |-> IF u \in selected THEN new ELSE useOf[u]]
    /\ UNCHANGED <<status, exec, members, actual, deviations>>

NeverReferenced(id) == FALSE  \* mutation: deviations are not looked at
Referenced(id) == \E d \in deviations : d.target = id

MergeableSolutions(target, source) ==  \* mutation: any two solutions
    prep[target].status = "planned" /\ prep[source].status = "planned"
MergeablePreparations(target, source) ==
    /\ prep[target].solution = prep[source].solution
    /\ prep[target].status = "planned"
    /\ prep[source].status = "planned"

\* A use has one preparation, so the memberships never overlap.
MergeSolutionPreparations(a, target, source) ==
    /\ MayRegroup(a)
    /\ target # source
    /\ {target, source} \subseteq Preps
    /\ MergeablePreparations(target, source)
    /\ ~Referenced(source)
    /\ useOf' = [u \in Uses |-> IF useOf[u] = source THEN target
                                 ELSE useOf[u]]
    /\ prep' = [prep EXCEPT ![source] = None]
    /\ UNCHANGED <<status, exec, members, actual, deviations>>

\* A final status needs an actual snapshot, in the request or on file.
RecordedFor(target, final, mode, row) ==
    target = final => mode # None \/ row.actual # None

\* target is the present status when the request names none, mode None when it
\* records nothing.
UpdateSolutionPreparation(a, p, target, mode) ==
    /\ MayRecord(a)
    /\ prep[p] # None
    /\ prep[p].status \notin ConsumedOrDiscarded
    /\ target \in PreparationTransitions(prep[p].status) \cup {prep[p].status}
    /\ RecordedFor(target, "consumed", mode, prep[p])
    /\ prep' = [prep EXCEPT ![p].status = target,
                            ![p].actual = IF mode = None THEN @ ELSE mode]
    /\ UNCHANGED <<status, useOf, exec, members, actual, deviations>>

-----------------------------------------------------------------------------
(* Process executions.                                                       *)

CreateProcessExecution(a, x, process, shared) ==
    /\ MayRegroup(a)
    /\ exec[x] = None
    /\ \A y \in Execs : exec[y].code # ExecutionCode
    /\ exec' = [exec EXCEPT ![x] =
                  PlannedExecution(process, shared, ExecutionCode)]
    /\ UNCHANGED <<status, prep, useOf, members, actual, deviations>>

CascadedAway(M, x) == {}  \* mutation: deleted with the group they left
Moved(M, x) == {[m EXCEPT !.execution = x] : m \in M}

SplitProcessExecution(a, x, new, selected) ==
    /\ MayRegroup(a)
    /\ exec[x] # None
    /\ exec[new] = None
    /\ selected \subseteq MembersOf(x)
    /\ selected # {}
    /\ selected # MembersOf(x)
    /\ members' = (members \ selected) \cup Moved(selected, new)
    /\ exec' = [exec EXCEPT
                  ![new] = PlannedExecution(exec[x].process,
                                            SpansConditions(selected), 0),
                  ![x].shared = SpansConditions(MembersOf(x) \ selected)]
    /\ UNCHANGED <<status, prep, useOf, actual, deviations>>

MergeableProcesses(target, source) ==  \* mutation: any two processes
    exec[target].status = "planned" /\ exec[source].status = "planned"
MergeableExecutions(target, source) ==
    /\ exec[target].process = exec[source].process
    /\ exec[target].status = "planned"
    /\ exec[source].status = "planned"

Overlap(x, y) ==
    \E m \in MembersOf(x), n \in MembersOf(y) :
        m.substrate = n.substrate /\ LayerOf[m.step] = LayerOf[n.step]

SharedKept(target, source) == exec[target].shared  \* mutation: not updated
SharedAfterMerge(target, source) ==
    SpansConditions(MembersOf(target) \cup MembersOf(source))

MergeProcessExecutions(a, target, source) ==
    /\ MayRegroup(a)
    /\ target # source
    /\ {target, source} \subseteq Execs
    /\ MergeableExecutions(target, source)
    /\ ~Referenced(source)
    /\ ~Overlap(target, source)
    /\ members' = (members \ MembersOf(source))
                    \cup Moved(MembersOf(source), target)
    /\ exec' = [exec EXCEPT
                  ![target].shared = SharedAfterMerge(target, source),
                  ![source] = None]
    /\ UNCHANGED <<status, prep, useOf, actual, deviations>>

UpdateProcessExecution(a, x, target, mode) ==
    /\ MayRecord(a)
    /\ exec[x] # None
    /\ exec[x].status \notin TerminalExecution
    /\ target \in ExecutionTransitions(exec[x].status) \cup {exec[x].status}
    /\ RecordedFor(target, "completed", mode, exec[x])
    /\ exec' = [exec EXCEPT ![x].status = target,
                            ![x].actual = IF mode = None THEN @ ELSE mode]
    /\ UNCHANGED <<status, prep, useOf, members, actual, deviations>>

\* Rows already recorded and terminal rows are left alone.
RecordBatchAsPlanned(a) ==
    /\ MayRecord(a)
    /\ prep' = [p \in Preparations |->
                  IF /\ p \in Preps
                     /\ prep[p].actual = None
                     /\ prep[p].status \notin ConsumedOrDiscarded
                  THEN [prep[p] EXCEPT !.actual = "copied_from_plan"]
                  ELSE prep[p]]
    /\ exec' = [x \in Executions |->
                  IF /\ x \in Execs
                     /\ exec[x].actual = None
                     /\ exec[x].status \notin TerminalExecution
                  THEN [exec[x] EXCEPT !.actual = "copied_from_plan"]
                  ELSE exec[x]]
    /\ UNCHANGED <<status, useOf, members, actual, deviations>>

-----------------------------------------------------------------------------
(* Deviations and the status of the batch.                                   *)

\* A completed batch still takes deviations: measurement shortfalls are
\* declared when results arrive.
CreateDeviation(a, type, target) ==
    /\ MayWrite(a)
    /\ status # "cancelled"
    /\ target \in Preps \cup Execs \cup Conditions \cup {None}
    /\ Cardinality(deviations) < MaxDeviations
    /\ deviations' = deviations \cup {[type |-> type, target |-> target]}
    /\ UNCHANGED <<status, prep, useOf, exec, members, actual>>

Populated ==
    /\ \A p \in Preps : UsesOf(p) # {}
    /\ \A x \in Execs : MembersOf(x) # {}

ReadyBatch(a) ==
    /\ MayWrite(a)
    /\ "ready" \in BatchTransitions(status)
    /\ Populated
    /\ status' = "ready"
    /\ UNCHANGED <<prep, useOf, exec, members, actual, deviations>>

StartBatch(a) ==
    /\ MayWrite(a)
    /\ "in_progress" \in BatchTransitions(status)
    /\ status' = "in_progress"
    /\ UNCHANGED <<prep, useOf, exec, members, actual, deviations>>

CancelBatch(a) ==
    /\ a \in Instructors
    /\ "cancelled" \in BatchTransitions(status)
    /\ status' = "cancelled"
    /\ UNCHANGED <<prep, useOf, exec, members, actual, deviations>>

GroupsOf(c) == {m \in members : ConditionOf(m) = c}
LayersOf(steps) == {LayerOf[s] : s \in steps}

Short(counts) == {c \in Conditions : counts[c] < Planned[c]}
Extra(counts) == {c \in Conditions : counts[c] > Planned[c]}

\* Extra substrates need frozen groups for every layer the recipe processes.
Attachable(c) ==
    /\ GroupsOf(c) # {}
    /\ LayersOf(Recipe[c]) \subseteq LayersOf({m.step : m \in GroupsOf(c)})

AttachedLate(counts) ==  \* mutation: an ordinal too far
    UNION {{[m EXCEPT !.substrate = <<c, n>>] :
              m \in GroupsOf(c), n \in (Planned[c] + 2)..counts[c]} :
              c \in Conditions}
\* Every group that holds the condition gains every new substrate.
Attached(counts) ==
    UNION {{[m EXCEPT !.substrate = <<c, n>>] :
              m \in GroupsOf(c), n \in (Planned[c] + 1)..counts[c]} :
              c \in Conditions}

Settled ==
    /\ \A p \in Preps : prep[p].status \in ConsumedOrDiscarded
    /\ \A x \in Execs : exec[x].status \in TerminalExecution

\* explained: the conditions the request gives a shortfall explanation for.
CompleteBatch(a, counts, explained) ==
    /\ MayWrite(a)
    /\ "completed" \in BatchTransitions(status)
    /\ Total(counts) <= BatchLimit
    /\ explained = Short(counts)
    /\ \A c \in Extra(counts) : Attachable(c)
    /\ Settled
    /\ status' = "completed"
    /\ actual' = counts
    /\ members' = members \cup Attached(counts)
    /\ deviations' = deviations \cup
         {[type |-> "fabrication_shortfall", target |-> c] :
            c \in Short(counts)}
    /\ UNCHANGED <<prep, useOf, exec>>

Next ==
    \E a \in Actors :
       \/ \E p \in Preparations :
             \/ \E s \in Solutions : CreateSolutionPreparation(a, p, s)
             \/ \E new \in Preparations, selected \in SUBSET Uses :
                   SplitSolutionPreparation(a, p, new, selected)
             \/ \E source \in Preparations :
                   MergeSolutionPreparations(a, p, source)
             \/ \E target \in PreparationStatuses,
                   mode \in RecordingModes \cup {None} :
                   UpdateSolutionPreparation(a, p, target, mode)
       \/ \E x \in Executions :
             \/ \E o \in Processes, shared \in BOOLEAN :
                   CreateProcessExecution(a, x, o, shared)
             \/ \E new \in Executions, selected \in SUBSET MembersOf(x) :
                   SplitProcessExecution(a, x, new, selected)
             \/ \E source \in Executions :
                   MergeProcessExecutions(a, x, source)
             \/ \E target \in ExecutionStatuses,
                   mode \in RecordingModes \cup {None} :
                   UpdateProcessExecution(a, x, target, mode)
       \/ RecordBatchAsPlanned(a)
       \/ \E type \in DeviationTypes, target \in Targets :
             CreateDeviation(a, type, target)
       \/ ReadyBatch(a)
       \/ StartBatch(a)
       \/ CancelBatch(a)
       \/ \E counts \in [Conditions -> 0..MaxCount],
             explained \in SUBSET Conditions :
             CompleteBatch(a, counts, explained)

Spec == Init /\ [][Next]_vars

-----------------------------------------------------------------------------
(* Properties.                                                               *)

TypeOK ==
    /\ status \in BatchStatuses
    /\ prep \in [Preparations -> PreparationRow \cup {None}]
    /\ useOf \in [Uses -> Preparations]
    /\ exec \in [Executions -> ExecutionRow \cup {None}]
    /\ members \subseteq Members
    /\ actual \in [Conditions -> Nat \cup {None}]
    /\ deviations \subseteq Deviations

\* Every use draws on a preparation that exists and is of its own solution,
\* however the preparations were split and merged.
UsesGrouped ==
    \A u \in Uses : /\ useOf[u] \in Preps
                    /\ prep[useOf[u]].solution = SolutionOf[u]

Made(c) == IF actual[c] # None /\ actual[c] > Planned[c]
           THEN actual[c] ELSE Planned[c]

\* Every member is a substrate that exists, in an execution that exists and
\* runs the very process its condition's recipe asks for at that step.
MembersGrouped ==
    \A m \in members :
        /\ m.execution \in Execs
        /\ exec[m.execution].process = ProcessOf[m.step]
        /\ m.step \in Recipe[ConditionOf(m)]
        /\ m.substrate[2] \in 1..Made(ConditionOf(m))

RunsOf(c, n, s) == {m \in members : m.substrate = <<c, n>> /\ m.step = s}

\* Split and merge lose no work and do none twice: every planned substrate
\* passes through each step of its recipe in exactly one execution.
PlannedOnce ==
    \A c \in Conditions : \A n \in 1..Planned[c], s \in Recipe[c] :
        \E m \in RunsOf(c, n, s) : RunsOf(c, n, s) = {m}

\* An execution that spans conditions is marked as shared, whatever sequence of
\* splits and merges put its members together.
MarkedShared ==
    \A x \in Execs : SpansConditions(MembersOf(x)) => exec[x].shared

\* From ready on, every preparation has a use and every execution a member: the
\* check is made once, when the batch is declared ready.
ReadyIsPopulated ==
    status \in {"ready", "in_progress", "completed"} => Populated

\* A completed batch is accounted for: everything on its run sheet is terminal,
\* what was done has its actual values ("A consumed preparation and a completed
\* process retain their actual snapshots"), every count is recorded, every
\* shortfall explained, and the substrates made beyond the plan went through the
\* whole recipe as well.
CompletedIsSettled ==
    status = "completed" =>
        /\ Settled
        /\ \A p \in Preps :
              prep[p].status = "consumed" => prep[p].actual # None
        /\ \A x \in Execs :
              exec[x].status = "completed" => exec[x].actual # None
        /\ \A c \in Conditions :
              /\ actual[c] # None
              /\ actual[c] < Planned[c] =>
                    [type |-> "fabrication_shortfall", target |-> c]
                        \in deviations
              /\ \A n \in 1..Made(c), s \in Recipe[c] : RunsOf(c, n, s) # {}

\* A deviation never loses the row it is about to a merge.
DeviationTargets ==
    \A d \in deviations :
        d.target \in Preps \cup Execs \cup Conditions \cup {None}

TerminalPreps == {p \in Preps : prep[p].status \in ConsumedOrDiscarded}
TerminalExecs == {x \in Execs : exec[x].status \in TerminalExecution}

\* "terminal preparations, executions, and Batches are immutable": a terminal
\* preparation keeps the uses it was consumed for, a terminal execution its
\* members.
TerminalKeepsMembers ==
    [][/\ \A p \in TerminalPreps : UsesOf(p)' = UsesOf(p)
       /\ \A x \in TerminalExecs : MembersOf(x) \subseteq MembersOf(x)']_vars

\* What does stay of it, whatever sequence of handlers runs.  A terminal row is
\* not written again, except that a split may say of an execution whether it is
\* still shared.  Once a batch has left the draft its groups stay as they are,
\* and only completion adds members; and a closed batch takes nothing but
\* deviations.
TerminalForGood ==
    [][/\ \A p \in TerminalPreps : prep'[p] = prep[p]
       /\ \A x \in TerminalExecs :
             exec'[x] = [exec[x] EXCEPT !.shared = exec'[x].shared]
       /\ status # "draft" =>
             /\ useOf' = useOf /\ members \subseteq members'
             /\ Preps' = Preps /\ Execs' = Execs
             /\ members' # members => status' = "completed"
       /\ status \in {"completed", "cancelled"} =>
             /\ UNCHANGED <<status, prep, useOf, exec, members, actual>>
             /\ deviations \subseteq deviations']_vars

=============================================================================
