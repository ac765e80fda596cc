------------------------------ MODULE RowLocks ------------------------------
(* The row locks the handlers of one plan take, in the order of their         *)
(* statements (condition.py, batch.py, result.py).  The other modules take a  *)
(* handler for one atomic step because of these locks; this one asks what the *)
(* locks do to one another.                                                   *)
(*                                                                            *)
(* A handler is the set of its possible lock programs: a statement that       *)
(* matches no row takes no lock, and a lock that is held already is granted   *)
(* at once.  One row stands for the rows of a table that two handlers can     *)
(* meet on (what one statement locks of a table, its scan takes in one        *)
(* order), but two for the result files of a batch, since one transaction     *)
(* locks several of them.  A unique key that is being entered counts as its   *)
(* row.  The lock manager is PostgreSQL's.                                    *)
EXTENDS Naturals, Sequences

CONSTANTS
    Txns,      \* database transactions that can be open at once
    Handlers   \* names of the handlers that run

Files == {"file", "other_file"}   \* both with scans of one device
Rows == {"experiment", "condition", "exception", "batch", "preparation",
         "execution", "selection", "stats"} \cup Files
Modes == {"update", "no_key_update", "key_share"}
Lock == [row: Rows, mode: Modes]

ForUpdate(r) == [row |-> r, mode |-> "update"]             \* also a DELETE
NoKeyUpdate(r) == [row |-> r, mode |-> "no_key_update"]    \* a plain UPDATE
KeyShare(r) == [row |-> r, mode |-> "key_share"]           \* a foreign key

\* KEY SHARE goes with everything but FOR UPDATE; nothing else goes together.
ModesConflict(m, n) ==
    IF m = "key_share" \/ n = "key_share"
    THEN "update" \in {m, n}
    ELSE TRUE
Conflict(k, l) == k.row = l.row /\ ModesConflict(k.mode, l.mode)

-----------------------------------------------------------------------------
(* The plan: the experiments row first, then its conditions.                  *)

CreateCondition == {<<ForUpdate("experiment")>>}
UpdateCondition == {<<ForUpdate("experiment"), NoKeyUpdate("condition")>>,
                    <<ForUpdate("experiment"), NoKeyUpdate("condition"),
                      NoKeyUpdate("exception")>>}
DeleteConditionJoined ==  \* mutation: the join without of=experiments
    {<<ForUpdate("condition"), ForUpdate("experiment")>>,
     <<ForUpdate("condition"), ForUpdate("experiment"),
       ForUpdate("exception")>>}
DeleteCondition == {<<ForUpdate("experiment"), ForUpdate("condition")>>,
                    <<ForUpdate("experiment"), ForUpdate("condition"),
                      ForUpdate("exception")>>}
UpdatePlanStatus == {<<ForUpdate("experiment")>>}
\* Its own key it waits for with nothing held.
RequestException == {<<KeyShare("condition")>>}
\* FOR UPDATE of a join locks the rows of both tables, the exception first.
DecideException == {<<ForUpdate("exception"), ForUpdate("condition")>>}
CreateFabricationBatch == {<<ForUpdate("experiment"), KeyShare("condition")>>}

-----------------------------------------------------------------------------
(* The run sheet.  _batch_for_actor selects the batch joined with its plan    *)
(* FOR UPDATE, so it locks both rows, the batch first.                        *)

BatchForActor == <<ForUpdate("batch"), ForUpdate("experiment")>>

Optional(l) == {<<>>, <<l>>}
Then(P, Q) == {p \o q : p \in P, q \in Q}

CreatePreparation == {BatchForActor}
UpdatePreparation == {<<ForUpdate("preparation")>> \o BatchForActor}
SplitPreparation == {<<ForUpdate("preparation")>> \o BatchForActor}
MergePreparations == {<<ForUpdate("preparation")>> \o BatchForActor}
CreateExecution == {BatchForActor}
UpdateExecution == {<<ForUpdate("execution")>> \o BatchForActor}
SplitExecution == {<<ForUpdate("execution")>> \o BatchForActor}
MergeExecutions == {<<ForUpdate("execution")>> \o BatchForActor}
RecordAsPlanned == Then({BatchForActor},
                        Then(Optional(ForUpdate("preparation")),
                             Optional(ForUpdate("execution"))))
CreateDeviation == Then({BatchForActor},
                        Then(Optional(KeyShare("preparation")),
                             Optional(KeyShare("execution"))))
AdvanceBatch == {<<ForUpdate("batch")>>}
CompleteBatchUnlocked ==  \* mutation: without the row of the batch
    Optional(KeyShare("execution"))
\* Extra substrates become members of the executions of their condition.
CompleteBatch == Then({<<ForUpdate("batch")>>}, Optional(KeyShare("execution")))

-----------------------------------------------------------------------------
(* Results: experiment, then batch, then result file.                         *)

AddResult == {<<ForUpdate("experiment"), ForUpdate("batch")>>}

\* For each direction of a device: a stale selection is deleted, the cache row
\* is deleted or its key entered, and a new row refers to the file of the best
\* scan, which is any file of the batch.  One row stands for those of the two
\* directions.
RefreshScanStats ==
    LET Stale == Optional(ForUpdate("selection"))
        Best == {<<>>} \cup {<<KeyShare(f)>> : f \in Files}
        Written == Then(Stale, Then({<<ForUpdate("stats")>>}, Best))
    IN Stale \cup Then(Written, Then(Stale, Best))
ApplyResultAssignment ==
    Then({<<ForUpdate("experiment"), ForUpdate("batch"), ForUpdate(f)>> :
              f \in Files},
         RefreshScanStats)
\* The old selection is deleted or its key entered, and the new one refers to
\* its result file.
SetRepresentativeScan ==
    Then({<<ForUpdate("selection"), KeyShare(f)>> : f \in Files},
         RefreshScanStats)
ClearRepresentativeScan ==
    Then(Optional(ForUpdate("selection")), RefreshScanStats)

Programs ==
    [create_condition |-> CreateCondition,
     update_condition |-> UpdateCondition,
     delete_condition |-> DeleteCondition,
     update_plan_status |-> UpdatePlanStatus,
     request_substrate_exception |-> RequestException,
     decide_substrate_exception |-> DecideException,
     create_fabrication_batch |-> CreateFabricationBatch,
     create_solution_preparation |-> CreatePreparation,
     update_solution_preparation |-> UpdatePreparation,
     split_solution_preparation |-> SplitPreparation,
     merge_solution_preparations |-> MergePreparations,
     create_process_execution |-> CreateExecution,
     update_process_execution |-> UpdateExecution,
     split_process_execution |-> SplitExecution,
     merge_process_executions |-> MergeExecutions,
     record_batch_as_planned |-> RecordAsPlanned,
     create_deviation |-> CreateDeviation,
     advance_batch |-> AdvanceBatch,
     complete_batch |-> CompleteBatch,
     add_result |-> AddResult,
     apply_result_assignment |-> ApplyResultAssignment,
     set_representative_scan |-> SetRepresentativeScan,
     clear_representative_scan |-> ClearRepresentativeScan]

ASSUME HandlersExist == Handlers \subseteq DOMAIN Programs

-----------------------------------------------------------------------------
VARIABLES
    phase,    \* idle, running between two statements, or waiting for a lock
    handler,  \* the handler whose transaction it is
    todo,     \* the locks the transaction has still to take
    held      \* the locks it holds, until it ends

vars == <<phase, handler, todo, held>>

Init ==
    /\ phase = [t \in Txns |-> "idle"]
    /\ handler = [t \in Txns |-> "none"]
    /\ todo = [t \in Txns |-> <<>>]
    /\ held = [t \in Txns |-> {}]

Begin(t, h, p) ==
    /\ phase[t] = "idle"
    /\ phase' = [phase EXCEPT ![t] = "running"]
    /\ handler' = [handler EXCEPT ![t] = h]
    /\ todo' = [todo EXCEPT ![t] = p]
    /\ UNCHANGED held

\* The next locking statement is sent.
Request(t) ==
    /\ phase[t] = "running"
    /\ todo[t] # <<>>
    /\ phase' = [phase EXCEPT ![t] = "waiting"]
    /\ UNCHANGED <<handler, todo, held>>

WaitsFor(t, u) ==
    /\ phase[t] = "waiting"
    /\ u # t
    /\ \E l \in held[u] : Conflict(l, Head(todo[t]))

Grant(t) ==
    /\ phase[t] = "waiting"
    /\ \A u \in Txns : ~WaitsFor(t, u)
    /\ phase' = [phase EXCEPT ![t] = "running"]
    /\ held' = [held EXCEPT ![t] = @ \cup {Head(todo[t])}]
    /\ todo' = [todo EXCEPT ![t] = Tail(@)]
    /\ UNCHANGED handler

Leave(t) ==
    /\ phase' = [phase EXCEPT ![t] = "idle"]
    /\ handler' = [handler EXCEPT ![t] = "none"]
    /\ todo' = [todo EXCEPT ![t] = <<>>]
    /\ held' = [held EXCEPT ![t] = {}]

\* database.begin() commits at the end of its block, and rolls back when a
\* check between two statements raises.
Finish(t) ==
    /\ phase[t] = "running"
    /\ Leave(t)

\* Every member of D waits for a member of D.
Deadlocked(D) ==
    /\ D # {}
    /\ \A t \in D : \E u \in D : WaitsFor(t, u)

\* The deadlock detector rolls back a transaction that closes a cycle of waits.
Abort(t) ==
    /\ \E D \in SUBSET Txns :
          /\ t \in D
          /\ Deadlocked(D)
          /\ \A E \in SUBSET D : Deadlocked(E) => E = D
    /\ Leave(t)

Next ==
    \E t \in Txns :
        \/ \E h \in Handlers : \E p \in Programs[h] : Begin(t, h, p)
        \/ Request(t)
        \/ Grant(t)
        \/ Finish(t)
        \/ Abort(t)

Spec == Init /\ [][Next]_vars

\* A handler goes on to its next statement or ends, a lock that is free again
\* and again is granted, and the detector runs.
FairSpec ==
    /\ Spec
    /\ \A t \in Txns : /\ WF_vars(Request(t) \/ Finish(t))
                       /\ SF_vars(Grant(t))
                       /\ WF_vars(Abort(t))

-----------------------------------------------------------------------------
(* Properties.                                                                *)

TypeOK ==
    /\ phase \in [Txns -> {"idle", "running", "waiting"}]
    /\ handler \in [Txns -> Handlers \cup {"none"}]
    /\ todo \in [Txns -> Seq(Lock)]
    /\ held \in [Txns -> SUBSET Lock]
    /\ \A t \in Txns :
          /\ phase[t] = "waiting" => todo[t] # <<>>
          /\ phase[t] = "idle" => todo[t] = <<>> /\ held[t] = {}

\* The handlers that lock nothing of a plan before a row above it, and the
\* results of a batch behind the row of the batch.  The choice of a scan is not
\* one of them: it locks the results alone.
PlanAndResults ==
    {"create_condition", "update_condition", "delete_condition",
     "update_plan_status", "request_substrate_exception",
     "create_fabrication_batch", "advance_batch", "add_result",
     "apply_result_assignment"}
BatchResults == Files \cup {"selection", "stats"}
PlanAndResultsRank ==
    [experiment |-> 1, condition |-> 2, exception |-> 3, batch |-> 4,
     preparation |-> 5, execution |-> 6]

\* Those that edit the run sheet, from its rows up to the plan.
RunSheet ==
    {"create_solution_preparation", "update_solution_preparation",
     "split_solution_preparation", "merge_solution_preparations",
     "create_process_execution", "update_process_execution",
     "split_process_execution", "merge_process_executions",
     "update_plan_status", "advance_batch"}
RunSheetRank ==
    [preparation |-> 1, execution |-> 2, batch |-> 3, experiment |-> 4,
     condition |-> 5, exception |-> 6, file |-> 7, other_file |-> 8,
     selection |-> 9, stats |-> 10]

Before(p, j) == {p[i] : i \in {k \in DOMAIN p : k < j}}

\* The rows of a program come in increasing rank; those behind the gate come
\* last and in any order, once the gate itself is held FOR UPDATE.
MayFollow(before, l, rank, gate, behind) ==
    IF l.row \in behind
    THEN ForUpdate(gate) \in before
    ELSE \A k \in before : k.row \notin behind /\ rank[k.row] < rank[l.row]

Ordered(p, rank, gate, behind) ==
    \A j \in DOMAIN p : MayFollow(Before(p, j), p[j], rank, gate, behind)

RespectsOrder(H, rank, gate, behind) ==
    \A h \in H : \A p \in Programs[h] : Ordered(p, rank, gate, behind)

DeadlockFree(H) ==
    \A D \in SUBSET Txns :
        (\A t \in D : handler[t] \in H) => ~Deadlocked(D)

\* Whatever else runs, no circle of waits consists of plan handlers, uploads
\* and assignments only, nor of run-sheet handlers only: the code keeps to one
\* order of rows in the first group and to another one in the second.  Circles
\* that do arise have a handler of each, a decision on an exception, a recording,
\* a deviation or the completion of a batch, or the choice of a scan.
NoDeadlock == DeadlockFree(PlanAndResults) /\ DeadlockFree(RunSheet)

\* "Multi-row locks follow the documented order (experiment -> batch -> result
\* file)": no set of transactions at all waits for itself.
DocumentedOrder == DeadlockFree(Handlers)

\* Every transaction ends, by a commit, by an error or as the victim of a
\* deadlock, however many others come and go meanwhile.  A row that foreign keys
\* share could keep a transaction that wants it FOR UPDATE waiting for ever; this
\* says that it is shared by one transaction at a time, as those that share it
\* hold the batch or the experiments row.  It is a property of the handlers of
\* plans and run sheets, and of uploads and assignments by themselves: a choice
\* of scans shares its file, and a request of an exception its condition, with
\* no such row held.
EveryTransactionEnds ==
    \A t \in Txns : phase[t] # "idle" ~> phase[t] = "idle"

=============================================================================
