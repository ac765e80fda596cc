------------------------- MODULE BatchExecutionProofs -------------------------
(* Proofs about the run sheet of a batch, for any number of conditions, uses, *)
(* steps, preparations, executions and substrates.                            *)
EXTENDS BatchExecution, FiniteSetTheorems, TLAPS

-----------------------------------------------------------------------------
(* The inductive invariant.                                                  *)

\* What has a final status has its actual values at any time, not only once the
\* batch is completed.
FinalIsRecorded ==
    /\ \A p \in Preps : prep[p].status = "consumed" => prep[p].actual # None
    /\ \A x \in Execs : exec[x].status = "completed" => exec[x].actual # None

\* Counts are entered by completion only, so that until then a member is one of
\* the planned substrates.
CountedAtTheEnd ==
    status # "completed" => \A c \in Conditions : actual[c] = None

IInv ==
    /\ TypeOK
    /\ UsesGrouped
    /\ MembersGrouped
    /\ PlannedOnce
    /\ MarkedShared
    /\ ReadyIsPopulated
    /\ CompletedIsSettled
    /\ DeviationTargets
    /\ FinalIsRecorded
    /\ CountedAtTheEnd

-----------------------------------------------------------------------------
(* Rows.                                                                     *)

LEMMA RowsExist ==
    /\ \A r \in PreparationRow : r # None
    /\ \A r \in ExecutionRow : r # None
  BY NoneIsNotARow

LEMMA PlannedPreparationRow ==
    ASSUME NEW solution \in Solutions, NEW code \in Nat
    PROVE  /\ PlannedPreparation(solution, code) \in PreparationRow
           /\ PlannedPreparation(solution, code).solution = solution
           /\ PlannedPreparation(solution, code).status = "planned"
  BY DEF PlannedPreparation, PreparationRow, PreparationStatuses

LEMMA PlannedExecutionRow ==
    ASSUME NEW process \in Processes, NEW shared \in BOOLEAN, NEW code \in Nat
    PROVE  /\ PlannedExecution(process, shared, code) \in ExecutionRow
           /\ PlannedExecution(process, shared, code).process = process
           /\ PlannedExecution(process, shared, code).status = "planned"
           /\ PlannedExecution(process, shared, code).shared = shared
  BY DEF PlannedExecution, ExecutionRow, ExecutionStatuses

LEMMA RemarkedExecution ==
    ASSUME NEW row \in ExecutionRow, NEW shared \in BOOLEAN
    PROVE  /\ [row EXCEPT !.shared = shared] \in ExecutionRow
           /\ [row EXCEPT !.shared = shared].process = row.process
           /\ [row EXCEPT !.shared = shared].status = row.status
           /\ [row EXCEPT !.shared = shared].actual = row.actual
           /\ [row EXCEPT !.shared = shared].shared = shared
<1> DEFINE new == [process |-> row.process, status |-> row.status,
                   actual |-> row.actual, shared |-> shared, code |-> row.code]
<1>1. [row EXCEPT !.shared = shared] = new
  BY DEF ExecutionRow
<1>2. new \in ExecutionRow
  BY DEF ExecutionRow
<1>3. /\ new.process = row.process /\ new.status = row.status
      /\ new.actual = row.actual /\ new.shared = shared
  OBVIOUS
<1> HIDE DEF new
<1> QED
  BY <1>1, <1>2, <1>3, Zenon

\* Codes of rows made by hand are numbers.
LEMMA CodeType == PreparationCode \in Nat /\ ExecutionCode \in Nat
<1>1. IsFiniteSet(Preps) /\ IsFiniteSet(Execs)
  BY IdsAreFinite, FS_Subset DEF Preps, Execs
<1>2. Cardinality(Preps) \in Nat /\ Cardinality(Execs) \in Nat
  BY <1>1, FS_CardinalityType
<1> QED
  BY <1>2 DEF PreparationCode, ExecutionCode

LEMMA SpansIsBoolean == \A M : SpansConditions(M) \in BOOLEAN
  BY DEF SpansConditions

-----------------------------------------------------------------------------
(* Frames: what a step that leaves some tables alone cannot disturb.         *)

\* Groups change in a draft only, where nothing was promised about the batch.
LEMMA DraftPromisesNothing ==
    ASSUME IInv, status = "draft", status' = status, actual' = actual
    PROVE  ReadyIsPopulated' /\ CompletedIsSettled' /\ CountedAtTheEnd'
  BY DEF IInv, ReadyIsPopulated, CompletedIsSettled, CountedAtTheEnd

LEMMA MembersFrame ==
    ASSUME IInv, members' = members, actual' = actual,
           \A x \in Execs : /\ x \in Execs'
                            /\ exec'[x].process = exec[x].process
    PROVE  MembersGrouped' /\ PlannedOnce'
<1>1. PlannedOnce'
  BY DEF IInv, PlannedOnce, RunsOf
<1>2. MembersGrouped'
  BY DEF IInv, MembersGrouped, Made, Execs
<1> QED
  BY <1>1, <1>2

LEMMA UsesFrame ==
    ASSUME IInv, useOf' = useOf,
           \A p \in Preps : /\ p \in Preps'
                            /\ prep'[p].solution = prep[p].solution
    PROVE  UsesGrouped'
  BY DEF IInv, UsesGrouped

-----------------------------------------------------------------------------
(* A step that writes one preparation row, and nothing else.                 *)

LEMMA PreparationWritten ==
    ASSUME IInv, NEW p \in Preparations, NEW row \in PreparationRow,
           prep' = [prep EXCEPT ![p] = row],
           UNCHANGED <<status, useOf, exec, members, actual, deviations>>,
           status # "completed",
           row.status = "consumed" => row.actual # None,
           IF prep[p] = None THEN status = "draft"
                             ELSE row.solution = prep[p].solution
    PROVE  IInv'
<1>1. /\ prep \in [Preparations -> PreparationRow \cup {None}]
      /\ prep'[p] = row /\ row # None
      /\ \A q \in Preparations \ {p} : prep'[q] = prep[q]
  BY RowsExist DEF IInv, TypeOK
<1>2. Preps' = Preps \cup {p}
  BY <1>1 DEF Preps
<1>3. TypeOK'
  BY DEF IInv, TypeOK
<1>4. UsesGrouped'
  BY <1>1, <1>2, UsesFrame DEF Preps
<1>5. MembersGrouped' /\ PlannedOnce'
  BY MembersFrame DEF Execs
<1>6. MarkedShared'
  BY DEF IInv, MarkedShared, Execs, MembersOf
<1>7. ReadyIsPopulated'
  <2>1. CASE status = "draft"
    BY <2>1 DEF ReadyIsPopulated
  <2>2. CASE status # "draft"
    <3>1. Preps' = Preps
      BY <1>2, <2>2 DEF Preps
    <3> QED
      BY <3>1 DEF IInv, ReadyIsPopulated, Populated, UsesOf, MembersOf, Execs
  <2> QED
    BY <2>1, <2>2
<1>8. CompletedIsSettled'
  BY DEF CompletedIsSettled
<1>9. DeviationTargets'
  BY <1>2 DEF IInv, DeviationTargets, Execs
<1>10. FinalIsRecorded'
  BY <1>1, <1>2 DEF IInv, FinalIsRecorded, Execs, Preps
<1>11. CountedAtTheEnd'
  BY DEF IInv, CountedAtTheEnd
<1> QED
  BY <1>3, <1>4, <1>5, <1>6, <1>7, <1>8, <1>9, <1>10, <1>11 DEF IInv

\* The same of one execution row.
LEMMA ExecutionWritten ==
    ASSUME IInv, NEW x \in Executions, NEW row \in ExecutionRow,
           exec' = [exec EXCEPT ![x] = row],
           UNCHANGED <<status, prep, useOf, members, actual, deviations>>,
           status # "completed",
           row.status = "completed" => row.actual # None,
           IF exec[x] = None
           THEN status = "draft"
           ELSE row.process = exec[x].process /\ row.shared = exec[x].shared
    PROVE  IInv'
<1>1. /\ exec \in [Executions -> ExecutionRow \cup {None}]
      /\ exec'[x] = row /\ row # None
      /\ \A y \in Executions \ {x} : exec'[y] = exec[y]
  BY RowsExist DEF IInv, TypeOK
<1>2. Execs' = Execs \cup {x}
  BY <1>1 DEF Execs
<1>3. TypeOK'
  BY DEF IInv, TypeOK
<1>4. UsesGrouped'
  BY UsesFrame DEF Preps
<1>5. MembersGrouped' /\ PlannedOnce'
  BY <1>1, <1>2, MembersFrame DEF Execs
<1>6. MarkedShared'
  <2> SUFFICES ASSUME NEW y \in Execs', SpansConditions(MembersOf(y))
               PROVE  exec'[y].shared
    BY DEF MarkedShared, MembersOf
  <2>1. y \in Execs
    BY DEF SpansConditions, MembersOf, IInv, MembersGrouped
  <2>2. exec[y].shared
    BY <2>1 DEF IInv, MarkedShared
  <2>3. exec'[y].shared = exec[y].shared
    BY <1>1, <2>1 DEF Execs
  <2> QED
    BY <2>2, <2>3
<1>7. ReadyIsPopulated'
  <2>1. CASE status = "draft"
    BY <2>1 DEF ReadyIsPopulated
  <2>2. CASE status # "draft"
    <3>1. Execs' = Execs
      BY <1>2, <2>2 DEF Execs
    <3> QED
      BY <3>1 DEF IInv, ReadyIsPopulated, Populated, UsesOf, MembersOf, Preps
  <2> QED
    BY <2>1, <2>2
<1>8. CompletedIsSettled'
  BY DEF CompletedIsSettled
<1>9. DeviationTargets'
  BY <1>2 DEF IInv, DeviationTargets, Preps
<1>10. FinalIsRecorded'
  BY <1>1, <1>2 DEF IInv, FinalIsRecorded, Execs, Preps
<1>11. CountedAtTheEnd'
  BY DEF IInv, CountedAtTheEnd
<1> QED
  BY <1>3, <1>4, <1>5, <1>6, <1>7, <1>8, <1>9, <1>10, <1>11 DEF IInv

-----------------------------------------------------------------------------
(* Creating and recording.                                                   *)

LEMMA CreatePreparationStep ==
    ASSUME IInv, NEW a \in Actors, NEW p \in Preparations,
           NEW solution \in Solutions, CreateSolutionPreparation(a, p, solution)
    PROVE  IInv'
<1> DEFINE row == PlannedPreparation(solution, PreparationCode)
<1>1. /\ row \in PreparationRow
      /\ row.status = "planned"
  BY PlannedPreparationRow, CodeType
<1>2. /\ prep' = [prep EXCEPT ![p] = row]
      /\ prep[p] = None
      /\ status = "draft"
      /\ UNCHANGED <<status, useOf, exec, members, actual, deviations>>
  BY DEF CreateSolutionPreparation, MayRegroup, Regroupable
<1> HIDE DEF row
<1> QED
  BY <1>1, <1>2, PreparationWritten

LEMMA CreateExecutionStep ==
    ASSUME IInv, NEW a \in Actors, NEW x \in Executions,
           NEW process \in Processes, NEW shared \in BOOLEAN,
           CreateProcessExecution(a, x, process, shared)
    PROVE  IInv'
<1> DEFINE row == PlannedExecution(process, shared, ExecutionCode)
<1>1. /\ row \in ExecutionRow
      /\ row.status = "planned"
  BY PlannedExecutionRow, CodeType
<1>2. /\ exec' = [exec EXCEPT ![x] = row]
      /\ exec[x] = None
      /\ status = "draft"
      /\ UNCHANGED <<status, prep, useOf, members, actual, deviations>>
  BY DEF CreateProcessExecution, MayRegroup, Regroupable
<1> HIDE DEF row
<1> QED
  BY <1>1, <1>2, ExecutionWritten

\* A final status comes with actual values: those of the request, or those on
\* file.
LEMMA UpdatePreparationStep ==
    ASSUME IInv, NEW a \in Actors, NEW p \in Preparations,
           NEW target \in PreparationStatuses,
           NEW mode \in RecordingModes \cup {None},
           UpdateSolutionPreparation(a, p, target, mode)
    PROVE  IInv'
<1> DEFINE kept == IF mode = None THEN prep[p].actual ELSE mode
           row == [prep[p] EXCEPT !.status = target, !.actual = kept]
<1>1. prep[p] \in PreparationRow
  BY DEF UpdateSolutionPreparation, IInv, TypeOK
<1>2. kept \in RecordingModes \cup {None}
  BY <1>1 DEF PreparationRow
<1>3. target = "consumed" => kept # None
  BY NoneIsNoCount DEF UpdateSolutionPreparation, RecordedFor
<1>4. /\ prep' = [prep EXCEPT ![p] = row]
      /\ prep[p] # None
      /\ status # "completed"
      /\ UNCHANGED <<status, useOf, exec, members, actual, deviations>>
  BY <1>1 DEF UpdateSolutionPreparation, MayRecord, Recordable, PreparationRow,
              IInv, TypeOK
<1> HIDE DEF kept
<1>5. /\ row \in PreparationRow
      /\ row.solution = prep[p].solution
      /\ row.status = target
      /\ row.actual = kept
  BY <1>1, <1>2 DEF PreparationRow
<1> HIDE DEF row
<1> QED
  BY <1>3, <1>4, <1>5, PreparationWritten

LEMMA UpdateExecutionStep ==
    ASSUME IInv, NEW a \in Actors, NEW x \in Executions,
           NEW target \in ExecutionStatuses,
           NEW mode \in RecordingModes \cup {None},
           UpdateProcessExecution(a, x, target, mode)
    PROVE  IInv'
<1> DEFINE kept == IF mode = None THEN exec[x].actual ELSE mode
           row == [exec[x] EXCEPT !.status = target, !.actual = kept]
<1>1. exec[x] \in ExecutionRow
  BY DEF UpdateProcessExecution, IInv, TypeOK
<1>2. kept \in RecordingModes \cup {None}
  BY <1>1 DEF ExecutionRow
<1>3. target = "completed" => kept # None
  BY NoneIsNoCount DEF UpdateProcessExecution, RecordedFor
<1>4. /\ exec' = [exec EXCEPT ![x] = row]
      /\ exec[x] # None
      /\ status # "completed"
      /\ UNCHANGED <<status, prep, useOf, members, actual, deviations>>
  BY <1>1 DEF UpdateProcessExecution, MayRecord, Recordable, ExecutionRow,
              IInv, TypeOK
<1> HIDE DEF kept
<1>5. /\ row \in ExecutionRow
      /\ row.process = exec[x].process
      /\ row.status = target
      /\ row.actual = kept
      /\ row.shared = exec[x].shared
  BY <1>1, <1>2 DEF ExecutionRow
<1> HIDE DEF row
<1> QED
  BY <1>3, <1>4, <1>5, ExecutionWritten

\* A copied plan is an actual value and leaves everything else of a row.
LEMMA RecordStep ==
    ASSUME IInv, NEW a \in Actors, RecordBatchAsPlanned(a)
    PROVE  IInv'
<1> DEFINE Copied(row) == [row EXCEPT !.actual = "copied_from_plan"]
<1>1. /\ prep \in [Preparations -> PreparationRow \cup {None}]
      /\ exec \in [Executions -> ExecutionRow \cup {None}]
      /\ status # "completed"
      /\ UNCHANGED <<status, useOf, members, actual, deviations>>
  BY DEF IInv, TypeOK, RecordBatchAsPlanned, MayRecord, Recordable
<1>2. ASSUME NEW p \in Preparations
      PROVE  \/ prep'[p] = prep[p]
             \/ /\ prep[p] \in PreparationRow
                /\ prep'[p] \in PreparationRow
                /\ prep'[p].solution = prep[p].solution
                /\ prep'[p].status = prep[p].status
                /\ prep'[p].actual = "copied_from_plan"
  <2>1. prep'[p] = prep[p] \/ (p \in Preps /\ prep'[p] = Copied(prep[p]))
    BY DEF RecordBatchAsPlanned
  <2>2. CASE p \in Preps /\ prep'[p] = Copied(prep[p])
    <3>1. prep[p] \in PreparationRow
      BY <1>1, <2>2 DEF Preps
    <3> QED
      BY <2>2, <3>1 DEF PreparationRow, RecordingModes
  <2> QED
    BY <2>1, <2>2
<1>3. ASSUME NEW x \in Executions
      PROVE  \/ exec'[x] = exec[x]
             \/ /\ exec[x] \in ExecutionRow
                /\ exec'[x] \in ExecutionRow
                /\ exec'[x].process = exec[x].process
                /\ exec'[x].status = exec[x].status
                /\ exec'[x].shared = exec[x].shared
                /\ exec'[x].actual = "copied_from_plan"
  <2>1. exec'[x] = exec[x] \/ (x \in Execs /\ exec'[x] = Copied(exec[x]))
    BY DEF RecordBatchAsPlanned
  <2>2. CASE x \in Execs /\ exec'[x] = Copied(exec[x])
    <3>1. exec[x] \in ExecutionRow
      BY <1>1, <2>2 DEF Execs
    <3> QED
      BY <2>2, <3>1 DEF ExecutionRow, RecordingModes
  <2> QED
    BY <2>1, <2>2
<1>4. /\ prep' \in [Preparations -> PreparationRow \cup {None}]
      /\ exec' \in [Executions -> ExecutionRow \cup {None}]
  <2>1. /\ prep' = [p \in Preparations |-> prep'[p]]
        /\ exec' = [x \in Executions |-> exec'[x]]
    BY DEF RecordBatchAsPlanned
  <2> QED
    BY <1>1, <1>2, <1>3, <2>1
<1>5. Preps' = Preps /\ Execs' = Execs
  BY <1>2, <1>3, RowsExist DEF Preps, Execs
<1>6. TypeOK'
  BY <1>1, <1>4 DEF IInv, TypeOK
<1>7. UsesGrouped'
  BY <1>1, <1>2, <1>5, UsesFrame DEF Preps
<1>8. MembersGrouped' /\ PlannedOnce'
  BY <1>1, <1>3, <1>5, MembersFrame DEF Execs
<1>9. MarkedShared'
  <2>1. \A x \in Execs : exec'[x].shared = exec[x].shared
    BY <1>3 DEF Execs
  <2>2. \A x \in Execs : MembersOf(x)' = MembersOf(x)
    BY <1>1 DEF MembersOf
  <2> QED
    BY <1>5, <2>1, <2>2 DEF IInv, MarkedShared
<1>10. ReadyIsPopulated'
  BY <1>1, <1>5 DEF IInv, ReadyIsPopulated, Populated, UsesOf, MembersOf
<1>11. CompletedIsSettled' /\ CountedAtTheEnd'
  BY <1>1 DEF IInv, CompletedIsSettled, CountedAtTheEnd
<1>12. DeviationTargets'
  BY <1>1, <1>5 DEF IInv, DeviationTargets
<1>13. FinalIsRecorded'
  <2>1. "copied_from_plan" # None
    BY NoneIsNoCount DEF RecordingModes
  <2> QED
    BY <1>2, <1>3, <1>5, <2>1 DEF IInv, FinalIsRecorded, Preps, Execs
<1> QED
  BY <1>6, <1>7, <1>8, <1>9, <1>10, <1>11, <1>12, <1>13 DEF IInv

-----------------------------------------------------------------------------
(* Regrouping preparations.                                                  *)

LEMMA SplitPreparationStep ==
    ASSUME IInv, NEW a \in Actors, NEW p \in Preparations,
           NEW new \in Preparations, NEW selected \in SUBSET Uses,
           SplitSolutionPreparation(a, p, new, selected)
    PROVE  IInv'
<1> DEFINE row == PlannedPreparation(prep[p].solution, 0)
<1>1. /\ prep \in [Preparations -> PreparationRow \cup {None}]
      /\ useOf \in [Uses -> Preparations]
      /\ prep[p] \in PreparationRow
      /\ p # new
  BY DEF SplitSolutionPreparation, IInv, TypeOK
<1>2. /\ row \in PreparationRow
      /\ row.solution = prep[p].solution
      /\ row.status = "planned"
  BY <1>1, PlannedPreparationRow DEF PreparationRow
<1>3. /\ prep' = [prep EXCEPT ![new] = row]
      /\ useOf' = [u \in Uses |-> IF u \in selected THEN new ELSE useOf[u]]
      /\ selected \subseteq UsesOf(p)
      /\ prep[new] = None
      /\ status = "draft"
      /\ UNCHANGED <<status, exec, members, actual, deviations>>
  BY DEF SplitSolutionPreparation, MayRegroup, Regroupable
<1> HIDE DEF row
<1>4. /\ Preps' = Preps \cup {new}
      /\ prep'[new] = row
      /\ \A q \in Preps : prep'[q] = prep[q]
  BY <1>1, <1>2, <1>3, RowsExist DEF Preps
<1>5. TypeOK'
  BY <1>1, <1>2, <1>3 DEF IInv, TypeOK
<1>6. UsesGrouped'
  <2> SUFFICES ASSUME NEW u \in Uses
               PROVE  /\ useOf'[u] \in Preps'
                      /\ prep'[useOf'[u]].solution = SolutionOf[u]
    BY DEF UsesGrouped
  <2>1. useOf[u] \in Preps /\ prep[useOf[u]].solution = SolutionOf[u]
    BY DEF IInv, UsesGrouped
  <2>2. CASE u \in selected
    <3>1. useOf'[u] = new /\ useOf[u] = p
      BY <1>3, <2>2 DEF UsesOf
    <3> QED
      BY <1>2, <1>4, <2>1, <3>1
  <2>3. CASE u \notin selected
    BY <1>3, <1>4, <2>1, <2>3
  <2> QED
    BY <2>2, <2>3
<1>7. MembersGrouped' /\ PlannedOnce'
  BY <1>3, MembersFrame DEF Execs
<1>8. MarkedShared'
  BY <1>3 DEF IInv, MarkedShared, Execs, MembersOf
<1>9. ReadyIsPopulated' /\ CompletedIsSettled' /\ CountedAtTheEnd'
  BY <1>3, DraftPromisesNothing
<1>10. DeviationTargets'
  BY <1>3, <1>4 DEF IInv, DeviationTargets, Execs
<1>11. FinalIsRecorded'
  BY <1>2, <1>3, <1>4 DEF IInv, FinalIsRecorded, Execs
<1> QED
  BY <1>5, <1>6, <1>7, <1>8, <1>9, <1>10, <1>11 DEF IInv

\* The source goes only when no deviation is about it.
LEMMA MergePreparationsStep ==
    ASSUME IInv, NEW a \in Actors, NEW target \in Preparations,
           NEW source \in Preparations,
           MergeSolutionPreparations(a, target, source)
    PROVE  IInv'
<1>1. /\ prep \in [Preparations -> PreparationRow \cup {None}]
      /\ useOf \in [Uses -> Preparations]
      /\ prep' = [prep EXCEPT ![source] = None]
      /\ useOf' = [u \in Uses |-> IF useOf[u] = source THEN target
                                  ELSE useOf[u]]
      /\ target # source
      /\ {target, source} \subseteq Preps
      /\ prep[target].solution = prep[source].solution
      /\ ~Referenced(source)
      /\ status = "draft"
      /\ UNCHANGED <<status, exec, members, actual, deviations>>
  BY DEF MergeSolutionPreparations, MergeablePreparations, MayRegroup,
         Regroupable, IInv, TypeOK
<1>2. /\ Preps' = Preps \ {source}
      /\ \A p \in Preps' : prep'[p] = prep[p]
  BY <1>1 DEF Preps
<1>3. TypeOK'
  BY <1>1 DEF IInv, TypeOK
<1>4. UsesGrouped'
  BY <1>1, <1>2 DEF IInv, UsesGrouped
<1>5. MembersGrouped' /\ PlannedOnce'
  BY <1>1, MembersFrame DEF Execs
<1>6. MarkedShared'
  BY <1>1 DEF IInv, MarkedShared, Execs, MembersOf
<1>7. ReadyIsPopulated' /\ CompletedIsSettled' /\ CountedAtTheEnd'
  BY <1>1, DraftPromisesNothing
<1>8. DeviationTargets'
  BY <1>1, <1>2 DEF IInv, DeviationTargets, Execs, Referenced
<1>9. FinalIsRecorded'
  BY <1>1, <1>2 DEF IInv, FinalIsRecorded, Execs
<1> QED
  BY <1>3, <1>4, <1>5, <1>6, <1>7, <1>8, <1>9 DEF IInv

-----------------------------------------------------------------------------
(* Regrouping executions: members that change hands.                         *)

LEMMA MovedMembers ==
    ASSUME NEW M \in SUBSET Members, NEW x \in Executions
    PROVE  /\ \A n \in Moved(M, x) :
                 /\ n \in Members
                 /\ n.execution = x
                 /\ \E m \in M : /\ n = [m EXCEPT !.execution = x]
                                 /\ n.substrate = m.substrate
                                 /\ n.step = m.step
           /\ \A m \in M : /\ [m EXCEPT !.execution = x] \in Moved(M, x)
                           /\ [m EXCEPT !.execution = x].substrate = m.substrate
                           /\ [m EXCEPT !.execution = x].step = m.step
  BY DEF Moved, Members

\* A group spans conditions exactly when it did before it moved.
LEMMA MovedSpans ==
    ASSUME NEW M \in SUBSET Members, NEW N \in SUBSET Members,
           NEW x \in Executions
    PROVE  /\ SpansConditions(Moved(M, x)) <=> SpansConditions(M)
           /\ SpansConditions(N \cup Moved(M, x)) <=> SpansConditions(N \cup M)
<1>1. \A n \in Moved(M, x) : \E m \in M : ConditionOf(n) = ConditionOf(m)
  BY MovedMembers DEF ConditionOf
<1>2. ASSUME NEW m \in M
      PROVE  \E n \in Moved(M, x) : ConditionOf(n) = ConditionOf(m)
  <2>1. /\ [m EXCEPT !.execution = x] \in Moved(M, x)
        /\ [m EXCEPT !.execution = x].substrate = m.substrate
    BY MovedMembers
  <2> QED
    BY <2>1 DEF ConditionOf
<1> QED
  BY <1>1, <1>2 DEF SpansConditions

\* Members that move into an execution of their own process keep what was
\* planned for them.
LEMMA MembersMove ==
    ASSUME IInv, NEW M \in SUBSET members, NEW x \in Executions,
           members' = (members \ M) \cup Moved(M, x), actual' = actual,
           x \in Execs',
           \A m \in M : exec'[x].process = exec[m.execution].process,
           \A m \in members \ M :
              /\ m.execution \in Execs'
              /\ exec'[m.execution].process = exec[m.execution].process
    PROVE  members' \subseteq Members /\ MembersGrouped' /\ PlannedOnce'
<1>1. members \subseteq Members /\ M \subseteq Members
  BY DEF IInv, TypeOK
<1>2. members' \subseteq Members
  BY <1>1, MovedMembers
<1>3. MembersGrouped'
  <2> SUFFICES ASSUME NEW n \in members'
               PROVE  /\ n.execution \in Execs'
                      /\ exec'[n.execution].process = ProcessOf[n.step]
                      /\ n.step \in Recipe[ConditionOf(n)]
                      /\ n.substrate[2] \in 1..Made(ConditionOf(n))
    BY DEF MembersGrouped, Made
  <2>1. \A m \in members : /\ exec[m.execution].process = ProcessOf[m.step]
                           /\ m.step \in Recipe[ConditionOf(m)]
                           /\ m.substrate[2] \in 1..Made(ConditionOf(m))
    BY DEF IInv, MembersGrouped
  <2>2. CASE n \in members \ M
    BY <2>1, <2>2
  <2>3. CASE n \in Moved(M, x)
    <3>1. PICK m \in M : /\ n.substrate = m.substrate
                         /\ n.step = m.step
      BY <1>1, <2>3, MovedMembers
    <3>2. n.execution = x /\ ConditionOf(n) = ConditionOf(m)
      BY <1>1, <2>3, <3>1, MovedMembers DEF ConditionOf
    <3> QED
      BY <2>1, <3>1, <3>2
  <2> QED
    BY <2>2, <2>3
<1>4. PlannedOnce'
  <2> SUFFICES ASSUME NEW c \in Conditions, NEW n \in 1..Planned[c],
                      NEW s \in Recipe[c]
               PROVE  \E m \in RunsOf(c, n, s)' : RunsOf(c, n, s)' = {m}
    BY DEF PlannedOnce
  <2>1. PICK m \in RunsOf(c, n, s) : RunsOf(c, n, s) = {m}
    BY DEF IInv, PlannedOnce
  <2>2. \A r \in members : r.substrate = <<c, n>> /\ r.step = s => r = m
    BY <2>1 DEF RunsOf
  <2>3. /\ m \in members /\ m.substrate = <<c, n>> /\ m.step = s
    BY <2>1 DEF RunsOf
  <2> DEFINE after == IF m \in M THEN [m EXCEPT !.execution = x] ELSE m
  <2>4. after \in members' /\ after.substrate = <<c, n>> /\ after.step = s
    BY <1>1, <2>3, MovedMembers
  <2>5. ASSUME NEW r \in members', r.substrate = <<c, n>>, r.step = s
        PROVE  r = after
    <3>1. CASE r \in members \ M
      BY <2>2, <2>5, <3>1
    <3>2. CASE r \in Moved(M, x)
      <4>1. PICK q \in M : /\ r = [q EXCEPT !.execution = x]
                           /\ r.substrate = q.substrate
                           /\ r.step = q.step
        BY <1>1, <3>2, MovedMembers
      <4>2. q = m
        BY <2>2, <2>5, <4>1
      <4> QED
        BY <4>1, <4>2
    <3> QED
      BY <3>1, <3>2
  <2> HIDE DEF after
  <2>6. RunsOf(c, n, s)' = {after}
    BY <2>4, <2>5 DEF RunsOf
  <2> QED
    BY <2>6
<1> QED
  BY <1>2, <1>3, <1>4

LEMMA SplitExecutionStep ==
    ASSUME IInv, NEW a \in Actors, NEW x \in Executions,
           NEW new \in Executions, NEW selected \in SUBSET MembersOf(x),
           SplitProcessExecution(a, x, new, selected)
    PROVE  IInv'
<1> DEFINE left == MembersOf(x) \ selected
           marked == SpansConditions(selected)
           remarked == SpansConditions(left)
           row == PlannedExecution(exec[x].process, marked, 0)
           rest == [exec[x] EXCEPT !.shared = remarked]
<1>1. /\ exec \in [Executions -> ExecutionRow \cup {None}]
      /\ exec[x] \in ExecutionRow
      /\ exec[new] = None
      /\ x # new
      /\ members \subseteq Members
      /\ selected \subseteq members
      /\ \A m \in selected : m.execution = x
  BY DEF SplitProcessExecution, IInv, TypeOK, MembersOf
<1>2. /\ members' = (members \ selected) \cup Moved(selected, new)
      /\ status = "draft"
      /\ UNCHANGED <<status, prep, useOf, actual, deviations>>
  BY DEF SplitProcessExecution, MayRegroup, Regroupable
<1>3. exec' = [exec EXCEPT ![new] = row, ![x] = rest]
  BY <1>1 DEF SplitProcessExecution
<1>4. marked \in BOOLEAN /\ remarked \in BOOLEAN
  BY SpansIsBoolean
<1> HIDE DEF marked, remarked
<1>5. /\ row \in ExecutionRow
      /\ row.process = exec[x].process
      /\ row.status = "planned"
      /\ row.shared = marked
  BY <1>1, <1>4, PlannedExecutionRow DEF ExecutionRow
<1>6. /\ rest \in ExecutionRow
      /\ rest.process = exec[x].process
      /\ rest.status = exec[x].status
      /\ rest.actual = exec[x].actual
      /\ rest.shared = remarked
  BY <1>1, <1>4, RemarkedExecution
<1> HIDE DEF row, rest
<1>7. /\ Execs' = Execs \cup {new}
      /\ exec'[new] = row
      /\ exec'[x] = rest
      /\ \A y \in Executions \ {new, x} : exec'[y] = exec[y]
  BY <1>1, <1>3, <1>5, <1>6, RowsExist DEF Execs
<1>8. \A m \in members : m.execution \in Execs /\ m.execution \in Executions
  BY DEF IInv, MembersGrouped, Execs
<1>9. members' \subseteq Members /\ MembersGrouped' /\ PlannedOnce'
  <2>1. new \in Execs' /\ actual' = actual
    BY <1>2, <1>7
  <2>2. \A m \in selected : exec'[new].process = exec[m.execution].process
    BY <1>1, <1>5, <1>7
  <2>3. \A m \in members \ selected :
           /\ m.execution \in Execs'
           /\ exec'[m.execution].process = exec[m.execution].process
    BY <1>1, <1>6, <1>7, <1>8 DEF Execs
  <2> QED
    BY <1>1, <1>2, <2>1, <2>2, <2>3, MembersMove
<1>10. TypeOK'
  BY <1>2, <1>3, <1>5, <1>6, <1>9 DEF IInv, TypeOK
<1>11. UsesGrouped'
  BY <1>2, UsesFrame DEF Preps
<1>12. MarkedShared'
  <2> SUFFICES ASSUME NEW y \in Execs', SpansConditions(MembersOf(y)')
               PROVE  exec'[y].shared
    BY DEF MarkedShared
  <2>1. \A n \in Moved(selected, new) : n.execution = new
    BY <1>1, MovedMembers
  <2>2. CASE y = new
    <3>1. MembersOf(y)' = Moved(selected, new)
      BY <1>1, <1>2, <1>8, <2>1, <2>2 DEF MembersOf, Execs
    <3>2. SpansConditions(selected)
      BY <1>1, <3>1, MovedSpans
    <3> QED
      BY <1>5, <1>7, <2>2, <3>2 DEF marked
  <2>3. CASE y = x
    <3>1. MembersOf(y)' = left
      BY <1>1, <1>2, <2>1, <2>3 DEF MembersOf
    <3> QED
      BY <1>6, <1>7, <2>3, <3>1 DEF remarked
  <2>4. CASE y # new /\ y # x
    <3>1. MembersOf(y)' = MembersOf(y)
      BY <1>1, <1>2, <2>1, <2>4 DEF MembersOf
    <3>2. y \in Execs /\ exec'[y] = exec[y]
      BY <1>7, <2>4 DEF Execs
    <3> QED
      BY <3>1, <3>2 DEF IInv, MarkedShared
  <2> QED
    BY <2>2, <2>3, <2>4
<1>13. ReadyIsPopulated' /\ CompletedIsSettled' /\ CountedAtTheEnd'
  BY <1>2, DraftPromisesNothing
<1>14. DeviationTargets'
  BY <1>2, <1>7 DEF IInv, DeviationTargets, Preps
<1>15. FinalIsRecorded'
  <2>1. \A p \in Preps' : prep'[p].status = "consumed" => prep'[p].actual # None
    BY <1>2 DEF IInv, FinalIsRecorded, Preps
  <2>2. ASSUME NEW y \in Execs', exec'[y].status = "completed"
        PROVE  exec'[y].actual # None
    BY <1>1, <1>5, <1>6, <1>7, <2>2, RowsExist
    DEF IInv, FinalIsRecorded, Execs
  <2> QED
    BY <2>1, <2>2 DEF FinalIsRecorded
<1> QED
  BY <1>9, <1>10, <1>11, <1>12, <1>13, <1>14, <1>15 DEF IInv

LEMMA MergeExecutionsStep ==
    ASSUME IInv, NEW a \in Actors, NEW target \in Executions,
           NEW source \in Executions,
           MergeProcessExecutions(a, target, source)
    PROVE  IInv'
<1> DEFINE moving == MembersOf(source)
           marked == SpansConditions(MembersOf(target) \cup moving)
           row == [exec[target] EXCEPT !.shared = marked]
<1>1. /\ exec \in [Executions -> ExecutionRow \cup {None}]
      /\ target # source
      /\ {target, source} \subseteq Execs
      /\ exec[target] \in ExecutionRow
      /\ exec[target].process = exec[source].process
      /\ ~Referenced(source)
      /\ members \subseteq Members
      /\ moving \subseteq members
      /\ \A m \in members : m \in moving <=> m.execution = source
  BY DEF MergeProcessExecutions, MergeableExecutions, IInv, TypeOK, MembersOf,
         Execs
<1>2. /\ members' = (members \ moving) \cup Moved(moving, target)
      /\ status = "draft"
      /\ UNCHANGED <<status, prep, useOf, actual, deviations>>
  BY DEF MergeProcessExecutions, MayRegroup, Regroupable
<1>3. exec' = [exec EXCEPT ![target] = row, ![source] = None]
  BY <1>1 DEF MergeProcessExecutions, SharedAfterMerge
<1>4. marked \in BOOLEAN
  BY SpansIsBoolean
<1> HIDE DEF marked
<1>5. /\ row \in ExecutionRow
      /\ row.process = exec[target].process
      /\ row.status = exec[target].status
      /\ row.actual = exec[target].actual
      /\ row.shared = marked
  BY <1>1, <1>4, RemarkedExecution
<1> HIDE DEF row
<1>6. /\ Execs' = Execs \ {source}
      /\ exec'[target] = row
      /\ \A y \in Executions \ {target, source} : exec'[y] = exec[y]
  BY <1>1, <1>3, <1>5, RowsExist DEF Execs
<1>7. \A m \in members : m.execution \in Execs /\ m.execution \in Executions
  BY DEF IInv, MembersGrouped, Execs
<1>8. members' \subseteq Members /\ MembersGrouped' /\ PlannedOnce'
  <2>1. target \in Execs' /\ actual' = actual
    BY <1>1, <1>2, <1>6
  <2>2. \A m \in moving : exec'[target].process = exec[m.execution].process
    BY <1>1, <1>5, <1>6
  <2>3. \A m \in members \ moving :
           /\ m.execution \in Execs'
           /\ exec'[m.execution].process = exec[m.execution].process
    BY <1>1, <1>5, <1>6, <1>7 DEF Execs
  <2> HIDE DEF moving
  <2> QED
    BY <1>1, <1>2, <2>1, <2>2, <2>3, MembersMove
<1>9. TypeOK'
  BY <1>2, <1>3, <1>5, <1>8 DEF IInv, TypeOK
<1>10. UsesGrouped'
  BY <1>2, UsesFrame DEF Preps
<1>11. MarkedShared'
  <2> SUFFICES ASSUME NEW y \in Execs', SpansConditions(MembersOf(y)')
               PROVE  exec'[y].shared
    BY DEF MarkedShared
  <2>1. \A n \in Moved(moving, target) : n.execution = target
    BY <1>1, MovedMembers
  <2>2. CASE y = target
    <3>1. MembersOf(y)' = MembersOf(target) \cup Moved(moving, target)
      BY <1>1, <1>2, <2>1, <2>2 DEF MembersOf
    <3>2. SpansConditions(MembersOf(target) \cup moving)
      <4>1. /\ MembersOf(target) \in SUBSET Members
            /\ moving \in SUBSET Members
        BY <1>1 DEF MembersOf
      <4>2. SpansConditions(MembersOf(target) \cup Moved(moving, target))
        BY <3>1
      <4> HIDE DEF moving
      <4> QED
        BY <4>1, <4>2, MovedSpans
    <3> QED
      BY <1>5, <1>6, <2>2, <3>2 DEF marked
  <2>3. CASE y # target
    <3>1. MembersOf(y)' = MembersOf(y)
      BY <1>1, <1>2, <1>6, <2>1, <2>3 DEF MembersOf
    <3>2. y \in Execs /\ exec'[y] = exec[y]
      BY <1>6, <2>3 DEF Execs
    <3> QED
      BY <3>1, <3>2 DEF IInv, MarkedShared
  <2> QED
    BY <2>2, <2>3
<1>12. ReadyIsPopulated' /\ CompletedIsSettled' /\ CountedAtTheEnd'
  BY <1>2, DraftPromisesNothing
<1>13. DeviationTargets'
  BY <1>1, <1>2, <1>6 DEF IInv, DeviationTargets, Preps, Referenced
<1>14. FinalIsRecorded'
  <2>1. \A p \in Preps' : prep'[p].status = "consumed" => prep'[p].actual # None
    BY <1>2 DEF IInv, FinalIsRecorded, Preps
  <2>2. ASSUME NEW y \in Execs', exec'[y].status = "completed"
        PROVE  exec'[y].actual # None
    BY <1>1, <1>5, <1>6, <2>2 DEF IInv, FinalIsRecorded, Execs
  <2> QED
    BY <2>1, <2>2 DEF FinalIsRecorded
<1> QED
  BY <1>8, <1>9, <1>10, <1>11, <1>12, <1>13, <1>14 DEF IInv

-----------------------------------------------------------------------------
(* Deviations and the status of the batch.                                   *)

LEMMA DeviationStep ==
    ASSUME IInv, NEW a \in Actors, NEW type \in DeviationTypes,
           NEW target \in Targets, CreateDeviation(a, type, target)
    PROVE  IInv'
<1> DEFINE new == [type |-> type, target |-> target]
<1>1. /\ deviations' = deviations \cup {new}
      /\ target \in Preps \cup Execs \cup Conditions \cup {None}
      /\ UNCHANGED <<status, prep, useOf, exec, members, actual>>
  BY DEF CreateDeviation
<1>2. new \in Deviations /\ new.target = target
  BY DEF Deviations
<1> HIDE DEF new
<1>3. TypeOK'
  BY <1>1, <1>2 DEF IInv, TypeOK
<1>4. UsesGrouped' /\ MembersGrouped' /\ PlannedOnce'
  BY <1>1, UsesFrame, MembersFrame DEF Preps, Execs
<1>5. MarkedShared'
  BY <1>1 DEF IInv, MarkedShared, Execs, MembersOf
<1>6. ReadyIsPopulated' /\ CountedAtTheEnd' /\ FinalIsRecorded'
  BY <1>1 DEF IInv, ReadyIsPopulated, Populated, CountedAtTheEnd,
              FinalIsRecorded, Preps, Execs, UsesOf, MembersOf
<1>7. CompletedIsSettled'
  BY <1>1 DEF IInv, CompletedIsSettled, Settled, Preps, Execs, RunsOf, Made
<1>8. DeviationTargets'
  BY <1>1, <1>2 DEF IInv, DeviationTargets, Preps, Execs
<1> QED
  BY <1>3, <1>4, <1>5, <1>6, <1>7, <1>8 DEF IInv

\* A batch is ready, started or cancelled; the first of these asks for what
\* holds ever after.
LEMMA StatusStep ==
    ASSUME IInv, status # "completed",
           NEW next \in BatchStatuses \ {"completed"}, status' = next,
           next \in {"ready", "in_progress"} => Populated,
           UNCHANGED <<prep, useOf, exec, members, actual, deviations>>
    PROVE  IInv'
<1>1. TypeOK'
  BY DEF IInv, TypeOK
<1>2. UsesGrouped' /\ MembersGrouped' /\ PlannedOnce'
  BY UsesFrame, MembersFrame DEF Preps, Execs
<1>3. MarkedShared'
  BY DEF IInv, MarkedShared, Execs, MembersOf
<1>4. ReadyIsPopulated'
  BY DEF ReadyIsPopulated, Populated, Preps, Execs, UsesOf, MembersOf
<1>5. CompletedIsSettled'
  BY DEF CompletedIsSettled
<1>6. DeviationTargets' /\ FinalIsRecorded' /\ CountedAtTheEnd'
  BY DEF IInv, DeviationTargets, FinalIsRecorded, CountedAtTheEnd, Preps, Execs
<1> QED
  BY <1>1, <1>2, <1>3, <1>4, <1>5, <1>6 DEF IInv

LEMMA ReadyStep ==
    ASSUME IInv, NEW a \in Actors, ReadyBatch(a)
    PROVE  IInv'
<1>1. status # "completed"
  BY DEF ReadyBatch, BatchTransitions
<1> QED
  BY <1>1, StatusStep DEF ReadyBatch, BatchStatuses

LEMMA StartStep ==
    ASSUME IInv, NEW a \in Actors, StartBatch(a)
    PROVE  IInv'
<1>1. status = "ready"
  BY DEF StartBatch, BatchTransitions, BatchStatuses, IInv, TypeOK
<1>2. Populated
  BY <1>1 DEF IInv, ReadyIsPopulated
<1> QED
  BY <1>1, <1>2, StatusStep DEF StartBatch, BatchStatuses

LEMMA CancelStep ==
    ASSUME IInv, NEW a \in Actors, CancelBatch(a)
    PROVE  IInv'
<1>1. status # "completed"
  BY DEF CancelBatch, BatchTransitions
<1> QED
  BY <1>1, StatusStep DEF CancelBatch, BatchStatuses

-----------------------------------------------------------------------------
(* Completion.                                                               *)

\* A substrate made beyond the plan takes the execution, the step and the
\* condition of a member that was there.
LEMMA AttachedMembers ==
    ASSUME IInv, NEW counts \in [Conditions -> 0..MaxCount]
    PROVE  /\ \A n \in Attached(counts) :
                 /\ n \in Members
                 /\ ConditionOf(n) \in Conditions
                 /\ n.substrate[2] \in
                       (Planned[ConditionOf(n)] + 1)..counts[ConditionOf(n)]
                 /\ \E m \in members : /\ ConditionOf(m) = ConditionOf(n)
                                       /\ m.execution = n.execution
                                       /\ m.step = n.step
           /\ \A m \in members : \A k \in Nat :
                 k \in (Planned[ConditionOf(m)] + 1)..counts[ConditionOf(m)] =>
                    \E n \in Attached(counts) :
                       n.substrate = <<ConditionOf(m), k>> /\ n.step = m.step
<1>1. members \subseteq Members
  BY DEF IInv, TypeOK
<1>2. /\ \A c \in Conditions : Planned[c] \in Nat \ {0} /\ counts[c] \in Nat
  BY RecipeType
<1>3. \A m \in members : ConditionOf(m) \in Conditions
  BY <1>1 DEF Members, Substrates, ConditionOf
<1>4. ASSUME NEW n \in Attached(counts)
      PROVE  /\ n \in Members
             /\ ConditionOf(n) \in Conditions
             /\ n.substrate[2] \in
                   (Planned[ConditionOf(n)] + 1)..counts[ConditionOf(n)]
             /\ \E m \in members : /\ ConditionOf(m) = ConditionOf(n)
                                   /\ m.execution = n.execution
                                   /\ m.step = n.step
  <2>1. PICK c \in Conditions, m \in members, k \in Int :
                /\ m \in GroupsOf(c)
                /\ k \in (Planned[c] + 1)..counts[c]
                /\ n = [m EXCEPT !.substrate = <<c, k>>]
    BY DEF Attached, GroupsOf
  <2>2. m \in Members /\ m \in members /\ ConditionOf(m) = c
    BY <1>1, <2>1 DEF GroupsOf
  <2>3. k \in Nat \ {0}
    BY <1>2, <2>1
  <2>4. <<c, k>> \in Substrates
    BY <2>3 DEF Substrates
  <2>5. /\ n \in Members
        /\ n.substrate = <<c, k>>
        /\ n.execution = m.execution
        /\ n.step = m.step
    BY <2>1, <2>2, <2>4 DEF Members
  <2>6. ConditionOf(n) = c /\ n.substrate[2] = k
    BY <2>5 DEF ConditionOf
  <2> QED
    BY <2>1, <2>2, <2>5, <2>6
<1>5. ASSUME NEW m \in members, NEW k \in Nat,
             k \in (Planned[ConditionOf(m)] + 1)..counts[ConditionOf(m)]
      PROVE  \E n \in Attached(counts) :
                n.substrate = <<ConditionOf(m), k>> /\ n.step = m.step
  <2> DEFINE c == ConditionOf(m)
             n == [m EXCEPT !.substrate = <<c, k>>]
  <2>1. c \in Conditions /\ m \in GroupsOf(c) /\ m \in Members
    BY <1>1, <1>3 DEF GroupsOf
  <2>2. n \in Attached(counts)
    BY <1>5, <2>1 DEF Attached
  <2>3. n.substrate = <<c, k>> /\ n.step = m.step
    BY <2>1 DEF Members
  <2> QED
    BY <2>2, <2>3
<1> QED
  BY <1>4, <1>5

LEMMA CompleteStep ==
    ASSUME IInv, NEW a \in Actors, NEW counts \in [Conditions -> 0..MaxCount],
           NEW explained \in SUBSET Conditions,
           CompleteBatch(a, counts, explained)
    PROVE  IInv'
<1> DEFINE explanations == {[type |-> "fabrication_shortfall", target |-> c] :
                              c \in Short(counts)}
<1>1. /\ status = "in_progress"
      /\ status' = "completed"
      /\ actual' = counts
      /\ members' = members \cup Attached(counts)
      /\ deviations' = deviations \cup explanations
      /\ Settled
      /\ UNCHANGED <<prep, useOf, exec>>
  BY DEF CompleteBatch, BatchTransitions, BatchStatuses, IInv, TypeOK
<1>2. \A c \in Conditions : /\ Planned[c] \in Nat \ {0}
                            /\ counts[c] \in Nat
                            /\ counts[c] # None
                            /\ actual[c] = None
  BY <1>1, RecipeType, NoneIsNoCount DEF IInv, CountedAtTheEnd
<1>3. members \subseteq Members
  BY DEF IInv, TypeOK
<1>4. \A m \in members : ConditionOf(m) \in Conditions
  BY <1>3 DEF Members, Substrates, ConditionOf
<1>5. /\ Preps' = Preps /\ Execs' = Execs
  BY <1>1 DEF Preps, Execs
<1>6. TypeOK'
  <2>1. explanations \subseteq Deviations
    BY DEF Deviations, Targets, Short
  <2>2. members' \subseteq Members
    BY <1>1, <1>3, AttachedMembers
  <2>3. actual' \in [Conditions -> Nat \cup {None}]
    BY <1>1, <1>2
  <2> QED
    BY <1>1, <2>1, <2>2, <2>3 DEF IInv, TypeOK, BatchStatuses
<1>7. UsesGrouped'
  BY <1>1, UsesFrame DEF Preps
<1>8. MembersGrouped'
  <2> SUFFICES ASSUME NEW n \in members'
               PROVE  /\ n.execution \in Execs'
                      /\ exec'[n.execution].process = ProcessOf[n.step]
                      /\ n.step \in Recipe[ConditionOf(n)]
                      /\ n.substrate[2] \in 1..Made(ConditionOf(n))'
    BY DEF MembersGrouped
  <2>1. \A m \in members :
           /\ m.execution \in Execs
           /\ exec[m.execution].process = ProcessOf[m.step]
           /\ m.step \in Recipe[ConditionOf(m)]
           /\ m.substrate[2] \in 1..Planned[ConditionOf(m)]
    BY <1>2, <1>4 DEF IInv, MembersGrouped, Made
  <2>2. \A c \in Conditions :
           Made(c)' = IF counts[c] > Planned[c] THEN counts[c] ELSE Planned[c]
    BY <1>1, <1>2 DEF Made
  <2>3. CASE n \in members
    BY <1>1, <1>2, <1>4, <1>5, <2>1, <2>2, <2>3
  <2>4. CASE n \in Attached(counts)
    <3>1. /\ ConditionOf(n) \in Conditions
          /\ n.substrate[2] \in
                (Planned[ConditionOf(n)] + 1)..counts[ConditionOf(n)]
      BY <2>4, AttachedMembers
    <3>2. PICK m \in members : /\ ConditionOf(m) = ConditionOf(n)
                               /\ m.execution = n.execution
                               /\ m.step = n.step
      BY <2>4, AttachedMembers
    <3>3. n.substrate[2] \in 1..Made(ConditionOf(n))'
      BY <1>2, <2>2, <3>1
    <3> QED
      BY <1>1, <1>5, <2>1, <3>2, <3>3
  <2> QED
    BY <1>1, <2>3, <2>4
<1>9. ASSUME NEW c \in Conditions, NEW n \in 1..Planned[c], NEW s \in Recipe[c]
      PROVE  RunsOf(c, n, s)' = RunsOf(c, n, s)
  <2>1. ASSUME NEW m \in Attached(counts) PROVE m.substrate # <<c, n>>
    <3>1. m.substrate[2] > Planned[ConditionOf(m)]
          /\ ConditionOf(m) \in Conditions
      BY <1>2, AttachedMembers
    <3> QED
      BY <1>2, <3>1 DEF ConditionOf
  <2> QED
    BY <1>1, <2>1 DEF RunsOf
<1>10. PlannedOnce'
  BY <1>9 DEF IInv, PlannedOnce
<1>11. MarkedShared'
  <2> SUFFICES ASSUME NEW y \in Execs', SpansConditions(MembersOf(y)')
               PROVE  exec'[y].shared
    BY DEF MarkedShared
  <2>1. \A n \in MembersOf(y)' :
           \E m \in MembersOf(y) : ConditionOf(m) = ConditionOf(n)
    BY <1>1, AttachedMembers DEF MembersOf
  <2>2. SpansConditions(MembersOf(y))
    BY <2>1 DEF SpansConditions
  <2> QED
    BY <1>1, <1>5, <2>2 DEF IInv, MarkedShared
<1>12. ReadyIsPopulated'
  <2>1. Populated
    BY <1>1 DEF IInv, ReadyIsPopulated
  <2>2. \A x \in Execs : MembersOf(x) \subseteq MembersOf(x)'
    BY <1>1 DEF MembersOf
  <2> QED
    BY <1>1, <1>5, <2>1, <2>2 DEF ReadyIsPopulated, Populated, UsesOf
<1>13. CompletedIsSettled'
  <2>1. Settled'
    BY <1>1, <1>5 DEF Settled
  <2>2. /\ \A p \in Preps' :
              prep'[p].status = "consumed" => prep'[p].actual # None
        /\ \A x \in Execs' :
              exec'[x].status = "completed" => exec'[x].actual # None
    BY <1>1, <1>5 DEF IInv, FinalIsRecorded
  <2>3. ASSUME NEW c \in Conditions
        PROVE  /\ actual'[c] # None
               /\ actual'[c] < Planned[c] =>
                     [type |-> "fabrication_shortfall", target |-> c]
                         \in deviations'
    BY <1>1, <1>2 DEF Short
  <2>4. ASSUME NEW c \in Conditions, NEW k \in 1..(Made(c)'),
               NEW s \in Recipe[c]
        PROVE  RunsOf(c, k, s)' # {}
    <3>1. \A n \in 1..Planned[c] : \E m \in RunsOf(c, n, s) : TRUE
      BY DEF IInv, PlannedOnce
    <3>2. CASE k <= Planned[c]
      <4>1. k \in 1..Planned[c]
        BY <1>1, <1>2, <3>2 DEF Made
      <4> QED
        BY <1>9, <3>1, <4>1
    <3>3. CASE ~(k <= Planned[c])
      <4>1. k \in (Planned[c] + 1)..counts[c] /\ k \in Nat
        BY <1>1, <1>2, <3>3 DEF Made
      <4>2. PICK m \in members : m.substrate = <<c, 1>> /\ m.step = s
        BY <1>2, <3>1 DEF RunsOf
      <4>3. ConditionOf(m) = c
        BY <4>2 DEF ConditionOf
      <4>4. k \in (Planned[ConditionOf(m)] + 1)..counts[ConditionOf(m)]
        BY <4>1, <4>3
      <4>5. \E n \in Attached(counts) :
               n.substrate = <<ConditionOf(m), k>> /\ n.step = m.step
        BY <4>1, <4>4, AttachedMembers, Zenon
      <4> QED
        BY <1>1, <4>2, <4>3, <4>5 DEF RunsOf
    <3> QED
      BY <3>2, <3>3
  <2> QED
    BY <2>1, <2>2, <2>3, <2>4 DEF CompletedIsSettled
<1>14. DeviationTargets'
  BY <1>1, <1>5 DEF IInv, DeviationTargets, Short
<1>15. FinalIsRecorded' /\ CountedAtTheEnd'
  BY <1>1, <1>5 DEF IInv, FinalIsRecorded, CountedAtTheEnd
<1> QED
  BY <1>6, <1>7, <1>8, <1>10, <1>11, <1>12, <1>13, <1>14, <1>15 DEF IInv

-----------------------------------------------------------------------------
(* The initial states: one preparation per solution, one execution per        *)
(* process identity.                                                          *)

\* The ids of the grouped preparations name their solutions.
LEMMA InitialPreparations ==
    ASSUME NEW group \in Injection(UsedSolutions, Preparations),
           GroupPreparations(group)
    PROVE  /\ prep \in [Preparations -> PreparationRow \cup {None}]
           /\ useOf \in [Uses -> Preparations]
           /\ UsesGrouped
           /\ \A p \in Preps : prep[p].status = "planned"
<1>1. /\ group \in [UsedSolutions -> Preparations]
      /\ \A s, t \in UsedSolutions : group[s] = group[t] => s = t
  BY DEF Injection, IsInjective
<1>2. UsedSolutions \subseteq Solutions
  BY RecipeType DEF UsedSolutions
<1>3. \A s \in UsedSolutions :
         prep[group[s]] = PlannedPreparation(s, 0)
  <2> SUFFICES ASSUME NEW s \in UsedSolutions
               PROVE  prep[group[s]] = PlannedPreparation(s, 0)
    OBVIOUS
  <2>1. s = CHOOSE t \in UsedSolutions : group[t] = group[s]
    BY <1>1
  <2> QED
    BY <1>1, <2>1 DEF GroupPreparations
<1>4. \A p \in Preparations :
         prep[p] = None \/ \E s \in UsedSolutions : group[s] = p
  BY DEF GroupPreparations
<1>5. \A s \in Solutions : /\ PlannedPreparation(s, 0) \in PreparationRow
                           /\ PlannedPreparation(s, 0).solution = s
                           /\ PlannedPreparation(s, 0).status = "planned"
                           /\ PlannedPreparation(s, 0) # None
  BY PlannedPreparationRow, NoneIsNotARow DEF PlannedPreparation
<1>6. prep \in [Preparations -> PreparationRow \cup {None}]
  <2>1. DOMAIN prep = Preparations
        /\ prep = [p \in Preparations |-> prep[p]]
    BY DEF GroupPreparations
  <2>2. \A p \in Preparations : prep[p] \in PreparationRow \cup {None}
    BY <1>2, <1>3, <1>4, <1>5
  <2> QED
    BY <2>1, <2>2
<1>7. \A u \in Uses : /\ SolutionOf[u] \in UsedSolutions
                      /\ useOf[u] = group[SolutionOf[u]]
  BY DEF UsedSolutions, GroupPreparations
<1>8. useOf \in [Uses -> Preparations]
  BY <1>1, <1>7 DEF GroupPreparations
<1>9. UsesGrouped
  BY <1>1, <1>2, <1>3, <1>5, <1>7 DEF UsesGrouped, Preps
<1>10. \A p \in Preps : prep[p].status = "planned"
  BY <1>2, <1>3, <1>4, <1>5 DEF Preps
<1> QED
  BY <1>6, <1>8, <1>9, <1>10

\* The ids of the grouped executions name their process identities.
LEMMA InitialExecutions ==
    ASSUME NEW group \in Injection(UsedProcesses, Executions),
           GroupExecutions(group)
    PROVE  /\ exec \in [Executions -> ExecutionRow \cup {None}]
           /\ \A o \in UsedProcesses :
                 /\ group[o] \in Execs
                 /\ exec[group[o]].process = o
                 /\ \A s, t \in Slots :
                       /\ ProcessOf[s[2]] = o
                       /\ ProcessOf[t[2]] = o
                       /\ s # t
                       => exec[group[o]].shared
           /\ \A x \in Execs : /\ exec[x].status = "planned"
                               /\ \E o \in UsedProcesses : group[o] = x
<1> DEFINE manyLayers(o) == \E s, t \in Slots : s # t /\ ProcessOf[s[2]] = o
                                                    /\ ProcessOf[t[2]] = o
<1>1. /\ group \in [UsedProcesses -> Executions]
      /\ \A o, q \in UsedProcesses : group[o] = group[q] => o = q
  BY DEF Injection, IsInjective
<1>2. UsedProcesses \subseteq Processes
  BY RecipeType DEF UsedProcesses, Slots
<1>3. \A o \in UsedProcesses :
         exec[group[o]] = PlannedExecution(o, manyLayers(o), 0)
  <2> SUFFICES ASSUME NEW o \in UsedProcesses
               PROVE  exec[group[o]] = PlannedExecution(o, manyLayers(o), 0)
    OBVIOUS
  <2>1. o = CHOOSE q \in UsedProcesses : group[q] = group[o]
    BY <1>1
  <2> QED
    BY <1>1, <2>1 DEF GroupExecutions
<1>4. \A x \in Executions :
         exec[x] = None \/ \E o \in UsedProcesses : group[o] = x
  BY DEF GroupExecutions
<1>5. \A o \in UsedProcesses : manyLayers(o) \in BOOLEAN
  OBVIOUS
<1> HIDE DEF manyLayers
<1>6. \A o \in Processes, b \in BOOLEAN :
         /\ PlannedExecution(o, b, 0) \in ExecutionRow
         /\ PlannedExecution(o, b, 0).process = o
         /\ PlannedExecution(o, b, 0).status = "planned"
         /\ PlannedExecution(o, b, 0) # None
  BY PlannedExecutionRow, NoneIsNotARow DEF PlannedExecution
<1>7. \A o \in UsedProcesses :
         /\ exec[group[o]] \in ExecutionRow
         /\ exec[group[o]].process = o
         /\ exec[group[o]].status = "planned"
         /\ group[o] \in Execs
  BY <1>1, <1>2, <1>3, <1>5, <1>6 DEF Execs
<1>8. \A o \in UsedProcesses : manyLayers(o) => exec[group[o]].shared
  <2>1. \A o \in UsedProcesses :
           PlannedExecution(o, manyLayers(o), 0).shared = manyLayers(o)
    BY <1>2, <1>5, PlannedExecutionRow
  <2> QED
    BY <1>3, <2>1, Zenon
<1>9. exec \in [Executions -> ExecutionRow \cup {None}]
  <2>1. exec = [x \in Executions |-> exec[x]]
    BY DEF GroupExecutions
  <2>2. \A x \in Executions : exec[x] \in ExecutionRow \cup {None}
    BY <1>4, <1>7
  <2> QED
    BY <2>1, <2>2
<1>10. \A x \in Execs : /\ exec[x].status = "planned"
                        /\ \E o \in UsedProcesses : group[o] = x
  BY <1>4, <1>7 DEF Execs
<1>11. \A o \in UsedProcesses : \A s, t \in Slots :
          /\ ProcessOf[s[2]] = o
          /\ ProcessOf[t[2]] = o
          /\ s # t
          => exec[group[o]].shared
  BY <1>8, Zenon DEF manyLayers
<1> QED
  BY <1>7, <1>9, <1>10, <1>11, Zenon

LEMMA InitStep ==
    ASSUME Init
    PROVE  IInv
<1>1. PICK g \in Injection(UsedSolutions, Preparations) : GroupPreparations(g)
  BY DEF Init
<1>2. PICK group \in Injection(UsedProcesses, Executions) :
         GroupExecutions(group)
  BY DEF Init
<1>3. /\ status = "draft"
      /\ actual = [c \in Conditions |-> None]
      /\ deviations = {}
  BY DEF Init
<1>4. group \in [UsedProcesses -> Executions]
  BY DEF Injection
<1>5. \A c \in Conditions : \A s \in Recipe[c] :
         /\ s \in Steps
         /\ <<c, s>> \in Slots
         /\ ProcessOf[s] \in UsedProcesses
  <2> SUFFICES ASSUME NEW c \in Conditions, NEW s \in Recipe[c]
               PROVE  /\ s \in Steps
                      /\ <<c, s>> \in Slots
                      /\ ProcessOf[s] \in UsedProcesses
    OBVIOUS
  <2>1. <<c, s>> \in Slots
    BY DEF Slots
  <2> QED
    BY <2>1, RecipeType DEF UsedProcesses
<1>6. \A m \in members : /\ m \in Members
                         /\ ConditionOf(m) \in Conditions
                         /\ m.step \in Recipe[ConditionOf(m)]
                         /\ m.substrate[2] \in 1..Planned[ConditionOf(m)]
                         /\ m.execution = group[ProcessOf[m.step]]
  <2> SUFFICES ASSUME NEW m \in members
               PROVE  /\ m \in Members
                      /\ ConditionOf(m) \in Conditions
                      /\ m.step \in Recipe[ConditionOf(m)]
                      /\ m.substrate[2] \in 1..Planned[ConditionOf(m)]
                      /\ m.execution = group[ProcessOf[m.step]]
    OBVIOUS
  <2>1. PICK c \in Conditions, s \in Steps, n \in Nat :
           /\ s \in Recipe[c]
           /\ n \in 1..Planned[c]
           /\ m = [execution |-> group[ProcessOf[s]],
                   substrate |-> <<c, n>>, step |-> s]
    BY <1>2, <1>5, RecipeType DEF GroupExecutions
  <2>2. group[ProcessOf[s]] \in Executions
    BY <1>4, <1>5, <2>1
  <2>3. n \in Nat \ {0}
    BY <2>1, RecipeType
  <2> QED
    BY <2>1, <2>2, <2>3 DEF Members, Substrates, ConditionOf
<1>7. \A c \in Conditions : \A n \in 1..Planned[c], s \in Recipe[c] :
         [execution |-> group[ProcessOf[s]], substrate |-> <<c, n>>,
          step |-> s] \in members
  BY <1>2 DEF GroupExecutions
<1>8. TypeOK
  BY <1>1, <1>2, <1>3, <1>6, InitialPreparations, InitialExecutions
  DEF TypeOK, BatchStatuses
<1>9. UsesGrouped
  BY <1>1, InitialPreparations
<1>10. MembersGrouped
  <2>1. \A c \in Conditions : Made(c) = Planned[c]
    BY <1>3 DEF Made
  <2> SUFFICES ASSUME NEW m \in members
               PROVE  /\ m.execution \in Execs
                      /\ exec[m.execution].process = ProcessOf[m.step]
                      /\ m.step \in Recipe[ConditionOf(m)]
                      /\ m.substrate[2] \in 1..Made(ConditionOf(m))
    BY DEF MembersGrouped
  <2>2. ProcessOf[m.step] \in UsedProcesses
    BY <1>5, <1>6
  <2>3. /\ group[ProcessOf[m.step]] \in Execs
        /\ exec[group[ProcessOf[m.step]]].process = ProcessOf[m.step]
    BY <1>2, <2>2, InitialExecutions
  <2> QED
    BY <1>6, <2>1, <2>3
<1>11. PlannedOnce
  <2> SUFFICES ASSUME NEW c \in Conditions, NEW n \in 1..Planned[c],
                      NEW s \in Recipe[c]
               PROVE  \E m \in RunsOf(c, n, s) : RunsOf(c, n, s) = {m}
    BY DEF PlannedOnce
  <2> DEFINE run == [execution |-> group[ProcessOf[s]],
                     substrate |-> <<c, n>>, step |-> s]
  <2>1. run \in RunsOf(c, n, s)
    BY <1>7 DEF RunsOf
  <2>2. ASSUME NEW m \in RunsOf(c, n, s) PROVE m = run
    <3>1. m \in Members /\ m.execution = group[ProcessOf[m.step]]
      BY <1>6 DEF RunsOf
    <3>2. m.substrate = <<c, n>> /\ m.step = s
      BY DEF RunsOf
    <3> QED
      BY <3>1, <3>2 DEF Members
  <2> QED
    BY <2>1, <2>2
<1>12. MarkedShared
  <2> SUFFICES ASSUME NEW x \in Execs, SpansConditions(MembersOf(x))
               PROVE  exec[x].shared
    BY DEF MarkedShared
  <2>1. PICK m \in MembersOf(x), n \in MembersOf(x) :
           ConditionOf(m) # ConditionOf(n)
    BY DEF SpansConditions
  <2>2. PICK o \in UsedProcesses : group[o] = x
    BY <1>2, InitialExecutions
  <2>3. /\ m \in members /\ group[ProcessOf[m.step]] = x
        /\ n \in members /\ group[ProcessOf[n.step]] = x
    BY <1>6 DEF MembersOf
  <2>4. /\ m.step \in Recipe[ConditionOf(m)] /\ ConditionOf(m) \in Conditions
        /\ n.step \in Recipe[ConditionOf(n)] /\ ConditionOf(n) \in Conditions
    BY <1>6, <2>3
  <2>5. ProcessOf[m.step] = o /\ ProcessOf[n.step] = o
    BY <1>2, <1>5, <2>2, <2>3, <2>4 DEF Injection, IsInjective
  <2> DEFINE s == <<ConditionOf(m), m.step>>
             t == <<ConditionOf(n), n.step>>
  <2>6. s \in Slots /\ t \in Slots /\ s # t
    BY <1>5, <2>1, <2>4
  <2>7. ProcessOf[s[2]] = o /\ ProcessOf[t[2]] = o
    BY <2>5
  <2> HIDE DEF s, t
  <2>8. exec[group[o]].shared
    BY <1>2, <2>6, <2>7, InitialExecutions
  <2> QED
    BY <2>2, <2>8
<1>13. ReadyIsPopulated /\ CompletedIsSettled
  BY <1>3 DEF ReadyIsPopulated, CompletedIsSettled
<1>14. DeviationTargets
  BY <1>3 DEF DeviationTargets
<1>15. FinalIsRecorded
  BY <1>1, <1>2, InitialPreparations, InitialExecutions DEF FinalIsRecorded
<1>16. CountedAtTheEnd
  BY <1>3 DEF CountedAtTheEnd
<1> QED
  BY <1>8, <1>9, <1>10, <1>11, <1>12, <1>13, <1>14, <1>15, <1>16 DEF IInv

LEMMA StutterStep ==
    ASSUME IInv, UNCHANGED vars
    PROVE  IInv'
<1>1. /\ Preps' = Preps
      /\ Execs' = Execs
      /\ Populated' = Populated
      /\ Settled' = Settled
      /\ \A c : Made(c)' = Made(c)
      /\ \A c, n, s : RunsOf(c, n, s)' = RunsOf(c, n, s)
      /\ \A x : MembersOf(x)' = MembersOf(x)
  BY DEF vars, Preps, Execs, Populated, Settled, Made, RunsOf, MembersOf, UsesOf
<1>2. TypeOK' /\ UsesGrouped' /\ MembersGrouped' /\ PlannedOnce'
  BY <1>1 DEF IInv, vars, TypeOK, UsesGrouped, MembersGrouped, PlannedOnce
<1>3. MarkedShared' /\ ReadyIsPopulated' /\ CompletedIsSettled'
  BY <1>1 DEF IInv, vars, MarkedShared, ReadyIsPopulated, CompletedIsSettled
<1>4. DeviationTargets' /\ FinalIsRecorded' /\ CountedAtTheEnd'
  BY <1>1 DEF IInv, vars, DeviationTargets, FinalIsRecorded, CountedAtTheEnd
<1> QED
  BY <1>2, <1>3, <1>4 DEF IInv

LEMMA NextStep ==
    ASSUME IInv, [Next]_vars
    PROVE  IInv'
<1>1. CASE UNCHANGED vars
  BY <1>1, StutterStep
<1>2. ASSUME NEW a \in Actors, NEW p \in Preparations, NEW s \in Solutions,
             CreateSolutionPreparation(a, p, s)
      PROVE  IInv'
  BY <1>2, CreatePreparationStep
<1>3. ASSUME NEW a \in Actors, NEW p \in Preparations,
             NEW new \in Preparations, NEW selected \in SUBSET Uses,
             SplitSolutionPreparation(a, p, new, selected)
      PROVE  IInv'
  BY <1>3, SplitPreparationStep
<1>4. ASSUME NEW a \in Actors, NEW p \in Preparations,
             NEW source \in Preparations,
             MergeSolutionPreparations(a, p, source)
      PROVE  IInv'
  BY <1>4, MergePreparationsStep
<1>5. ASSUME NEW a \in Actors, NEW p \in Preparations,
             NEW target \in PreparationStatuses,
             NEW mode \in RecordingModes \cup {None},
             UpdateSolutionPreparation(a, p, target, mode)
      PROVE  IInv'
  BY <1>5, UpdatePreparationStep
<1>6. ASSUME NEW a \in Actors, NEW x \in Executions, NEW o \in Processes,
             NEW shared \in BOOLEAN, CreateProcessExecution(a, x, o, shared)
      PROVE  IInv'
  BY <1>6, CreateExecutionStep
<1>7. ASSUME NEW a \in Actors, NEW x \in Executions, NEW new \in Executions,
             NEW selected \in SUBSET MembersOf(x),
             SplitProcessExecution(a, x, new, selected)
      PROVE  IInv'
  BY <1>7, SplitExecutionStep
<1>8. ASSUME NEW a \in Actors, NEW x \in Executions, NEW source \in Executions,
             MergeProcessExecutions(a, x, source)
      PROVE  IInv'
  BY <1>8, MergeExecutionsStep
<1>9. ASSUME NEW a \in Actors, NEW x \in Executions,
             NEW target \in ExecutionStatuses,
             NEW mode \in RecordingModes \cup {None},
             UpdateProcessExecution(a, x, target, mode)
      PROVE  IInv'
  BY <1>9, UpdateExecutionStep
<1>10. ASSUME NEW a \in Actors, RecordBatchAsPlanned(a)
       PROVE  IInv'
  BY <1>10, RecordStep
<1>11. ASSUME NEW a \in Actors, NEW type \in DeviationTypes,
              NEW target \in Targets, CreateDeviation(a, type, target)
       PROVE  IInv'
  BY <1>11, DeviationStep
<1>12. ASSUME NEW a \in Actors,
              ReadyBatch(a) \/ StartBatch(a) \/ CancelBatch(a)
       PROVE  IInv'
  BY <1>12, ReadyStep, StartStep, CancelStep
<1>13. ASSUME NEW a \in Actors, NEW counts \in [Conditions -> 0..MaxCount],
              NEW explained \in SUBSET Conditions,
              CompleteBatch(a, counts, explained)
       PROVE  IInv'
  BY <1>13, CompleteStep
<1> QED
  BY <1>1, <1>2, <1>3, <1>4, <1>5, <1>6, <1>7, <1>8, <1>9, <1>10, <1>11,
     <1>12, <1>13
  DEF Next

\* Every reachable state of a run sheet satisfies the inductive invariant.
THEOREM Invariance == Spec => []IInv
<1>1. Init => IInv
  BY InitStep
<1>2. IInv /\ [Next]_vars => IInv'
  BY NextStep
<1> QED
  BY <1>1, <1>2, PTL DEF Spec

-----------------------------------------------------------------------------
(* The results.                                                              *)

\* No handler writes a row, a membership, a count or a status outside its type.
THEOREM RunSheetTyped == Spec => []TypeOK
<1>1. IInv => TypeOK
  BY DEF IInv
<1> QED
  BY <1>1, Invariance, PTL

\* However the preparations of a batch are split and merged, every solution use
\* draws on a preparation that exists and is of the solution of its own recipe.
THEOREM UsesStayGrouped == Spec => []UsesGrouped
<1>1. IInv => UsesGrouped
  BY DEF IInv
<1> QED
  BY <1>1, Invariance, PTL

\* However the executions are split and merged, every member is a substrate that
\* was made, in an execution that exists and runs the process its recipe asks
\* for.
THEOREM MembersStayGrouped == Spec => []MembersGrouped
<1>1. IInv => MembersGrouped
  BY DEF IInv
<1> QED
  BY <1>1, Invariance, PTL

\* Split, merge and completion lose no planned work and do none twice.
THEOREM NoWorkLostOrDoubled == Spec => []PlannedOnce
<1>1. IInv => PlannedOnce
  BY DEF IInv
<1> QED
  BY <1>1, Invariance, PTL

\* An execution that processes substrates of two conditions is marked as
\* shared, whatever splits and merges put its members together.
THEOREM SharingStaysMarked == Spec => []MarkedShared
<1>1. IInv => MarkedShared
  BY DEF IInv
<1> QED
  BY <1>1, Invariance, PTL

\* The check that readying makes once stays true until the batch is closed: no
\* preparation loses its last use, no execution its last member.
THEOREM ReadyStaysPopulated == Spec => []ReadyIsPopulated
<1>1. IInv => ReadyIsPopulated
  BY DEF IInv
<1> QED
  BY <1>1, Invariance, PTL

\* A completed batch is accounted for and stays so: every row terminal and
\* recorded, every count entered, every shortfall explained, and every substrate
\* made, the extra ones included, processed by its whole recipe.
THEOREM CompletionStaysSettled == Spec => []CompletedIsSettled
<1>1. IInv => CompletedIsSettled
  BY DEF IInv
<1> QED
  BY <1>1, Invariance, PTL

\* No merge deletes the row that a deviation is about.
THEOREM DeviationsKeepTargets == Spec => []DeviationTargets
<1>1. IInv => DeviationTargets
  BY DEF IInv
<1> QED
  BY <1>1, Invariance, PTL

-----------------------------------------------------------------------------
(* What is closed stays closed.                                              *)

\* The parts of TerminalForGood.
FinalRowsStay ==
    /\ \A p \in TerminalPreps : prep'[p] = prep[p]
    /\ \A x \in TerminalExecs :
          exec'[x] = [exec[x] EXCEPT !.shared = exec'[x].shared]

GroupsStay ==
    status # "draft" =>
        /\ useOf' = useOf /\ members \subseteq members'
        /\ Preps' = Preps /\ Execs' = Execs
        /\ members' # members => status' = "completed"

ClosedStays ==
    status \in {"completed", "cancelled"} =>
        /\ UNCHANGED <<status, prep, useOf, exec, members, actual>>
        /\ deviations \subseteq deviations'

\* A row of an execution is what it was when its mark is, too.
LEMMA SameButForTheMark ==
    ASSUME NEW row \in ExecutionRow
    PROVE  row = [row EXCEPT !.shared = row.shared]
  BY DEF ExecutionRow

LEMMA ExecutionRowsStay ==
    ASSUME TypeOK, exec' = exec
    PROVE  \A x \in TerminalExecs :
              exec'[x] = [exec[x] EXCEPT !.shared = exec'[x].shared]
<1>1. \A x \in TerminalExecs : exec[x] \in ExecutionRow
  BY DEF TypeOK, TerminalExecs, Execs
<1> QED
  BY <1>1, SameButForTheMark

\* Most steps that are not a regrouping leave the rows alone.
LEMMA RowsUntouched ==
    ASSUME TypeOK, prep' = prep, exec' = exec
    PROVE  FinalRowsStay /\ Preps' = Preps /\ Execs' = Execs
  BY ExecutionRowsStay DEF FinalRowsStay, Preps, Execs

\* In a draft only the rows matter.
LEMMA DraftKeeps ==
    ASSUME status = "draft", FinalRowsStay
    PROVE  FinalRowsStay /\ GroupsStay /\ ClosedStays
  BY DEF GroupsStay, ClosedStays

\* What regroups preparations writes rows that are planned or are not there.
LEMMA PreparationsRegrouped ==
    ASSUME TypeOK, NEW a \in Actors, NEW p \in Preparations,
           \/ \E s \in Solutions : CreateSolutionPreparation(a, p, s)
           \/ \E new \in Preparations, selected \in SUBSET Uses :
                 SplitSolutionPreparation(a, p, new, selected)
           \/ \E source \in Preparations :
                 MergeSolutionPreparations(a, p, source)
    PROVE  status = "draft" /\ FinalRowsStay
<1>1. status = "draft" /\ exec' = exec
  BY DEF CreateSolutionPreparation, SplitSolutionPreparation,
         MergeSolutionPreparations, MayRegroup, Regroupable
<1>2. PICK q, row : /\ q \in Preparations
                    /\ prep[q] = None \/ prep[q].status = "planned"
                    /\ prep' = [prep EXCEPT ![q] = row]
  BY DEF CreateSolutionPreparation, SplitSolutionPreparation,
         MergeSolutionPreparations, MergeablePreparations
<1>3. \A r \in TerminalPreps : r # q
  BY <1>2 DEF TerminalPreps, Preps, ConsumedOrDiscarded
<1>4. \A r \in TerminalPreps : prep'[r] = prep[r]
  BY <1>2, <1>3 DEF TypeOK, TerminalPreps, Preps
<1> QED
  BY <1>1, <1>4, ExecutionRowsStay DEF FinalRowsStay

\* The same of executions; the one that is split keeps its row but for the mark.
LEMMA ExecutionsRegrouped ==
    ASSUME TypeOK, NEW a \in Actors, NEW x \in Executions,
           \/ \E o \in Processes, shared \in BOOLEAN :
                 CreateProcessExecution(a, x, o, shared)
           \/ \E new \in Executions, selected \in SUBSET MembersOf(x) :
                 SplitProcessExecution(a, x, new, selected)
           \/ \E source \in Executions : MergeProcessExecutions(a, x, source)
    PROVE  status = "draft" /\ FinalRowsStay
<1>1. status = "draft" /\ prep' = prep
  BY DEF CreateProcessExecution, SplitProcessExecution,
         MergeProcessExecutions, MayRegroup, Regroupable
<1>2. ASSUME NEW y \in TerminalExecs
      PROVE  exec'[y] = [exec[y] EXCEPT !.shared = exec'[y].shared]
  <2>1. /\ y \in Executions /\ exec[y] \in ExecutionRow /\ exec[y] # None
        /\ exec[y].status # "planned"
    BY DEF TypeOK, TerminalExecs, Execs, TerminalExecution
  <2>2. ASSUME NEW o \in Processes, NEW shared \in BOOLEAN,
               CreateProcessExecution(a, x, o, shared)
        PROVE  exec'[y] = exec[y]
    BY <2>1, <2>2 DEF CreateProcessExecution, TypeOK
  <2>3. ASSUME NEW new \in Executions, NEW selected \in SUBSET MembersOf(x),
               SplitProcessExecution(a, x, new, selected)
        PROVE  exec'[y] = [exec[y] EXCEPT !.shared = exec'[y].shared]
    <3>1. PICK row, mark :
             exec' = [exec EXCEPT ![new] = row, ![x].shared = mark]
      BY <2>3 DEF SplitProcessExecution
    <3>2. y # new
      BY <2>1, <2>3 DEF SplitProcessExecution
    <3>3. exec'[y] = exec[y] \/ exec'[y] = [exec[y] EXCEPT !.shared = mark]
      BY <2>1, <2>3, <3>1, <3>2 DEF TypeOK, SplitProcessExecution
    <3>4. [exec[y] EXCEPT !.shared = mark].shared = mark
      BY <2>1 DEF ExecutionRow
    <3> QED
      BY <2>1, <3>3, <3>4, SameButForTheMark
  <2>4. ASSUME NEW source \in Executions, MergeProcessExecutions(a, x, source)
        PROVE  exec'[y] = exec[y]
    <3>1. PICK mark : exec' = [exec EXCEPT ![x].shared = mark,
                                           ![source] = None]
      BY <2>4 DEF MergeProcessExecutions
    <3>2. y # x /\ y # source
      BY <2>1, <2>4 DEF MergeProcessExecutions, MergeableExecutions
    <3> QED
      BY <2>1, <3>1, <3>2 DEF TypeOK
  <2> QED
    BY <2>1, <2>2, <2>3, <2>4, SameButForTheMark
<1> QED
  BY <1>1, <1>2 DEF FinalRowsStay

\* A recording writes rows that are there and are not final, in an open batch.
LEMMA RowsRecorded ==
    ASSUME TypeOK, Recordable,
           UNCHANGED <<status, useOf, members, actual, deviations>>,
           \A p \in Preparations :
              \/ prep'[p] = prep[p]
              \/ /\ prep[p] # None /\ prep'[p] # None
                 /\ prep[p].status \notin ConsumedOrDiscarded,
           \A x \in Executions :
              \/ exec'[x] = exec[x]
              \/ /\ exec[x] # None /\ exec'[x] # None
                 /\ exec[x].status \notin TerminalExecution
    PROVE  FinalRowsStay /\ GroupsStay /\ ClosedStays
<1>1. Preps' = Preps /\ Execs' = Execs
  BY DEF Preps, Execs
<1>2. \A p \in TerminalPreps : prep'[p] = prep[p]
  BY DEF TerminalPreps, Preps
<1>3. \A x \in TerminalExecs : /\ exec'[x] = exec[x]
                               /\ exec[x] \in ExecutionRow
  BY DEF TerminalExecs, Execs, TypeOK
<1>4. FinalRowsStay
  BY <1>2, <1>3, SameButForTheMark DEF FinalRowsStay
<1> QED
  BY <1>1, <1>4 DEF GroupsStay, ClosedStays, Recordable

LEMMA RecordingKeeps ==
    ASSUME TypeOK, NEW a \in Actors,
           \/ \E p \in Preparations, target \in PreparationStatuses,
                 mode \in RecordingModes \cup {None} :
                 UpdateSolutionPreparation(a, p, target, mode)
           \/ \E x \in Executions, target \in ExecutionStatuses,
                 mode \in RecordingModes \cup {None} :
                 UpdateProcessExecution(a, x, target, mode)
           \/ RecordBatchAsPlanned(a)
    PROVE  FinalRowsStay /\ GroupsStay /\ ClosedStays
<1>1. ASSUME NEW p \in Preparations, NEW target \in PreparationStatuses,
             NEW mode \in RecordingModes \cup {None},
             UpdateSolutionPreparation(a, p, target, mode)
      PROVE  FinalRowsStay /\ GroupsStay /\ ClosedStays
  <2> DEFINE kept == IF mode = None THEN prep[p].actual ELSE mode
             row == [prep[p] EXCEPT !.status = target, !.actual = kept]
  <2>1. /\ prep[p] # None /\ prep[p] \in PreparationRow
        /\ prep[p].status \notin ConsumedOrDiscarded
        /\ Recordable
        /\ UNCHANGED <<status, useOf, exec, members, actual, deviations>>
    BY <1>1 DEF UpdateSolutionPreparation, MayRecord, TypeOK
  <2>2. prep' = [prep EXCEPT ![p] = row]
    BY <1>1, <2>1 DEF UpdateSolutionPreparation, PreparationRow, TypeOK
  <2>3. row # None
    <3>1. kept \in RecordingModes \cup {None}
      BY <2>1 DEF PreparationRow
    <3> HIDE DEF kept
    <3>2. row \in PreparationRow
      BY <2>1, <3>1 DEF PreparationRow
    <3> QED
      BY <3>2, RowsExist
  <2> HIDE DEF row
  <2> QED
    BY <2>1, <2>2, <2>3, RowsRecorded DEF TypeOK
<1>2. ASSUME NEW x \in Executions, NEW target \in ExecutionStatuses,
             NEW mode \in RecordingModes \cup {None},
             UpdateProcessExecution(a, x, target, mode)
      PROVE  FinalRowsStay /\ GroupsStay /\ ClosedStays
  <2> DEFINE kept == IF mode = None THEN exec[x].actual ELSE mode
             row == [exec[x] EXCEPT !.status = target, !.actual = kept]
  <2>1. /\ exec[x] # None /\ exec[x] \in ExecutionRow
        /\ exec[x].status \notin TerminalExecution
        /\ Recordable
        /\ UNCHANGED <<status, prep, useOf, members, actual, deviations>>
    BY <1>2 DEF UpdateProcessExecution, MayRecord, TypeOK
  <2>2. exec' = [exec EXCEPT ![x] = row]
    BY <1>2, <2>1 DEF UpdateProcessExecution, ExecutionRow, TypeOK
  <2>3. row # None
    <3>1. kept \in RecordingModes \cup {None}
      BY <2>1 DEF ExecutionRow
    <3> HIDE DEF kept
    <3>2. row \in ExecutionRow
      BY <2>1, <3>1 DEF ExecutionRow
    <3> QED
      BY <3>2, RowsExist
  <2> HIDE DEF row
  <2> QED
    BY <2>1, <2>2, <2>3, RowsRecorded DEF TypeOK
<1>3. ASSUME RecordBatchAsPlanned(a)
      PROVE  FinalRowsStay /\ GroupsStay /\ ClosedStays
  <2> DEFINE Copied(row) == [row EXCEPT !.actual = "copied_from_plan"]
  <2>1. /\ Recordable
        /\ UNCHANGED <<status, useOf, members, actual, deviations>>
    BY <1>3 DEF RecordBatchAsPlanned, MayRecord
  <2>2. ASSUME NEW p \in Preparations, prep'[p] # prep[p]
        PROVE  /\ prep[p] # None /\ prep'[p] # None
               /\ prep[p].status \notin ConsumedOrDiscarded
    <3>1. /\ prep[p] # None /\ prep[p].status \notin ConsumedOrDiscarded
          /\ prep'[p] = Copied(prep[p])
      BY <1>3, <2>2 DEF RecordBatchAsPlanned, Preps
    <3>2. prep[p] \in PreparationRow
      BY <3>1 DEF TypeOK
    <3>3. Copied(prep[p]) \in PreparationRow
      BY <3>2 DEF PreparationRow, RecordingModes
    <3> QED
      BY <3>1, <3>3, RowsExist
  <2>3. ASSUME NEW x \in Executions, exec'[x] # exec[x]
        PROVE  /\ exec[x] # None /\ exec'[x] # None
               /\ exec[x].status \notin TerminalExecution
    <3>1. /\ exec[x] # None /\ exec[x].status \notin TerminalExecution
          /\ exec'[x] = Copied(exec[x])
      BY <1>3, <2>3 DEF RecordBatchAsPlanned, Execs
    <3>2. exec[x] \in ExecutionRow
      BY <3>1 DEF TypeOK
    <3>3. Copied(exec[x]) \in ExecutionRow
      BY <3>2 DEF ExecutionRow, RecordingModes
    <3> QED
      BY <3>1, <3>3, RowsExist
  <2> QED
    BY <2>1, <2>2, <2>3, RowsRecorded
<1> QED
  BY <1>1, <1>2, <1>3

\* No status follows a final one.
LEMMA AdvanceKeeps ==
    ASSUME TypeOK, NEW a \in Actors,
           \/ ReadyBatch(a) \/ StartBatch(a) \/ CancelBatch(a)
           \/ \E counts \in [Conditions -> 0..MaxCount],
                 explained \in SUBSET Conditions :
                 CompleteBatch(a, counts, explained)
    PROVE  FinalRowsStay /\ GroupsStay /\ ClosedStays
<1>1. /\ UNCHANGED <<prep, useOf, exec>>
      /\ members \subseteq members'
      /\ members' # members => status' = "completed"
  BY DEF ReadyBatch, StartBatch, CancelBatch, CompleteBatch
<1>2. \E next \in {"ready", "in_progress", "cancelled", "completed"} :
         next \in BatchTransitions(status)
  BY DEF ReadyBatch, StartBatch, CancelBatch, CompleteBatch
<1>3. status \notin {"completed", "cancelled"}
  BY <1>2 DEF BatchTransitions
<1>4. FinalRowsStay /\ Preps' = Preps /\ Execs' = Execs
  BY <1>1, RowsUntouched
<1> QED
  BY <1>1, <1>3, <1>4 DEF GroupsStay, ClosedStays

LEMMA TerminalStep ==
    TypeOK /\ [Next]_vars => FinalRowsStay /\ GroupsStay /\ ClosedStays
<1> SUFFICES ASSUME TypeOK, [Next]_vars
             PROVE  FinalRowsStay /\ GroupsStay /\ ClosedStays
  OBVIOUS
<1>1. ASSUME UNCHANGED vars
      PROVE  FinalRowsStay /\ GroupsStay /\ ClosedStays
  <2>1. UNCHANGED <<status, prep, useOf, exec, members, actual, deviations>>
    BY <1>1 DEF vars
  <2> QED
    BY <2>1, RowsUntouched DEF GroupsStay, ClosedStays
<1>2. ASSUME NEW a \in Actors, NEW type \in DeviationTypes,
             NEW target \in Targets, CreateDeviation(a, type, target)
      PROVE  FinalRowsStay /\ GroupsStay /\ ClosedStays
  <2>1. /\ UNCHANGED <<status, prep, useOf, exec, members, actual>>
        /\ deviations \subseteq deviations'
    BY <1>2 DEF CreateDeviation
  <2> QED
    BY <2>1, RowsUntouched DEF GroupsStay, ClosedStays
<1>3. ASSUME NEW a \in Actors, NEW p \in Preparations,
             \/ \E s \in Solutions : CreateSolutionPreparation(a, p, s)
             \/ \E new \in Preparations, selected \in SUBSET Uses :
                   SplitSolutionPreparation(a, p, new, selected)
             \/ \E source \in Preparations :
                   MergeSolutionPreparations(a, p, source)
      PROVE  FinalRowsStay /\ GroupsStay /\ ClosedStays
  BY <1>3, PreparationsRegrouped, DraftKeeps
<1>4. ASSUME NEW a \in Actors, NEW x \in Executions,
             \/ \E o \in Processes, shared \in BOOLEAN :
                   CreateProcessExecution(a, x, o, shared)
             \/ \E new \in Executions, selected \in SUBSET MembersOf(x) :
                   SplitProcessExecution(a, x, new, selected)
             \/ \E source \in Executions : MergeProcessExecutions(a, x, source)
      PROVE  FinalRowsStay /\ GroupsStay /\ ClosedStays
  BY <1>4, ExecutionsRegrouped, DraftKeeps
<1> QED
  BY <1>1, <1>2, <1>3, <1>4, RecordingKeeps, AdvanceKeeps DEF Next

\* "terminal preparations, executions, and Batches are immutable", as far as it
\* holds: final rows are not written again but for the mark of a split, a batch
\* that has left the draft keeps its groups, to which only completion adds, and
\* a closed one takes nothing but deviations (the handlers of batch.py).
THEOREM TerminalStaysForGood == Spec => TerminalForGood
<1>1. FinalRowsStay /\ GroupsStay /\ ClosedStays
         => /\ \A p \in TerminalPreps : prep'[p] = prep[p]
            /\ \A x \in TerminalExecs :
                  exec'[x] = [exec[x] EXCEPT !.shared = exec'[x].shared]
            /\ status # "draft" =>
                  /\ useOf' = useOf /\ members \subseteq members'
                  /\ Preps' = Preps /\ Execs' = Execs
                  /\ members' # members => status' = "completed"
            /\ status \in {"completed", "cancelled"} =>
                  /\ UNCHANGED <<status, prep, useOf, exec, members, actual>>
                  /\ deviations \subseteq deviations'
  BY DEF FinalRowsStay, GroupsStay, ClosedStays
<1> QED
  BY <1>1, TerminalStep, RunSheetTyped, PTL DEF Spec, TerminalForGood

=============================================================================
