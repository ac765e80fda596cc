------------------------- MODULE PlanApprovalProofs -------------------------
(* Proofs about PlanApproval for every choice of its constants.              *)
EXTENDS PlanApproval, TLAPS

USE DEF Roles, PlanTypes, PlanStatuses, Decisions

\* A condition row is never taken for an absent one, and so on for the others.
LEMMA NoneDiffers ==
    /\ \A r \in ConditionRow : r # None
    /\ \A r \in ExceptionRow : r # None
    /\ \A r \in OpenTxn : r # None
    /\ \A r \in Content : r # None
  BY NoneIsNoValue

-----------------------------------------------------------------------------
(* Type correctness.                                                         *)

LEMMA TypeInit == Init => TypeOK
  BY DEF Init, TypeOK, Live

LEMMA TypeStep == TypeOK /\ [Next]_vars => TypeOK'
<1> SUFFICES ASSUME TypeOK, [Next]_vars PROVE TypeOK'
  OBVIOUS
<1> USE NoneDiffers DEF TypeOK, Live
<1>1. ASSUME NEW a \in Actors, NEW c \in Conditions, NEW role \in Roles,
             NEW h \in Hashes, NEW n \in Counts,
             CreateCondition(a, c, role, h, n)
      PROVE  TypeOK'
  <2>1. [role |-> role, hash |-> h, planned |-> n, review |-> FALSE]
          \in ConditionRow
    BY DEF ConditionRow
  <2>2. cond' \in Content
    BY <1>1, <2>1 DEF CreateCondition, Content
  <2>3. planStatus' \in PlanStatuses
    BY <1>1 DEF CreateCondition, StatusAfterCreate
  <2> QED
    BY <1>1, <2>1, <2>2, <2>3 DEF CreateCondition, Content
<1>2. ASSUME NEW t \in Txns, NEW a \in Actors, NEW c \in Conditions,
             NEW h \in Hashes, NEW n \in Counts, BeginUpdate(t, a, c, h, n)
      PROVE  TypeOK'
  <2>1. cond[c] \in ConditionRow
    BY <1>2 DEF BeginUpdate, Content
  <2>2. [op |-> "update", condition |-> c, hash |-> h, planned |-> n,
         read |-> cond[c]] \in OpenTxn
    BY <2>1 DEF OpenTxn
  <2>3. txn' \in [Txns -> OpenTxn \cup {None}]
    BY <1>2, <2>2 DEF BeginUpdate
  <2> QED
    BY <1>2, <2>3 DEF BeginUpdate
<1>3. ASSUME NEW t \in Txns, NEW a \in Actors, NEW c \in Conditions,
             BeginDelete(t, a, c)
      PROVE  TypeOK'
  <2>1. [op |-> "delete", condition |-> c] \in OpenTxn
    BY DEF OpenTxn
  <2> QED
    BY <1>3, <2>1 DEF BeginDelete
<1>4. ASSUME NEW t \in Txns, NEW a \in Actors, NEW c \in Conditions,
             NEW n \in Counts, BeginRequest(t, a, c, n)
      PROVE  TypeOK'
  <2>1. [op |-> "request", condition |-> c, planned |-> n] \in OpenTxn
    BY DEF OpenTxn
  <2> QED
    BY <1>4, <2>1 DEF BeginRequest
<1>5. ASSUME NEW t \in Txns, UpdateCondition(t) PROVE TypeOK'
  <2>1. /\ txn[t] \in OpenTxn
        /\ txn[t].condition \in Conditions
        /\ txn[t].hash \in Hashes
        /\ txn[t].planned \in Counts
        /\ txn[t].read.review \in BOOLEAN
    BY <1>5 DEF UpdateCondition, OpenTxn, ConditionRow
  <2>2. ReviewAfterUpdate(txn[t]) \in BOOLEAN
    BY <2>1 DEF ReviewAfterUpdate
  <2>3. cond' \in Content
    <3>1. CASE cond[txn[t].condition] = None
      BY <1>5, <3>1 DEF UpdateCondition
    <3>2. CASE cond[txn[t].condition] # None
      <4>1. cond[txn[t].condition] \in ConditionRow
        BY <2>1, <3>2 DEF Content
      <4>2. cond' = [cond EXCEPT ![txn[t].condition] =
                        [cond[txn[t].condition] EXCEPT
                            !.hash = txn[t].hash,
                            !.planned = txn[t].planned,
                            !.review = ReviewAfterUpdate(txn[t])]]
        BY <1>5, <2>1, <3>2, <4>1 DEF UpdateCondition, Content, ConditionRow
      <4>3. [cond[txn[t].condition] EXCEPT
                !.hash = txn[t].hash,
                !.planned = txn[t].planned,
                !.review = ReviewAfterUpdate(txn[t])] \in ConditionRow
        BY <2>1, <2>2, <4>1 DEF ConditionRow
      <4> QED
        BY <4>2, <4>3 DEF Content
    <3> QED
      BY <3>1, <3>2
  <2>4. Live' \subseteq issued
    BY <1>5, <2>1 DEF UpdateCondition, Content
  <2>5. exc' \in [Exceptions -> ExceptionRow \cup {None}]
    <3>1. exc' = InvalidateExceptions(txn[t].condition)
      BY <1>5 DEF UpdateCondition
    <3>2. ASSUME NEW e \in Exceptions, e \in ActiveFor(txn[t].condition)
          PROVE  Invalidated(exc[e]) \in ExceptionRow
      BY <3>2 DEF ActiveFor, ExceptionRow, Invalidated
    <3> QED
      BY <3>1, <3>2 DEF InvalidateExceptions
  <2> QED
    BY <1>5, <2>3, <2>4, <2>5 DEF UpdateCondition, StatusAfterUpdate
<1>6. ASSUME NEW t \in Txns, DeleteCondition(t) PROVE TypeOK'
  <2>1. cond' \in Content
    BY <1>6 DEF DeleteCondition, Content
  <2>2. exc' \in [Exceptions -> ExceptionRow \cup {None}]
    BY <1>6 DEF DeleteCondition, CascadeDelete
  <2>3. Live' \subseteq issued
    BY <1>6 DEF DeleteCondition, Content
  <2> QED
    BY <1>6, <2>1, <2>2, <2>3 DEF DeleteCondition, StatusAfterDelete
<1>7. ASSUME NEW t \in Txns, RefuseEdit(t) \/ RefuseRequest(t) PROVE TypeOK'
  BY <1>7 DEF RefuseEdit, RefuseRequest
<1>8. ASSUME NEW t \in Txns, NEW e \in Exceptions,
             RequestSubstrateException(t, e)
      PROVE  TypeOK'
  <2>1. /\ txn[t].condition \in Conditions
        /\ txn[t].planned \in Counts
    BY <1>8 DEF RequestSubstrateException, OpenTxn
  <2>2. [condition |-> txn[t].condition, requested |-> txn[t].planned,
         decision |-> "pending", approved_hash |-> None] \in ExceptionRow
    BY <2>1 DEF ExceptionRow
  <2> QED
    BY <1>8, <2>2 DEF RequestSubstrateException
<1>9. ASSUME NEW a \in Actors, NEW e \in Exceptions, NEW decision \in Decisions,
             DecideSubstrateException(a, e, decision)
      PROVE  TypeOK'
  <2>1. exc[e] \in ExceptionRow
    BY <1>9 DEF DecideSubstrateException
  <2>2. cond[exc[e].condition] \in ConditionRow
    BY <1>9, <2>1 DEF DecideSubstrateException, Content
  <2>3. [exc[e] EXCEPT !.decision = decision,
                       !.approved_hash = IF decision = "approved"
                                         THEN cond[exc[e].condition].hash
                                         ELSE exc[e].approved_hash]
          \in ExceptionRow
    BY <2>1, <2>2 DEF ExceptionRow, ConditionRow
  <2>4. exc' \in [Exceptions -> ExceptionRow \cup {None}]
    BY <1>9, <2>1, <2>3 DEF DecideSubstrateException, ExceptionRow
  <2> QED
    BY <1>9, <2>4 DEF DecideSubstrateException
<1>10. ASSUME NEW a \in Actors, NEW target \in PlanStatuses,
              UpdatePlanStatus(a, target)
       PROVE  TypeOK'
  BY <1>10 DEF UpdatePlanStatus
<1>11. ASSUME NEW a \in Actors, NEW b \in Batches, CreateFabricationBatch(a, b)
       PROVE  TypeOK'
  BY <1>11 DEF CreateFabricationBatch
<1>12. CASE UNCHANGED vars
  BY <1>12 DEF vars
<1> QED
  BY <1>1, <1>2, <1>3, <1>4, <1>5, <1>6, <1>7, <1>8, <1>9, <1>10, <1>11, <1>12
  DEF Next

\* Type correctness of every reachable state.
THEOREM TypeCorrect == Spec => []TypeOK
<1>1. Init => TypeOK
  BY TypeInit
<1>2. TypeOK /\ [Next]_vars => TypeOK'
  BY TypeStep
<1> QED
  BY <1>1, <1>2, PTL DEF Spec

-----------------------------------------------------------------------------
(* What each handler does to the exceptions.                                 *)

\* Invalidation touches no exception of another condition, and leaves none
\* approved for its own.
LEMMA InvalidateEffect ==
    ASSUME TypeOK, NEW c \in Conditions, exc' = InvalidateExceptions(c)
    PROVE  \A e \in Exceptions :
              /\ (exc'[e] = None) <=> (exc[e] = None)
              /\ exc'[e] # None => exc'[e].condition = exc[e].condition
              /\ exc'[e] # None /\ exc'[e].decision = "approved" =>
                    /\ exc'[e] = exc[e]
                    /\ exc[e].condition # c
<1> SUFFICES ASSUME NEW e \in Exceptions
    PROVE /\ (exc'[e] = None) <=> (exc[e] = None)
          /\ exc'[e] # None => exc'[e].condition = exc[e].condition
          /\ exc'[e] # None /\ exc'[e].decision = "approved" =>
                /\ exc'[e] = exc[e]
                /\ exc[e].condition # c
  OBVIOUS
<1>1. CASE e \in ActiveFor(c)
  <2>1. exc[e] \in ExceptionRow
    BY <1>1 DEF TypeOK, ActiveFor
  <2>2. exc'[e] = Invalidated(exc[e])
    BY <1>1 DEF InvalidateExceptions
  <2>3. /\ Invalidated(exc[e]) \in ExceptionRow
        /\ Invalidated(exc[e]).condition = exc[e].condition
        /\ Invalidated(exc[e]).decision = "invalidated"
    BY <2>1 DEF ExceptionRow, Invalidated
  <2> QED
    BY <2>1, <2>2, <2>3, NoneDiffers
<1>2. CASE e \notin ActiveFor(c)
  BY <1>2 DEF InvalidateExceptions, ActiveFor
<1> QED
  BY <1>1, <1>2

-----------------------------------------------------------------------------
(* The inductive invariant.                                                  *)

LEMMA InvInit == Init => IInv
<1> SUFFICES ASSUME Init PROVE IInv
  OBVIOUS
<1>1. TypeOK
  BY TypeInit
<1> QED
  BY <1>1
  DEF Init, IInv, ForeignKeys, BatchedPlanIsClosed, BeyondRelease,
      BatchesAreReviewed, HasBatch, FrozenIsPlan,
      ContentIsReviewed, LowCountsApproved, ApprovedStatuses, ApprovalIsCurrent,
      SubmittedShape

\* The four properties that only speak of later statuses survive any step that
\* edits an editable plan into a draft or a submitted one.
LEMMA EditStep ==
    ASSUME IInv, Editable, planStatus' \in {"draft", "pending_approval"},
           UNCHANGED frozen
    PROVE  /\ BatchedPlanIsClosed'
           /\ BatchesAreReviewed'
           /\ ContentIsReviewed'
           /\ FrozenIsPlan'
           /\ LowCountsApproved'
<1>1. ~HasBatch
  BY DEF IInv, BatchedPlanIsClosed, BeyondRelease, Editable
<1> QED
  BY <1>1
  DEF HasBatch, BatchedPlanIsClosed, BeyondRelease, BatchesAreReviewed,
      ContentIsReviewed,
      FrozenIsPlan, LowCountsApproved, ApprovedStatuses

\* Steps that move an open transaction only.
LEMMA TxnStep ==
    ASSUME IInv, TypeOK',
           UNCHANGED <<planType, planStatus, cond, exc, frozen, reviewed>>
    PROVE  IInv'
  BY DEF IInv, ForeignKeys, BatchedPlanIsClosed, BeyondRelease,
         BatchesAreReviewed, HasBatch,
         ContentIsReviewed, FrozenIsPlan, LowCountsApproved, LowCount,
         ApprovedFor, ActiveFor,
         ApprovalIsCurrent, SubmittedShape, ShapeOK, Comparative, Standalone,
         HasRole, Live, ApprovedStatuses

LEMMA InvStep == IInv /\ [Next]_vars => IInv'
<1> SUFFICES ASSUME IInv, [Next]_vars PROVE IInv'
  OBVIOUS
<1>0. TypeOK /\ TypeOK'
  BY TypeStep DEF IInv
<1>1. ASSUME NEW a \in Actors, NEW c \in Conditions, NEW role \in Roles,
             NEW h \in Hashes, NEW n \in Counts,
             CreateCondition(a, c, role, h, n)
      PROVE  IInv'
  <2> DEFINE row == [role |-> role, hash |-> h, planned |-> n, review |-> FALSE]
  <2>1. /\ row \in ConditionRow
        /\ cond[c] = None
        /\ cond'[c] = row
        /\ \A d \in Conditions \ {c} : cond'[d] = cond[d]
    BY <1>0, <1>1 DEF CreateCondition, TypeOK, Live, Content, ConditionRow
  <2>2. /\ Live' = Live \cup {c}
        /\ c \notin Live
    BY <2>1, NoneDiffers DEF Live
  <2>3. Editable /\ planStatus' \in {"draft", "pending_approval"}
    BY <1>1 DEF CreateCondition, StatusAfterCreate
  <2>4. ForeignKeys'
    BY <1>1, <2>2 DEF CreateCondition, IInv, ForeignKeys
  <2>5. ApprovalIsCurrent'
    BY <1>1, <2>1, <2>2 DEF CreateCondition, IInv, ApprovalIsCurrent, Live
  <2>6. SubmittedShape'
    <3>1. CASE planStatus' = "draft"
      BY <3>1 DEF SubmittedShape
    <3>2. CASE planStatus' = "pending_approval"
      <4>1. ShapeOK
        BY <1>1, <3>2 DEF CreateCondition, StatusAfterCreate, IInv,
                          SubmittedShape
      <4>2. planType = "comparative" /\ Comparative
        BY <1>0, <1>1, <4>1 DEF CreateCondition, ShapeOK, Standalone, TypeOK
      <4>3. role = "target"
        BY <1>1, <4>2 DEF CreateCondition, Comparative, HasRole
      <4>4. Comparative'
        BY <2>1, <2>2, <4>2, <4>3 DEF Comparative, HasRole, Live
      <4> QED
        BY <1>1, <4>2, <4>4 DEF CreateCondition, SubmittedShape, ShapeOK
    <3> QED
      BY <2>3, <3>1, <3>2
  <2> QED
    BY <1>0, <1>1, <2>3, <2>4, <2>5, <2>6, EditStep DEF CreateCondition, IInv
<1>2. ASSUME NEW t \in Txns, UpdateCondition(t) PROVE IInv'
  <2> DEFINE c == txn[t].condition
  <2>1. /\ c \in Conditions
        /\ Editable
        /\ planStatus' = "draft"
        /\ exc' = InvalidateExceptions(c)
        /\ \A d \in Conditions \ {c} : cond'[d] = cond[d]
    BY <1>0, <1>2
    DEF UpdateCondition, StatusAfterUpdate, TypeOK, OpenTxn, Content
  <2>2. Live' = Live
    <3>1. CASE cond[c] = None
      BY <1>2, <3>1 DEF UpdateCondition, Live
    <3>2. CASE cond[c] # None
      <4>1. cond[c] \in ConditionRow
        BY <1>0, <2>1, <3>2 DEF TypeOK, Content
      <4>2. c \in DOMAIN cond
        BY <1>0, <2>1 DEF TypeOK, Content
      <4>3. cond'[c] = [cond[c] EXCEPT
                           !.hash = txn[t].hash,
                           !.planned = txn[t].planned,
                           !.review = ReviewAfterUpdate(txn[t])]
        BY <1>2, <3>2, <4>2 DEF UpdateCondition
      <4>4. /\ txn[t].hash \in Hashes
            /\ txn[t].planned \in Counts
            /\ ReviewAfterUpdate(txn[t]) \in BOOLEAN
        BY <1>0, <1>2
        DEF UpdateCondition, TypeOK, OpenTxn, ConditionRow, ReviewAfterUpdate
      <4>5. cond'[c] \in ConditionRow
        BY <4>1, <4>3, <4>4 DEF ConditionRow
      <4> QED
        BY <2>1, <3>2, <4>5, NoneDiffers DEF Live
    <3> QED
      BY <3>1, <3>2
  <2>3. \A e \in Exceptions :
           /\ (exc'[e] = None) <=> (exc[e] = None)
           /\ exc'[e] # None => exc'[e].condition = exc[e].condition
           /\ exc'[e] # None /\ exc'[e].decision = "approved" =>
                 /\ exc'[e] = exc[e]
                 /\ exc[e].condition # c
    BY <1>0, <2>1, InvalidateEffect
  <2>4. ForeignKeys'
    BY <2>2, <2>3 DEF IInv, ForeignKeys
  <2>5. ApprovalIsCurrent'
    BY <2>1, <2>2, <2>3 DEF IInv, ApprovalIsCurrent, Live
  <2>6. SubmittedShape'
    BY <2>1 DEF SubmittedShape
  <2> QED
    BY <1>0, <1>2, <2>1, <2>4, <2>5, <2>6, EditStep DEF UpdateCondition, IInv
<1>3. ASSUME NEW t \in Txns, DeleteCondition(t) PROVE IInv'
  <2> DEFINE c == txn[t].condition
  <2>1. /\ c \in Conditions
        /\ Editable
        /\ planStatus' = "draft"
        /\ exc' = CascadeDelete(c)
        /\ cond' = [cond EXCEPT ![c] = None]
    BY <1>0, <1>3 DEF DeleteCondition, StatusAfterDelete, TypeOK, OpenTxn
  <2>2. /\ Live' = Live \ {c}
        /\ \A d \in Conditions \ {c} : cond'[d] = cond[d]
    BY <1>0, <2>1 DEF Live, TypeOK, Content
  <2>3. \A e \in Exceptions : exc'[e] # None =>
           exc'[e] = exc[e] /\ exc[e].condition # c
    BY <2>1 DEF CascadeDelete
  <2>4. ForeignKeys'
    BY <2>2, <2>3 DEF IInv, ForeignKeys
  <2>5. ApprovalIsCurrent'
    BY <2>2, <2>3 DEF IInv, ApprovalIsCurrent, Live
  <2>6. SubmittedShape'
    BY <2>1 DEF SubmittedShape
  <2> QED
    BY <1>0, <1>3, <2>1, <2>4, <2>5, <2>6, EditStep DEF DeleteCondition, IInv
<1>4. ASSUME NEW t \in Txns, NEW e \in Exceptions,
             RequestSubstrateException(t, e)
      PROVE  IInv'
  <2>1. /\ exc[e] = None
        /\ exc'[e].condition \in Live
        /\ exc'[e].decision = "pending"
        /\ \A f \in Exceptions \ {e} : exc'[f] = exc[f]
        /\ UNCHANGED <<planType, planStatus, cond, frozen, reviewed>>
    BY <1>0, <1>4 DEF RequestSubstrateException, TypeOK
  <2>2. ForeignKeys' /\ ApprovalIsCurrent'
    BY <2>1 DEF IInv, ForeignKeys, ApprovalIsCurrent, Live
  <2>3. \A c \in Live : ApprovedFor(c) \subseteq ApprovedFor(c)'
    BY <2>1 DEF ApprovedFor, ActiveFor
  <2>4. LowCountsApproved'
    BY <2>1, <2>3 DEF IInv, LowCountsApproved, LowCount, Live
  <2>5. BatchedPlanIsClosed' /\ BatchesAreReviewed' /\ ContentIsReviewed'
        /\ FrozenIsPlan' /\ SubmittedShape'
    BY <2>1 DEF IInv, BatchedPlanIsClosed, BeyondRelease, BatchesAreReviewed,
                HasBatch, ContentIsReviewed,
                FrozenIsPlan, SubmittedShape, ShapeOK, Comparative, Standalone,
                HasRole, Live
  <2> QED
    BY <1>0, <2>2, <2>4, <2>5 DEF IInv
<1>5. ASSUME NEW a \in Actors, NEW e \in Exceptions, NEW decision \in Decisions,
             DecideSubstrateException(a, e, decision)
      PROVE  IInv'
  <2>1. /\ exc[e] \in ExceptionRow
        /\ exc[e].decision = "pending"
        /\ exc[e].condition \in Live
        /\ \A f \in Exceptions \ {e} : exc'[f] = exc[f]
        /\ exc'[e].condition = exc[e].condition
        /\ exc'[e].decision = decision
        /\ decision = "approved" =>
              exc'[e].approved_hash = cond[exc[e].condition].hash
        /\ UNCHANGED <<planType, planStatus, cond, frozen, reviewed>>
    BY <1>0, <1>5 DEF DecideSubstrateException, TypeOK, ExceptionRow
  <2>2. ForeignKeys' /\ ApprovalIsCurrent'
    BY <2>1, NoneDiffers DEF IInv, ForeignKeys, ApprovalIsCurrent, Live
  <2>3. \A c \in Live : ApprovedFor(c) \subseteq ApprovedFor(c)'
    BY <2>1 DEF ApprovedFor, ActiveFor
  <2>4. LowCountsApproved'
    BY <2>1, <2>3 DEF IInv, LowCountsApproved, LowCount, Live
  <2>5. BatchedPlanIsClosed' /\ BatchesAreReviewed' /\ ContentIsReviewed'
        /\ FrozenIsPlan' /\ SubmittedShape'
    BY <2>1 DEF IInv, BatchedPlanIsClosed, BeyondRelease, BatchesAreReviewed,
                HasBatch, ContentIsReviewed,
                FrozenIsPlan, SubmittedShape, ShapeOK, Comparative, Standalone,
                HasRole, Live
  <2> QED
    BY <1>0, <2>2, <2>4, <2>5 DEF IInv
<1>6. ASSUME NEW a \in Actors, NEW target \in PlanStatuses,
             UpdatePlanStatus(a, target)
      PROVE  IInv'
  <2>1. /\ target \in AllowedTransitions(planStatus)
        /\ planStatus' = target
        /\ ValidatePlanConditions(target)
        /\ reviewed' = IF target = "approved" THEN cond ELSE reviewed
        /\ UNCHANGED <<planType, cond, issued, exc, frozen, txn>>
    BY <1>6 DEF UpdatePlanStatus
  <2>2. ForeignKeys' /\ ApprovalIsCurrent'
    BY <2>1 DEF IInv, ForeignKeys, ApprovalIsCurrent, Live
  <2>3. SubmittedShape'
    BY <2>1 DEF ValidatePlanConditions, SubmittedShape, ShapeOK, Comparative,
                Standalone, HasRole, Live
  <2>4. BatchedPlanIsClosed' /\ BatchesAreReviewed' /\ FrozenIsPlan'
    BY <2>1 DEF IInv, BatchedPlanIsClosed, BeyondRelease, BatchesAreReviewed,
                HasBatch, FrozenIsPlan,
                AllowedTransitions
  <2>5. ContentIsReviewed'
    BY <2>1 DEF IInv, ContentIsReviewed, ApprovedStatuses, AllowedTransitions
  <2>6. LowCountsApproved'
    <3>1. target \in ApprovedStatuses => CountsJustified(target)
      BY <2>1 DEF ValidatePlanConditions, ApprovedStatuses
    <3> QED
      BY <2>1, <3>1
      DEF LowCountsApproved, CountsJustified, ApprovedStatuses, LowCount, Live,
          ApprovedFor, ActiveFor
  <2> QED
    BY <1>0, <2>2, <2>3, <2>4, <2>5, <2>6 DEF IInv
<1>7. ASSUME NEW a \in Actors, NEW b \in Batches, CreateFabricationBatch(a, b)
      PROVE  IInv'
  <2>1. /\ planStatus \in {"released", "in_progress"}
        /\ frozen' = [frozen EXCEPT ![b] = cond]
        /\ UNCHANGED <<planType, planStatus, cond, issued, exc, txn, reviewed>>
    BY <1>7 DEF CreateFabricationBatch, BatchAllowed
  <2>2. BatchedPlanIsClosed' /\ BatchesAreReviewed'
    BY <2>1 DEF IInv, BatchedPlanIsClosed, BeyondRelease, BatchesAreReviewed,
                ContentIsReviewed, ApprovedStatuses
  <2>3. FrozenIsPlan'
    BY <1>0, <2>1 DEF IInv, FrozenIsPlan, TypeOK
  <2>4. ForeignKeys' /\ ApprovalIsCurrent' /\ ContentIsReviewed'
        /\ LowCountsApproved' /\ SubmittedShape'
    BY <2>1 DEF IInv, ForeignKeys, ApprovalIsCurrent, ContentIsReviewed,
                LowCountsApproved, LowCount, ApprovedFor, ActiveFor,
                SubmittedShape, ShapeOK, Comparative, Standalone, HasRole, Live
  <2> QED
    BY <1>0, <2>2, <2>3, <2>4 DEF IInv
<1>8. ASSUME NEW t \in Txns,
             \/ RefuseEdit(t)
             \/ RefuseRequest(t)
             \/ \E a \in Actors, c \in Conditions :
                   \/ \E h \in Hashes, n \in Counts : BeginUpdate(t, a, c, h, n)
                   \/ BeginDelete(t, a, c)
                   \/ \E n \in Counts : BeginRequest(t, a, c, n)
      PROVE  IInv'
  BY <1>0, <1>8, TxnStep
  DEF RefuseEdit, RefuseRequest, BeginUpdate, BeginDelete, BeginRequest
<1>9. CASE UNCHANGED vars
  BY <1>0, <1>9, TxnStep DEF vars
<1> QED
  BY <1>1, <1>2, <1>3, <1>4, <1>5, <1>6, <1>7, <1>8, <1>9 DEF Next

\* Every reachable state satisfies the inductive invariant.
THEOREM Invariance == Spec => []IInv
<1>1. Init => IInv
  BY InvInit
<1>2. IInv /\ [Next]_vars => IInv'
  BY InvStep
<1> QED
  BY <1>1, <1>2, PTL DEF Spec

\* The approval gate: what is approved, released or fabricated is what an
\* instructor approved, and every low count in it is covered.
THEOREM ApprovalGate == Spec => [](ContentIsReviewed /\ LowCountsApproved)
<1>1. IInv => ContentIsReviewed /\ LowCountsApproved
  BY DEF IInv
<1> QED
  BY <1>1, Invariance, PTL

\* A low count in a plan that is approved or further is covered by an approved
\* exception for the current hash of its condition, whatever edits, requests and
\* decisions overlap (the gate of update_plan_status and update_condition).
THEOREM LowCountsStayApproved == Spec => []LowCountsApproved
<1>1. IInv => LowCountsApproved
  BY DEF IInv
<1> QED
  BY <1>1, Invariance, PTL

\* A released plan with a batch never changes again: the batch's frozen
\* conditions stay those of the plan.
THEOREM FrozenForGood == Spec => [](FrozenIsPlan /\ BatchedPlanIsClosed)
<1>1. IInv => FrozenIsPlan /\ BatchedPlanIsClosed
  BY DEF IInv
<1> QED
  BY <1>1, Invariance, PTL

\* An approved exception always carries the current hash of its condition.
THEOREM NoStaleApproval == Spec => []ApprovalIsCurrent
<1>1. IInv => ApprovalIsCurrent
  BY DEF IInv
<1> QED
  BY <1>1, Invariance, PTL

\* No step takes a released plan back to an editable status.
THEOREM ReleaseIsForGood == Spec => ReleaseIsFinal
<1>1. TypeOK /\ [Next]_vars => [BeyondRelease => BeyondRelease']_vars
  <2> SUFFICES ASSUME TypeOK, Next, BeyondRelease PROVE BeyondRelease'
    BY DEF vars
  <2> USE DEF BeyondRelease
  <2>1. ~Editable
    BY DEF Editable
  <2>2. ASSUME NEW a \in Actors, NEW target \in PlanStatuses,
               UpdatePlanStatus(a, target)
        PROVE  BeyondRelease'
    BY <2>2 DEF UpdatePlanStatus, AllowedTransitions
  <2> QED
    BY <2>1, <2>2
    DEF Next, CreateCondition, BeginUpdate, BeginDelete, BeginRequest,
        UpdateCondition, DeleteCondition, RefuseEdit, RefuseRequest,
        RequestSubstrateException, DecideSubstrateException,
        CreateFabricationBatch
<1> QED
  BY <1>1, TypeCorrect, PTL DEF Spec, ReleaseIsFinal

\* Plans under review or beyond have the shape of their type.
THEOREM ShapeIsKept == Spec => []SubmittedShape
<1>1. IInv => SubmittedShape
  BY DEF IInv
<1> QED
  BY <1>1, Invariance, PTL

-----------------------------------------------------------------------------
(* PlanApproval implements ReviewGate.                                       *)

LEMMA PhaseOf ==
    /\ planStatus \in {"draft", "pending_approval"} => Phase = "editing"
    /\ planStatus = "approved" => Phase = "reviewed"
    /\ planStatus \in {"released", "in_progress"} => Phase = "released"
    /\ planStatus \in {"completed", "cancelled"} => Phase = "closed"
  BY DEF Phase

LEMMA GateInit == Init => Gate!Init
<1> SUFFICES ASSUME Init PROVE Gate!Init
  OBVIOUS
<1>1. {frozen[b] : b \in Batches} \ {None} = {}
  BY DEF Init
<1> QED
  BY <1>1, PhaseOf DEF Init, Gate!Init

LEMMA GateStep == IInv /\ IInv' /\ [Next]_vars => [Gate!Next]_(Gate!vars)
<1> SUFFICES ASSUME IInv, IInv', [Next]_vars
             PROVE  [Gate!Next]_(Gate!vars)
  OBVIOUS
<1> DEFINE fabricated == {frozen[b] : b \in Batches} \ {None}
<1>0. /\ TypeOK /\ TypeOK'
      /\ PhaseOf!1 /\ PhaseOf!2 /\ PhaseOf!3 /\ PhaseOf!4
      /\ PhaseOf!1' /\ PhaseOf!2' /\ PhaseOf!3' /\ PhaseOf!4'
  BY DEF IInv, Phase
<1>1. ASSUME Editable, planStatus' \in {"draft", "pending_approval"},
             UNCHANGED <<reviewed, frozen>>
      PROVE  Gate!Edit
  <2>1. Phase \in {"editing", "reviewed"} /\ Phase' = "editing"
    BY <1>0, <1>1 DEF Editable
  <2>2. cond' \in Content
    BY <1>0 DEF TypeOK
  <2> QED
    BY <1>1, <2>1, <2>2 DEF Gate!Edit
<1>2. ASSUME NEW a \in Actors, NEW c \in Conditions, NEW role \in Roles,
             NEW h \in Hashes, NEW n \in Counts,
             CreateCondition(a, c, role, h, n)
      PROVE  Gate!Next
  BY <1>1, <1>2 DEF CreateCondition, StatusAfterCreate, Gate!Next
<1>3. ASSUME NEW t \in Txns, UpdateCondition(t) \/ DeleteCondition(t)
      PROVE  Gate!Next
  BY <1>1, <1>3 DEF UpdateCondition, DeleteCondition, StatusAfterUpdate,
                    StatusAfterDelete, Gate!Next
<1>4. ASSUME NEW a \in Actors, NEW target \in PlanStatuses,
             UpdatePlanStatus(a, target)
      PROVE  Gate!Next \/ UNCHANGED Gate!vars
  <2>1. /\ target \in AllowedTransitions(planStatus)
        /\ planStatus' = target
        /\ reviewed' = IF target = "approved" THEN cond ELSE reviewed
        /\ UNCHANGED <<cond, frozen>>
    BY <1>4 DEF UpdatePlanStatus
  <2>2. CASE target = "approved"
    <3>1. planStatus = "pending_approval"
      BY <1>0, <2>1, <2>2 DEF AllowedTransitions, TypeOK
    <3>2. Gate!Approve
      BY <1>0, <2>1, <2>2, <3>1 DEF Gate!Approve
    <3> QED
      BY <3>2 DEF Gate!Next
  <2>3. CASE target = "released"
    <3>1. planStatus = "approved"
      BY <1>0, <2>1, <2>3 DEF AllowedTransitions, TypeOK
    <3>2. Gate!Release
      BY <1>0, <2>1, <2>3, <3>1 DEF Gate!Release
    <3> QED
      BY <3>2 DEF Gate!Next
  <2>4. CASE target \in {"completed", "cancelled"}
    <3>1. planStatus \notin {"completed", "cancelled"}
      BY <2>1 DEF AllowedTransitions
    <3>2. Phase # "closed" /\ Phase' = "closed"
      BY <1>0, <2>1, <2>4, <3>1 DEF TypeOK
    <3>3. Gate!Close
      BY <2>1, <2>4, <3>2 DEF Gate!Close
    <3> QED
      BY <3>3 DEF Gate!Next
  <2>5. CASE target \in {"pending_approval", "in_progress"}
    <3>1. Phase' = Phase
      BY <1>0, <2>1, <2>5 DEF AllowedTransitions, TypeOK
    <3> QED
      BY <2>1, <2>5, <3>1 DEF Gate!vars
  <2>6. target # "draft"
    BY <2>1 DEF AllowedTransitions
  <2> QED
    BY <2>2, <2>3, <2>4, <2>5, <2>6
<1>5. ASSUME NEW a \in Actors, NEW b \in Batches, CreateFabricationBatch(a, b)
      PROVE  Gate!Next
  <2>1. /\ Phase = "released"
        /\ Phase' = "released"
        /\ frozen[b] = None
        /\ frozen' = [frozen EXCEPT ![b] = cond]
        /\ UNCHANGED <<cond, reviewed>>
    BY <1>0, <1>5 DEF CreateFabricationBatch, BatchAllowed
  <2>2. cond # None
    BY <1>0, NoneDiffers DEF TypeOK
  <2>3. fabricated' = fabricated \cup {cond}
    BY <1>0, <2>1, <2>2 DEF TypeOK
  <2>4. Gate!Fabricate
    BY <2>1, <2>3 DEF Gate!Fabricate
  <2> QED
    BY <2>4 DEF Gate!Next
<1>6. ASSUME UNCHANGED <<planStatus, cond, reviewed, frozen>>
      PROVE  UNCHANGED Gate!vars
  BY <1>6 DEF Gate!vars, Phase
<1>7. ASSUME NEW t \in Txns,
             \/ RefuseEdit(t)
             \/ RefuseRequest(t)
             \/ \E e \in Exceptions : RequestSubstrateException(t, e)
             \/ \E a \in Actors, c \in Conditions :
                   \/ \E h \in Hashes, n \in Counts : BeginUpdate(t, a, c, h, n)
                   \/ BeginDelete(t, a, c)
                   \/ \E n \in Counts : BeginRequest(t, a, c, n)
      PROVE  UNCHANGED Gate!vars
  BY <1>6, <1>7
  DEF RefuseEdit, RefuseRequest, RequestSubstrateException, BeginUpdate,
      BeginDelete, BeginRequest
<1>8. ASSUME NEW a \in Actors, NEW e \in Exceptions, NEW decision \in Decisions,
             DecideSubstrateException(a, e, decision)
      PROVE  UNCHANGED Gate!vars
  BY <1>6, <1>8 DEF DecideSubstrateException
<1>9. CASE UNCHANGED vars
  BY <1>6, <1>9 DEF vars
<1> QED
  BY <1>2, <1>3, <1>4, <1>5, <1>7, <1>8, <1>9 DEF Next

\* Plans move through review exactly as the abstract workflow allows.
THEOREM Refinement == Spec => ImplementsReviewGate
<1>1. Init => Gate!Init
  BY GateInit
<1>2. IInv /\ IInv' /\ [Next]_vars => [Gate!Next]_(Gate!vars)
  BY GateStep
<1> QED
  BY <1>1, <1>2, Invariance, PTL DEF Spec, ImplementsReviewGate, Gate!Spec

\* What any batch froze is the content an instructor approved.
THEOREM OnlyApprovedFrozen == Spec => []OnlyApprovedIsFrozen
<1>1. IInv => OnlyApprovedIsFrozen
  BY DEF IInv, BatchesAreReviewed, FrozenIsPlan, HasBatch, OnlyApprovedIsFrozen,
         Gate!FabricatedWasApproved
<1> QED
  BY <1>1, Invariance, PTL

=============================================================================
