---------------------------- MODULE PlanApproval ----------------------------
(* One experiment plan: its condition rows, the substrate-count exceptions of *)
(* those conditions, the plan status machine, and the freezing of batches     *)
(* (src/web/repository/condition.py, the first half of                        *)
(* create_fabrication_batch in batch.py).                                     *)
(*                                                                            *)
(* The database runs at READ COMMITTED.  A handler that first takes the       *)
(* experiments row FOR UPDATE and reads everything else after it is one       *)
(* atomic action here.  Three handlers are not of that form and take two      *)
(* steps: update_condition and delete_condition read the condition row in the *)
(* statement that waits for the experiments row, so they go on with the       *)
(* condition as it was before the wait; request_substrate_exception locks     *)
(* nothing between its SELECT and its INSERT.                                 *)
EXTENDS Naturals

CONSTANTS
    Conditions,   \* ids the experiment_conditions sequence will issue
    Exceptions,   \* rows of condition_substrate_exceptions
    Batches,      \* rows of fabrication_batches
    Hashes,       \* canonical hashes of recipe snapshots
    Counts,       \* planned substrate counts users enter
    Actors,       \* active accounts
    Instructors,  \* those of rank instructor or above
    Owner,        \* experiments.created_by_id
    Txns,         \* transactions that can be open at once
    None          \* SQL NULL, or the absence of a row

Roles == {"control", "target", "standalone"}
PlanTypes == {"comparative", "standalone"}
PlanStatuses == {"draft", "pending_approval", "approved", "released",
                 "in_progress", "completed", "cancelled"}
Decisions == {"pending", "approved", "rejected", "invalidated"}

ConditionRow == [role: Roles, hash: Hashes, planned: Counts, review: BOOLEAN]
ExceptionRow == [condition: Conditions, requested: Counts,
                 decision: Decisions, approved_hash: Hashes \cup {None}]
OpenTxn ==
    [op: {"update"}, condition: Conditions, hash: Hashes, planned: Counts,
     read: ConditionRow]
      \cup [op: {"delete"}, condition: Conditions]
      \cup [op: {"request"}, condition: Conditions, planned: Counts]
Content == [Conditions -> ConditionRow \cup {None}]

ASSUME CountsArePositive == Counts \subseteq Nat \ {0}
ASSUME OwnerIsAnActor == Owner \in Actors /\ Instructors \subseteq Actors
ASSUME NoneIsNoValue ==
    /\ None \notin Hashes
    /\ None \notin ConditionRow
    /\ None \notin ExceptionRow
    /\ None \notin OpenTxn
    /\ None \notin Content

VARIABLES
    planType,    \* experiments.plan_type
    planStatus,  \* experiments.plan_status
    cond,        \* experiment_conditions, by id
    issued,      \* ids the sequence has issued: they are never reused
    exc,         \* condition_substrate_exceptions
    frozen,      \* what each batch froze (fabrication_batch_conditions)
    txn,         \* open two-statement transactions
    reviewed     \* history: the content an instructor last approved

vars == <<planType, planStatus, cond, issued, exc, frozen, txn, reviewed>>

Live == {c \in Conditions : cond[c] # None}
HasRole(role) == \E c \in Live : cond[c].role = role

\* The routes answer 404 to a student about a plan of someone else, and
\* update_plan_status and request_substrate_exception check it again.
MayEdit(a) == a \in Instructors \/ a = Owner

EditableReleased ==  \* mutation: the guard forgets the released status
    planStatus \in {"draft", "pending_approval", "approved", "released"}
Editable == planStatus \in {"draft", "pending_approval", "approved"}

-----------------------------------------------------------------------------
(* The release gate, _validate_plan_conditions.                              *)

Comparative ==
    /\ \E c \in Live : /\ cond[c].role = "control"
                       /\ \A d \in Live : cond[d].role = "control" => d = c
    /\ HasRole("target")
    /\ ~HasRole("standalone")

Standalone == \E c \in Live : Live = {c} /\ cond[c].role = "standalone"

ShapeOK == IF planType = "comparative" THEN Comparative ELSE Standalone

LowCount(c) == cond[c].planned < 3

ActiveFor(c) ==
    {e \in Exceptions : /\ exc[e] # None
                        /\ exc[e].condition = c
                        /\ exc[e].decision \in {"pending", "approved"}}

ApprovedFor(c) ==
    {e \in ActiveFor(c) : /\ exc[e].decision = "approved"
                          /\ exc[e].approved_hash = cond[c].hash}

\* A submission needs an exception on file for a low count, every later
\* status one that an instructor approved against the current hash.
CountsRequested(target) ==  \* mutation: a request is enough
    \A c \in Live : LowCount(c) => ActiveFor(c) # {}
CountsJustified(target) ==
    \A c \in Live : LowCount(c) =>
        IF target = "pending_approval"
        THEN ActiveFor(c) # {}
        ELSE ApprovedFor(c) # {}

NoManualReview == \A c \in Live : ~cond[c].review

ValidatePlanConditions(target) ==
    target # "cancelled" =>
        /\ ShapeOK
        /\ NoManualReview
        /\ CountsJustified(target)

AllowedShortcut(current) ==  \* mutation: a submitted plan can be released
    CASE current = "draft"            -> {"pending_approval", "cancelled"}
      [] current = "pending_approval" -> {"approved", "released", "cancelled"}
      [] current = "approved"         -> {"released", "cancelled"}
      [] current = "released"         -> {"in_progress", "cancelled"}
      [] current = "in_progress"      -> {"completed", "cancelled"}
      [] OTHER                        -> {}
AllowedTransitions(current) ==
    CASE current = "draft"            -> {"pending_approval", "cancelled"}
      [] current = "pending_approval" -> {"approved", "cancelled"}
      [] current = "approved"         -> {"released", "cancelled"}
      [] current = "released"         -> {"in_progress", "cancelled"}
      [] current = "in_progress"      -> {"completed", "cancelled"}
      [] OTHER                        -> {}

HasBatch == \E b \in Batches : frozen[b] # None

Withdrawn(row) ==  \* mutation: a decision the column does not admit
    [row EXCEPT !.decision = "withdrawn", !.approved_hash = None]
Invalidated(row) ==
    [row EXCEPT !.decision = "invalidated", !.approved_hash = None]

\* UPDATE ... SET decision = 'invalidated' on the active exceptions of c.
InvalidatePending(c) ==  \* mutation: approved exceptions are left alone
    [e \in Exceptions |->
        IF e \in ActiveFor(c) /\ exc[e].decision = "pending"
        THEN Invalidated(exc[e])
        ELSE exc[e]]
InvalidateExceptions(c) ==
    [e \in Exceptions |->
        IF e \in ActiveFor(c) THEN Invalidated(exc[e]) ELSE exc[e]]

\* ON DELETE CASCADE from experiment_conditions.
CascadeDelete(c) ==
    [e \in Exceptions |->
        IF exc[e] # None /\ exc[e].condition = c THEN None ELSE exc[e]]

StatusAfterCreate ==
    IF planStatus = "pending_approval" THEN "pending_approval" ELSE "draft"
StatusKept == planStatus  \* mutation: an edit leaves the status alone
StatusAfterUpdate == "draft"
StatusAfterDelete == "draft"

-----------------------------------------------------------------------------
(* add_experiment leaves a draft plan with its materialized conditions, those *)
(* of an ambiguous legacy recipe marked for manual review.                    *)
Init ==
    /\ planType \in PlanTypes
    /\ planStatus = "draft"
    /\ cond \in Content
    /\ ShapeOK
    /\ issued = Live
    /\ exc = [e \in Exceptions |-> None]
    /\ frozen = [b \in Batches |-> None]
    /\ txn = [t \in Txns |-> None]
    /\ reviewed = None

CreateCondition(a, c, role, h, n) ==
    /\ MayEdit(a)
    /\ Editable
    /\ c \notin issued
    /\ (role = "standalone") <=> (planType = "standalone")
    /\ role = "control" => ~HasRole("control")
    /\ role = "standalone" => Live = {}
    /\ cond' = [cond EXCEPT ![c] = [role |-> role, hash |-> h, planned |-> n,
                                    review |-> FALSE]]
    /\ issued' = issued \cup {c}
    /\ planStatus' = StatusAfterCreate
    /\ UNCHANGED <<planType, exc, frozen, txn, reviewed>>

\* The SELECT ... JOIN ... FOR UPDATE OF experiments takes its snapshot: the
\* condition columns are those of this moment, however long the lock is waited
\* for.
BeginUpdate(t, a, c, h, n) ==
    /\ MayEdit(a)
    /\ txn[t] = None
    /\ c \in Live
    /\ txn' = [txn EXCEPT ![t] = [op |-> "update", condition |-> c, hash |-> h,
                                  planned |-> n, read |-> cond[c]]]
    /\ UNCHANGED <<planType, planStatus, cond, issued, exc, frozen, reviewed>>

\* The manual-review flag is cleared by a change of recipe or count only; both
\* the flag and the comparison come from the row read before the wait.
ReviewAfterUpdate(x) ==
    x.hash = x.read.hash /\ x.planned = x.read.planned /\ x.read.review

\* The lock is granted.  An UPDATE of a condition that was deleted meanwhile
\* matches no row, and the handler does not notice.
UpdateCondition(t) ==
    /\ txn[t] # None
    /\ txn[t].op = "update"
    /\ Editable
    /\ LET x == txn[t]
           c == x.condition
       IN  /\ cond' = IF cond[c] = None THEN cond
                      ELSE [cond EXCEPT ![c].hash = x.hash,
                                        ![c].planned = x.planned,
                                        ![c].review = ReviewAfterUpdate(x)]
           /\ exc' = InvalidateExceptions(c)
    /\ planStatus' = StatusAfterUpdate
    /\ txn' = [txn EXCEPT ![t] = None]
    /\ UNCHANGED <<planType, issued, frozen, reviewed>>

BeginDelete(t, a, c) ==
    /\ MayEdit(a)
    /\ txn[t] = None
    /\ c \in Live
    /\ txn' = [txn EXCEPT ![t] = [op |-> "delete", condition |-> c]]
    /\ UNCHANGED <<planType, planStatus, cond, issued, exc, frozen, reviewed>>

DeleteCondition(t) ==
    /\ txn[t] # None
    /\ txn[t].op = "delete"
    /\ Editable
    /\ LET c == txn[t].condition
       IN  /\ cond' = [cond EXCEPT ![c] = None]
           /\ exc' = CascadeDelete(c)
    /\ planStatus' = StatusAfterDelete
    /\ txn' = [txn EXCEPT ![t] = None]
    /\ UNCHANGED <<planType, issued, frozen, reviewed>>

\* "released or closed plans cannot be modified"
RefuseEdit(t) ==
    /\ txn[t] # None
    /\ txn[t].op \in {"update", "delete"}
    /\ ~Editable
    /\ txn' = [txn EXCEPT ![t] = None]
    /\ UNCHANGED <<planType, planStatus, cond, issued, exc, frozen, reviewed>>

-----------------------------------------------------------------------------
(* Substrate exceptions.                                                     *)

\* A plain SELECT: draft plan, one or two substrates, and the count planned.
BeginRequest(t, a, c, n) ==
    /\ MayEdit(a)
    /\ txn[t] = None
    /\ n \in {1, 2}
    /\ c \in Live
    /\ planStatus = "draft"
    /\ cond[c].planned = n
    /\ txn' = [txn EXCEPT ![t] = [op |-> "request", condition |-> c,
                                  planned |-> n]]
    /\ UNCHANGED <<planType, planStatus, cond, issued, exc, frozen, reviewed>>

\* The INSERT, guarded by the foreign key and the partial unique index only.
RequestSubstrateException(t, e) ==
    /\ txn[t] # None
    /\ txn[t].op = "request"
    /\ exc[e] = None
    /\ txn[t].condition \in Live
    /\ ActiveFor(txn[t].condition) = {}
    /\ exc' = [exc EXCEPT ![e] =
                 [condition |-> txn[t].condition, requested |-> txn[t].planned,
                  decision |-> "pending", approved_hash |-> None]]
    /\ txn' = [txn EXCEPT ![t] = None]
    /\ UNCHANGED <<planType, planStatus, cond, issued, frozen, reviewed>>

RefuseRequest(t) ==
    /\ txn[t] # None
    /\ txn[t].op = "request"
    /\ \/ txn[t].condition \notin Live
       \/ ActiveFor(txn[t].condition) # {}
    /\ txn' = [txn EXCEPT ![t] = None]
    /\ UNCHANGED <<planType, planStatus, cond, issued, exc, frozen, reviewed>>

\* The exception and the condition it joins are locked FOR UPDATE, read fresh.
\* The plan's status is not looked at.
DecideSubstrateException(a, e, decision) ==
    /\ a \in Instructors
    /\ exc[e] # None
    /\ exc[e].condition \in Live
    /\ exc[e].decision = "pending"
    /\ decision \in {"approved", "rejected"}
    /\ exc' = [exc EXCEPT ![e].decision = decision,
                          ![e].approved_hash =
                              IF decision = "approved"
                              THEN cond[exc[e].condition].hash
                              ELSE @]
    /\ UNCHANGED <<planType, planStatus, cond, issued, frozen, txn, reviewed>>

-----------------------------------------------------------------------------
(* The plan status machine and the freezing of batches.                      *)

UpdatePlanStatus(a, target) ==
    /\ MayEdit(a)
    /\ target \in AllowedTransitions(planStatus)
    /\ target = "approved" => a \in Instructors
    /\ ValidatePlanConditions(target)
    /\ target \in {"in_progress", "completed"} => HasBatch
    /\ planStatus' = target
    /\ reviewed' = IF target = "approved" THEN cond ELSE reviewed
    /\ UNCHANGED <<planType, cond, issued, exc, frozen, txn>>

BatchAllowed == planStatus \in {"released", "in_progress"}

CreateFabricationBatch(a, b) ==
    /\ MayEdit(a)
    /\ BatchAllowed
    /\ frozen[b] = None
    /\ Live # {}
    /\ NoManualReview
    /\ \A c \in Live : LowCount(c) => ApprovedFor(c) # {}
    /\ frozen' = [frozen EXCEPT ![b] = cond]
    /\ UNCHANGED <<planType, planStatus, cond, issued, exc, txn, reviewed>>

Next ==
    \/ \E a \in Actors, c \in Conditions, role \in Roles, h \in Hashes,
          n \in Counts : CreateCondition(a, c, role, h, n)
    \/ \E t \in Txns, a \in Actors, c \in Conditions :
          \/ \E h \in Hashes, n \in Counts : BeginUpdate(t, a, c, h, n)
          \/ BeginDelete(t, a, c)
          \/ \E n \in Counts : BeginRequest(t, a, c, n)
    \/ \E t \in Txns :
          \/ UpdateCondition(t)
          \/ DeleteCondition(t)
          \/ RefuseEdit(t)
          \/ RefuseRequest(t)
          \/ \E e \in Exceptions : RequestSubstrateException(t, e)
    \/ \E a \in Actors, e \in Exceptions, decision \in Decisions :
          DecideSubstrateException(a, e, decision)
    \/ \E a \in Actors, target \in PlanStatuses : UpdatePlanStatus(a, target)
    \/ \E a \in Actors, b \in Batches : CreateFabricationBatch(a, b)

Spec == Init /\ [][Next]_vars

-----------------------------------------------------------------------------
(* Properties.                                                               *)

TypeOK ==
    /\ planType \in PlanTypes
    /\ planStatus \in PlanStatuses
    /\ cond \in Content
    /\ issued \subseteq Conditions
    /\ Live \subseteq issued
    /\ exc \in [Exceptions -> ExceptionRow \cup {None}]
    /\ frozen \in [Batches -> Content \cup {None}]
    /\ txn \in [Txns -> OpenTxn \cup {None}]
    /\ reviewed \in Content \cup {None}

\* The approval gate: while a plan is approved, released or further, its
\* conditions are exactly those an instructor approved.  Every edit handler has
\* to send the plan back in the transaction that edits, whichever of edit and
\* release gets the experiments row first.
ApprovedStatuses == {"approved", "released", "in_progress", "completed"}
ContentIsReviewed == planStatus \in ApprovedStatuses => reviewed = cond

BeyondRelease ==
    planStatus \in {"released", "in_progress", "completed", "cancelled"}

\* A plan that has a batch is beyond editing for good.
BatchedPlanIsClosed == HasBatch => BeyondRelease

\* What a batch froze stays the content of the plan: a released plan is
\* immutable, and a plan with batches never goes back to an editable status.
FrozenIsPlan == \A b \in Batches : frozen[b] # None => frozen[b] = cond

\* From approval on, a condition of fewer than three substrates is covered by
\* an exception approved against the hash the condition has now.
LowCountsApproved ==
    planStatus \in ApprovedStatuses =>
        \A c \in Live : LowCount(c) => ApprovedFor(c) # {}

\* An approval never survives a change of the recipe it was given for.
ApprovalIsCurrent ==
    \A e \in Exceptions :
        (exc[e] # None /\ exc[e].decision = "approved") =>
            /\ exc[e].condition \in Live
            /\ exc[e].approved_hash = cond[exc[e].condition].hash

\* A plan under review or beyond keeps the shape its type promises: the checks
\* of create_condition stand in for the release gate while conditions can still
\* be added to a submitted plan.
SubmittedShape == planStatus \notin {"draft", "cancelled"} => ShapeOK

\* No step takes a released plan back to a status in which it can be edited.
ReleaseIsFinal == [][BeyondRelease => BeyondRelease']_vars

\* Exceptions belong to conditions that exist.
ForeignKeys ==
    \A e \in Exceptions : exc[e] # None => exc[e].condition \in Live

\* A cancelled plan keeps its last approval as long as it has batches.
BatchesAreReviewed == HasBatch => reviewed = cond

\* The inductive invariant: the safety properties above support one another.
IInv ==
    /\ TypeOK
    /\ ForeignKeys
    /\ BatchedPlanIsClosed
    /\ BatchesAreReviewed
    /\ ContentIsReviewed
    /\ FrozenIsPlan
    /\ LowCountsApproved
    /\ ApprovalIsCurrent
    /\ SubmittedShape

\* "requested count must equal the condition's planned substrate count": the
\* exceptions that let a plan be released were requested for the count planned.
ReleasedOnRequestedCount ==
    planStatus = "released" =>
        \A c \in Live : LowCount(c) =>
            \E e \in ApprovedFor(c) : exc[e].requested = cond[c].planned

-----------------------------------------------------------------------------
(* The abstract workflow, ReviewGate, under the refinement mapping.          *)

Phase ==
    CASE planStatus \in {"draft", "pending_approval"} -> "editing"
      [] planStatus = "approved"                      -> "reviewed"
      [] planStatus \in {"released", "in_progress"}   -> "released"
      [] OTHER                                        -> "closed"

Gate == INSTANCE ReviewGate WITH
            Contents <- Content,
            NoContent <- None,
            phase <- Phase,
            content <- cond,
            approved <- reviewed,
            fabricated <- {frozen[b] : b \in Batches} \ {None}

\* Plans move through review as the abstract workflow does, and what any batch
\* froze is what an instructor approved.
ImplementsReviewGate == Gate!Spec
OnlyApprovedIsFrozen == Gate!FabricatedWasApproved

=============================================================================
