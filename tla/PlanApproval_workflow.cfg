SPECIFICATION Spec
CONSTANTS
    Conditions = {c1, c2, c3}
    Exceptions = {e1}
    Batches = {b1, b2}
    Hashes = {h1, h2}
    Counts = {2, 3}
    Actors = {student, instructor}
    Instructors = {instructor}
    Owner = student
    Txns = {t1}
    None = None
SYMMETRY MCSymmetry
CHECK_DEADLOCK FALSE
INVARIANTS
    TypeOK
    ContentIsReviewed
    FrozenIsPlan
    LowCountsApproved
    ApprovalIsCurrent
    SubmittedShape
PROPERTIES
    ImplementsReviewGate
