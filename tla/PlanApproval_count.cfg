SPECIFICATION Spec
CONSTANTS
    Conditions = {c1, c2}
    Exceptions = {e1, e2}
    Batches = {b1}
    Hashes = {h1, h2}
    Counts = {1, 2}
    Actors = {student, instructor}
    Instructors = {instructor}
    Owner = student
    Txns = {t1, t2}
    None = None
SYMMETRY MCSymmetry
CHECK_DEADLOCK FALSE
INVARIANTS
    ReleasedOnRequestedCount
