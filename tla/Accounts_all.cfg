SPECIFICATION Spec
CONSTANTS
    Users = {u1, u2}
    Tokens = {s1}
    Requests = {r1, r2}
    Roles = {"student", "administrator"}
    Limit = 2
    Lockout = 1
    Life = 2
    Idle = 2
    TouchAfter = 1
    MaxTime = 2
    MaxResets = 1
    None = None
SYMMETRY MCSymmetry
CHECK_DEADLOCK FALSE
INVARIANTS TypeOK SessionsMatchPassword AdministratorRemains LimitHolds LockoutEarned
