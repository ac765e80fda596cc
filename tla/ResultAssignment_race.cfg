CONSTANTS
    a = a  b = b  m1 = m1  m2 = m2
    forward = forward  reverse = reverse
    Conditions = {a}
    Planned <- OnePlanned
    MaxCount = 1
    Channels = {1}
    Directions = {forward, reverse}
    Marks = {m1}
    PlainNames = {}
    Files = {1, 2}
    Pce <- BothDirections
    Txns = {t1, t2}
    None = None
SPECIFICATION Spec
INVARIANTS CacheMatches
CHECK_DEADLOCK FALSE
