CONSTANTS
    a = a  b = b  m1 = m1  m2 = m2  forward = forward  reverse = reverse
    Conditions = {a, b}
    Planned <- TwoPlanned
    MaxCount = 2
    Channels = {1}
    Directions = {forward}
    Marks = {m1, m2}
    PlainNames = {}
    Files = {1, 2}
    Pce <- SharedMark
    Txns = {t1}
    None = None
SPECIFICATION Spec
INVARIANTS TypeOK MarkNamesOneSubstrate Provenance MeasuredWithinMade
           CacheDivergesByRaceOnly
PROPERTIES DevicesStay
CHECK_DEADLOCK FALSE
