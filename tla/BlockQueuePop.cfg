SPECIFICATION BlockSpec
CONSTANTS
    Pushers = {p1}
    Poppers = {c1}
    Timed = {}
    m_dwMaxSize = 2
    PastBare = TRUE
    MaxPushes = 4
    MaxClears = 0
CHECK_DEADLOCK FALSE
INVARIANT PoppedInOrder
