CONSTANTS
    p0 = p0
    p2 = p2
    Ports = {p0, p2}
    Port0 = p0
    TrapPort = p2
    Silent = {}
    Periods <- TwoAndOne
    MaxThreads = 2
SPECIFICATION LiveSpec
INVARIANTS StateNotOlder TrafficNotOlder Excluded
PROPERTIES NeverBack Answered
CHECK_DEADLOCK FALSE
