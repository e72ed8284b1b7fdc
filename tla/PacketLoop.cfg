CONSTANTS
    Lcores = {c1, c2}
    Mbufs = {m1, m2, m3}
    NoMbuf = NoMbuf
    Burst = 2
    MaxReplies = 1
SYMMETRY Symmetry
SPECIFICATION LoopSpec
INVARIANTS OneOwner
PROPERTIES LostOnlyHere PathsInTurn
CHECK_DEADLOCK FALSE
