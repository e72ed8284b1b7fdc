CONSTANTS
    Links <- JoinLinks
    NumberPid = 1
    InitPid <- JoinPid
    Draws = {0, 99}
    Garbage = 7
    MaxRequests <- JoinRequests
SPECIFICATION LiveSpec
PROPERTIES Settles
INVARIANTS ResponderDistinct
CHECK_DEADLOCK FALSE
