CONSTANTS
    Links <- PairLinks
    NumberPid = 2
    InitPid <- PairPid
    Draws = {0, 99}
    Garbage = 7
    MaxRequests <- PairRequests
SPECIFICATION Spec
INVARIANTS LinkDistinct QuiescentAgreement TimeAgreementOne SponsorPidsKnown ViaKnown
CHECK_DEADLOCK FALSE
