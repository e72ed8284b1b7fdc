CONSTANTS
    Ports = {0, 1}
    Asked = {0, 13, 27}
    Delays = {1, 2}
    MaxTime = 3
    MaxRequests = 3
    Batches <- MCBatches
SPECIFICATION Spec
INVARIANTS Ordered OnTime NeverEarly RunsOnceAlone AskedOnce AnswerFits
CHECK_DEADLOCK FALSE
