CONSTANTS
    Packets = {0, 1, 3, 12}
    Sizes = {0, 7, 1302, 1303, 1515, 4542, 4543}
    MaxGets = 2
SPECIFICATION FlowSpec
INVARIANTS OwnFlow NeverMore
CHECK_DEADLOCK FALSE
