CONSTANTS
    Boards = {1, 2, 3}
    EnabledSets <- MCEnabledSets
    SocketOf <- MCSocketOf
    MaskBits = 3
    Masks <- MCMasks
    Entries <- MCEntries
    DefaultParams <- MCDefaultParams
    MAX_LCORE_PARAMS = 3
    MAX_RX_QUEUE_PER_PORT = 2
    MAX_RX_QUEUE_PER_LCORE = 2
    MAX_TX_QUEUE_PER_PORT = 2
    NB_SOCKETS = 2
    MAX_CHECK_TIME = 3
    PathPorts <- MCPathPorts
    StrayPorts <- MCStrayPorts
SPECIFICATION Spec
INVARIANTS GivesUpForCause LaunchedServed LinksPrinted TablesAlone QueuesExist
CHECK_DEADLOCK FALSE
