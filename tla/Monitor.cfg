CONSTANTS
    MaxFd = 5
    MaxHello = 2
    Errors = {"EOPNOTSUPP", "other"}
    LogFiles = 2
    RetValues = {0, 1}
    SendsHello = TRUE
SPECIFICATION LiveSpec
INVARIANTS TrapStateExact DownIsReported
PROPERTIES NoFalseRecovery Recovers
