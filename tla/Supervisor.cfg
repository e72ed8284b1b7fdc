CONSTANTS
    Interfaces <- MCInterfaces
    Loopback = {lo}
    ReadPortList = TRUE
    Faults = {"crashed", "exited", "killed", "stopped"}
    Orders = {"launch", "end"}
    MaxFaults = 2
    MaxOrders = 2
    lo = lo
    p1 = p1
    p2 = p2
SPECIFICATION LiveSpec
INVARIANTS AllOrNone CountExact OneProcess SlotTrue
PROPERTIES RestartedCounted
CHECK_DEADLOCK FALSE
