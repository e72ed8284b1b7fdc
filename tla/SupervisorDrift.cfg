CONSTANTS
    Interfaces <- MCInterfaces
    Loopback = {lo}
    ReadPortList = FALSE
    Faults = {"stopped", "crashed"}
    Orders = {}
    MaxFaults = 3
    MaxOrders = 0
    lo = lo
    p1 = p1
    p2 = p2
SPECIFICATION LiveSpec
PROPERTIES Restarted
CHECK_DEADLOCK FALSE
