CONSTANTS
    Routers = {1, 2}
    Name <- TwoNames
    NewPids = {7, 49}
    MaxOnWay = 2
SPECIFICATION Spec
INVARIANTS GetsLeave ControlLeaves
