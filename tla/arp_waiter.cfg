SPECIFICATION Spec
CONSTANTS
    n1 = n1
    n2 = n2
    x1 = x1
    Nodes = {n1, n2}
    Absent = {x1}
    NoMac = NoMac
    NumEntries = 3
    MaxCalls = 2
    MaxLost = 1
SYMMETRY NodeSymmetry
INVARIANT WaiterRecorded
CHECK_DEADLOCK FALSE
