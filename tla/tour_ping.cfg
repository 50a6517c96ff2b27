CONSTANTS
    n1 = n1
    n2 = n2
    n3 = n3
    Unwritten = Unwritten
    Nodes = {n1, n2, n3}
    Route <- ThereAndBack
    MaxLost = 0
SPECIFICATION Spec
INVARIANT PingsPredecessors
CHECK_DEADLOCK FALSE
