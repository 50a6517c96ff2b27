CONSTANTS
    n1 = n1
    n2 = n2
    n3 = n3
    Unwritten = Unwritten
    Nodes = {n1, n2, n3}
    Route <- ThereAndBack
    MaxLost = 1
SPECIFICATION FairSpec
INVARIANTS TypeOK OneTraveller ListOfPredecessors AnnouncedFirst EndsLast
PROPERTIES ImplementsWalk Ends
CHECK_DEADLOCK FALSE
