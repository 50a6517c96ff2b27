SPECIFICATION FairSpec
CONSTANTS
    e1 = e1
    e2 = e2
    t1 = t1
    EchoClients = {e1, e2}
    TimeClients = {t1}
    Free = Free
    MaxFds = 2
    Lines <- FewLines
INVARIANTS TypeOK EchoExact  FdsServed
PROPERTY Responds
CHECK_DEADLOCK FALSE
