SPECIFICATION FairSpec
CONSTANTS
    n1 = n1
    n2 = n2
    n3 = n3
    c1 = c1
    c2 = c2
    Nodes = {n1, n2, n3}
    Neighbours <- LineNeighbours
    ServIps <- LineIps
    VmIp <- LineVm
    Clients = {c1, c2}
    ClientAt <- FirstAndMiddle
    Wanted <- AskLast
    NoHop = NoHop
    NoIp = NoIp
    NoPort = NoPort
    GetMeTime = GetMeTime
    BufSize = 2
    MaxAsk = 1
    MaxFaults = 0
PROPERTY Answered
CHECK_DEADLOCK FALSE
