SPECIFICATION FairSpec
CONSTANTS
    c1 = c1
    c2 = c2
    f1 = f1
    f2 = f2
    Clients = {c1, c2}
    FileOf <- TwoFiles
    NoFile = NoFile
    Ifaces <- ThreeIfaces
    AddrBits = 3
    Addrs <- FewAddrs
    Localhost = 1
    MaxChildren = 4
    MaxFaults = 2
INVARIANTS TypeOK PortForItsClient OneTransfer LocalIsLongest
PROPERTIES ImplementsService Connects
CHECK_DEADLOCK FALSE
