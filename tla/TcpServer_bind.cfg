SPECIFICATION FairSpec
CONSTANTS
    addrs <- MCAddrs
    Conn = {"c1"}
    MaxFd = 3
    AcceptThreads = 1
    IoThreads = 1
    FreshFails = FALSE
PROPERTIES
    BindEnds
CHECK_DEADLOCK FALSE
