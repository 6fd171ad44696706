SPECIFICATION FairSpec
CONSTANTS
    addrs <- MCAddrs
    Conn = {"c1", "c2", "c3"}
    MaxFd = 3
    AcceptThreads = 2
    IoThreads = 1
    FreshFails = TRUE
INVARIANTS
    DescriptorsOwned
    BindAllOrNothing
PROPERTIES
    AcceptEnds
    EveryClientHandled
CHECK_DEADLOCK FALSE
