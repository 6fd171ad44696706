SPECIFICATION Spec
CONSTANTS
    Thread = {t1}
    Fd = {2, 4}
    Event = {"READ", "WRITE"}
    Closable = {2, 4}
    InitialSize = 2
    Waiter = {n1, n2}
    MaxGen = 1
    MaxEpoch = 1
    None = None
INVARIANTS
    EventsInv
    NoAssertionFails
    WaiterIsReachable
    NoLostEdge
SYMMETRY Symmetry
CHECK_DEADLOCK FALSE
