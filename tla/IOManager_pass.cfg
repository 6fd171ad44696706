SPECIFICATION IOFairSpec
CONSTANTS
    Worker = {w1, w2}
    UseCaller = FALSE
    Root = w1
    Fiber = {f1, f2}
    AnyThread = AnyThread
    MaxYields = 1
    None = None
    Pins = {}
    MAX_EVNETS = 2
INVARIANTS
    IOStateOK
    AssertionBlamed
PROPERTIES
    IOMovesJobs
    IOStopReturns
CHECK_DEADLOCK FALSE
