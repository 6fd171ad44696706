SPECIFICATION FairSpec
CONSTANTS
    Worker = {w1, w2, w3}
    UseCaller = TRUE
    Root = w1
    Fiber = {f1, f2}
    AnyThread = AnyThread
    MaxYields = 1
    None = None
INVARIANTS
    SchedInv
    AssertionBlamed
    OneThreadPerFiber
PROPERTIES
    UnsavedOnlyInSwapOut
    ImplementsPool
    StopReturns
    EveryTaskEnds
CHECK_DEADLOCK FALSE
