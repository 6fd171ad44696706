SPECIFICATION AnsweredSpec
CONSTANTS
    Fiber = {f1, f2}
    Fd = {d1}
    FionbioArgs = {TRUE}
    SharedClose = FALSE
    EarlyExpiry = FALSE
    MaxCalls = 2
    MaxGen = 2
    None = None
INVARIANTS
    HookInv
    WaiterIsRegistered
    NoTimerLeft
PROPERTIES
    TimeoutIsOwn
    AnsweredCallReturns
CHECK_DEADLOCK FALSE
