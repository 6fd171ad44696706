SPECIFICATION FairSpec
CONSTANTS
    Fiber = {f1, f2}
    Fd = {d1}
    FionbioArgs = {TRUE}
    SharedClose = TRUE
    EarlyExpiry = FALSE
    MaxCalls = 2
    MaxGen = 1
    None = None
PROPERTIES
    TimedCallReturns
CHECK_DEADLOCK FALSE
