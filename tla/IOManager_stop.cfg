SPECIFICATION IOSpec
CONSTANTS
    Worker = {w1, w2}
    UseCaller = FALSE
    Root = w1
    Fiber = {f1, f2}
    AnyThread = AnyThread
    MaxYields = 1
    None = None
    Pins = {}
    MAX_EVNETS = 2
PROPERTIES
    IOImplementsPool
SYMMETRY FiberSymmetry
CHECK_DEADLOCK FALSE
