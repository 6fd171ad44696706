SPECIFICATION Spec
CONSTANTS
    Thread = {t1, t2}
    Timer = {1, 2}
    Duration = {0, 1}
    HOUR = 4
    Word = 32
    StartClock = 4
    MaxClock = 5
    MaxStall = 1
INVARIANTS
    TypeOK
    CallbackIffQueued
    StartInPast
    EarlierDeadlineNotified
PROPERTIES
    NoEarlyFire
    ListedOnce
SYMMETRY ThreadSymmetry
