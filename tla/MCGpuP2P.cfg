SPECIFICATION Spec
CONSTANTS
    Threads = {t1, t2}
    MaxGpuBuffers = 2
    MaxMrs = 1
    MaxPins = 2
    PageSize = 2
    NumPages = 3
    MaxIterations = 1
    None = None
INVARIANTS PinsSafe RevokedFlagExact UnpinnedIsReleased
    WalkIsExact
PROPERTY CallsEnd
CHECK_DEADLOCK FALSE
