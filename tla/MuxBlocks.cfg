SPECIFICATION FlowingSpec
PROPERTIES ShutdownEnds
CONSTANTS
    r1 = r1
    r2 = r2
    Requests = {r1, r2}
    Pool = 1
    Kinds <- CaptureClock
    Stream <- BFrames
    BaseTime = 1
    Windows <- AroundTheStart
    FrameGap = 3
    QueueLimit = 1
    Faults = {"mux"}
    NoTime = NoTime
    None = None
CHECK_DEADLOCK FALSE
