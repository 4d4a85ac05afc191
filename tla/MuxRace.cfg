SPECIFICATION Spec
INVARIANT ContainerIsOwn
CONSTANTS
    r1 = r1
    r2 = r2
    Requests = {r1, r2}
    Pool = 2
    Kinds <- CaptureClock
    Stream <- BFrames
    BaseTime = 1
    Windows <- AroundTheStart
    FrameGap = 3
    QueueLimit = 1
    Faults = {}
    NoTime = NoTime
    None = None
CHECK_DEADLOCK FALSE
