SPECIFICATION FairSpec
INVARIANTS LoneContainerIsOwn SampleTimeline NoWriteAfterReturn NothingLost AnswerMatchesStore
PROPERTIES Answered ShutdownCompletes
CONSTANTS
    r1 = r1
    r2 = r2
    Requests = {r1, r2}
    Pool = 1
    Kinds <- EveryKind
    Stream <- BFrames
    BaseTime = 1
    Windows <- AroundTheStart
    FrameGap = 3
    QueueLimit = 1
    Faults = {"launch", "play", "mux", "write", "save"}
    NoTime = NoTime
    None = None
\* main() has returned
CHECK_DEADLOCK FALSE
