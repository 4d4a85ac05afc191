CHECK_DEADLOCK FALSE
CONSTANTS
    Capacity = 5
    s1 = s1
    s2 = s2
    NoSession = NoSession
    MaxFrames = 7
    Offered <- MixOffered
    Windows <- MixWindows
SPECIFICATION Spec
INVARIANTS
    NoOverwrittenFrame
    SegmentComplete
PROPERTIES
    EvictionIsNeeded
    SettledWindow
    ImplementsLog
