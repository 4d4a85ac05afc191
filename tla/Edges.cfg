SPECIFICATION Spec
INVARIANTS ZonesAreSimple IntactUnlessInterrupted LoopFollowsPlayback SettledOverlay
           BodyIsReadAsMeant ReplayIsRecording
PROPERTIES HashIsRepeatable
CONSTANTS
    Grid <- Square
    MaxPoints = 5
    Hole = Hole
    Empty = Empty
    NoTarget = NoTarget
    Duration = 3
    Timelines <- SomeTimelines
    MaxTasks = 3
    MaxFrames = 3
    NoFrame = NoFrame
    Bodies <- MCBodies
    Valid <- MCValid
    Generated = "event-uuid"
    LastSecond = LastSecond
    NewestTimes = {0, 9}
    TooLong = TooLong
    Nothing = Nothing
    Null = Null
    moov = moov
    trak = trak
    mdia = mdia
    edts = edts
    minf = minf
    mvhd = mvhd
    tkhd = tkhd
    mdhd = mdhd
    ftyp = ftyp
    styp = styp
    free = free
    skip = skip
    wide = wide
    mdat = mdat
    stbl = stbl
    garbage = garbage
    Date = Date
    Sentinel = 45
    Times = {1000, 2000}
    Layouts <- MCLayouts
    Frames <- MCFrames
    MaxRecorded = 3
    NoSession = NoSession
    Spaced = {"s 2"}
    CutSession = CutSession
    Override = NoSession
\* a request, a container and a scenario have an end
CHECK_DEADLOCK FALSE
