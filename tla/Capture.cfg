SPECIFICATION FairSpec
INVARIANTS
    NoClosedArenaAccess TruncatedOnlyAfterTimeout ClockFollowsSession
PROPERTIES StopReleasesWaiters PostEventDelivered StopTerminates
CONSTANTS
    s1 = s1
    s2 = s2
    NoSession = NoSession
    Free = Free
    Requests = {r1, r2}
    r1 = r1
    r2 = r2
    Offered <- TwoSessions
    Windows <- MCWindows
    AsksFor <- OneEach
    MaxFrames = 2
    MaxStarts = 1
\* the source ends and the requests are answered
CHECK_DEADLOCK FALSE
