SPECIFICATION FairSpec
CONSTANTS
    e1 = e1
    e2 = e2
    e3 = e3
    c1 = c1
    c2 = c2
    c3 = c3
    c4 = c4
    Events = {e1, e2, e3}
    EventOf <- EventOfClip
    SizeOf <- Bytes
    NoRow = NoRow
    NoFile = NoFile
    Torn = Torn
    NoClip = NoClip
    Clips = {c1, c3, c4}
    OtherBytes = 0
    Trigger = 4
    Target = 3
    MaxAge = 2
    MaxTime = 2
    MaxCrashes = 1
    Stuck = {e2}
    Faults = {}
PROPERTIES ExpiredIsPurged QuotaTakesOldest QuotaDeletesOnlyAboveTarget
