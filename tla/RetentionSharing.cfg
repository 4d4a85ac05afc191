SPECIFICATION Spec
CONSTANTS
    e1 = e1
    e2 = e2
    e3 = e3
    c1 = c1
    c2 = c2
    c3 = c3
    c4 = c4
    Events = {e1, e2, e3}
    EventOf <- EventOfClip
    SizeOf <- Bytes
    NoRow = NoRow
    NoFile = NoFile
    Torn = Torn
    NoClip = NoClip
    Clips = {c1, c2}
    OtherBytes = 1
    Trigger = 4
    Target = 3
    MaxAge = 1
    MaxTime = 1
    MaxCrashes = 0
    Stuck = {}
    Faults = {}
PROPERTIES NewMediaSurvives
