SPECIFICATION Spec
INVARIANTS DebounceKeepsPace DwellIsExact RowsAreGrounded RollupAgrees
CONSTANTS
    a = a
    b = b
    Origins = {a, b}
    MinInterval = 2
    MaxTime = 8
    CrossAt <- Instants
    NoTime = NoTime
    Calls <- FineOrDefault
    LabelOf <- Labels
    Chain <- TwoLinks
    RunAt = {8}
    Restarts = {2}
    MaxRows = 4
    MaxCrossings = 6
    MaxPending = 2
\* time stops
CHECK_DEADLOCK FALSE
