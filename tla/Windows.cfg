SPECIFICATION Spec
CONSTANTS
    Keys = {k1, k2}
    PerMinute = 2
    Window = 3
    Second = 2
    Durations = {1, 2}
    MaxRequests = 4
    MaxNow = 5
    Notes = {n1, n2, n3}
    NoNote = NoNote
    Jobs = {j1, j2}
    Retention = 1
    MaxFaults = 1
    Budget = 3
    Widths = {1, 3}
    MaxChunk = 2
    MaxChunks = 3
SYMMETRY Symmetry
INVARIANTS TypeOK RateBound RetryIsEnough RetentionHolds LogBudget
PROPERTIES PruneSparesNewest NeverBack
CHECK_DEADLOCK FALSE
