SPECIFICATION Spec
CONSTANTS
    Calls = {c1, c2}
    InitCall = c1
    Keys = {k1}
    NoKey = NoKey
    Bodies = {b1, b2}
    NoBody = NoBody
    AccessAtLoad = {TRUE, FALSE}
    MaxCalls = 3
    MaxLogins = 2
    MaxExpiries = 1
    MaxFaults = 0
SYMMETRY Symmetry
INVARIANT SilentRefresh
CHECK_DEADLOCK FALSE
