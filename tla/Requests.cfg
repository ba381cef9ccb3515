SPECIFICATION Spec
CONSTANTS
    Calls = {c1, c2}
    InitCall = c1
    Keys = {k1}
    NoKey = NoKey
    Bodies = {b1, b2}
    NoBody = NoBody
    AccessAtLoad = {FALSE}
    MaxCalls = 3
    MaxLogins = 1
    MaxExpiries = 1
    MaxFaults = 1
INVARIANTS TypeOK OneEffectPerCall KeyActsOnce AnswerIsForBody CalmStaysIn
PROPERTIES EveryCallEnds
CHECK_DEADLOCK FALSE
