SPECIFICATION Spec
CONSTANTS
    Users = {u1}
    Ids = {u1, nobody}
    Settings = {s1, s2}
    Keep = Keep
    Docs = {b1, b2}
    NoDoc = NoDoc
    Names = {main}
    Pages = {p1}
    Calls = {c1, c2}
    MaxCalls = 4
SYMMETRY Symmetry
INVARIANTS TypeOK ChecksHold
PROPERTY OnlyWhatWasAsked
CHECK_DEADLOCK FALSE
