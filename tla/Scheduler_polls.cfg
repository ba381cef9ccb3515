SPECIFICATION FairSpec
CONSTANTS
    Branches = {b1}
    MaxHead = 2
    Polls = {i1, i2}
    Edits = {e1}
    MaxFaults = 1
INVARIANTS TypeOK SeenHasRun
PROPERTY HeadIsSeen
