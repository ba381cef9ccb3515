SPECIFICATION FairSpec
CONSTANTS
    MaxSeq = 2
    Projects = {p1}
    Commits = {}
    NoCommit = NoCommit
    Branches = {main, release}
    Callers = {q1}
    Cancels = {}
    MaxQueued = 2
    Retention = 2
    MaxConcurrent = 1
    AutoRetryAttempts = 0
    MaxFaults = 0
    MaxCrashes = 0
    MergeOutcomes = {"staged", "upToDate"}
PROPERTY EveryRunEnds
