SPECIFICATION Spec
CONSTANTS
    MaxSeq = 3
    Projects = {p1}
    Commits = {s1}
    NoCommit = NoCommit
    Branches = {main}
    Callers = {q1, q2}
    Cancels = {}
    MaxQueued = 1
    Retention = 1
    MaxConcurrent = 2
    AutoRetryAttempts = 0
    MaxFaults = 0
    MaxCrashes = 0
    MergeOutcomes = {"error"}
SYMMETRY Symmetry
INVARIANTS QueuedBound ConcurrencyCap ClaimBudget DuplicateBound
PROPERTY PruneKeepsNewest
