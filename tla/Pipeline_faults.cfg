SPECIFICATION Spec
CONSTANTS
    MaxSeq = 2
    Projects = {p1}
    Commits = {}
    NoCommit = NoCommit
    Branches = {main}
    Callers = {q1}
    Cancels = {c1}
    MaxQueued = 2
    Retention = 2
    MaxConcurrent = 1
    AutoRetryAttempts = 1
    MaxFaults = 1
    MaxCrashes = 1
    MergeOutcomes = {"staged"}
INVARIANTS TypeOK RunningHasOwner FailedIsUnmerged RecordedIsMerged NotifiedIsUnmerged
PROPERTIES OrphanStaysRunning ImplementsLifecycle CancelledStaysUnmerged
