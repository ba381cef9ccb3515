------------------------------ MODULE RunStore ------------------------------
(***************************************************************************)
(* The documents every part of the pipeline shares: the pipelineRuns       *)
(* collection, the pipelineSequences counter, the target branch of each    *)
(* project document and the target branches of the bare repository.        *)
(*                                                                         *)
(* A run is named by its queueSequence, which nextQueueSequence() hands    *)
(* out once; a sequence number no document carries is "ABSENT": not        *)
(* inserted yet, or deleted by the retention job.  Every database call of  *)
(* the code is one atomic step; the code between two calls is not          *)
(* interleaved (one Node event loop) and belongs to the step before it.    *)
(***************************************************************************)
EXTENDS Integers, FiniteSets

CONSTANTS
    MaxSeq,         \* bound: sequence numbers handed out in one behaviour
    Projects,       \* project documents
    Commits,        \* (source branch, commit sha) pairs the monitor reports
    NoCommit,       \* sourceCommitSha = null of a manually triggered run
    Branches,       \* values of a project's targetBranch
    MaxFaults,      \* bound: database calls that fail
    MaxCrashes      \* bound: exits of the Node process from outside

ASSUME StoreAssumption ==
    /\ MaxSeq \in Nat /\ MaxFaults \in Nat /\ MaxCrashes \in Nat
    /\ NoCommit \notin Commits
    /\ Projects # {} /\ Branches # {}

VARIABLES
    status,           \* status[r]: the field, or "ABSENT"
    cancelRequested,  \* cancelRequested[r]: the field
    attemptCount,     \* attemptCount[r]: the field, = length of attempts
    mergeSha,         \* mergeCommitSha[r]: "null", a new merge "commit", or "head"
    details,          \* projectId, source commit and targetBranch of the run
    lastSeq,          \* value of the pipelineSequences document
    targetBranch,     \* targetBranch[p]: the field of the project document
    merged,           \* merged[b]: the runs whose merge commit branch b holds
    faults,           \* failed database calls so far
    crashes           \* exits of the Node process so far

runVars == <<status, cancelRequested, attemptCount, mergeSha, details>>
storeVars == <<runVars, lastSeq, targetBranch, merged, faults, crashes>>

Runs == 1..MaxSeq
Terminal == {"PASSED", "FAILED", "CONFLICT", "CANCELLED"}
Status == {"QUEUED", "RUNNING"} \cup Terminal
Sources == Commits \cup {NoCommit}
RunDetails == [project : Projects, commit : Sources, target : Branches]

StoreTypeOK ==
    /\ status \in [Runs -> Status \cup {"ABSENT"}]
    /\ cancelRequested \in [Runs -> BOOLEAN]
    /\ attemptCount \in [Runs -> Nat]
    /\ mergeSha \in [Runs -> {"null", "commit", "head"}]
    /\ details \in [Runs -> RunDetails]
    /\ lastSeq \in 0..MaxSeq
    /\ targetBranch \in [Projects -> Branches]
    /\ merged \in [Branches -> SUBSET Runs]
    /\ faults \in 0..MaxFaults
    /\ crashes \in Nat

\* The value of details for a document that does not exist is never read.
StoreInit ==
    /\ status = [r \in Runs |-> "ABSENT"]
    /\ cancelRequested = [r \in Runs |-> FALSE]
    /\ attemptCount = [r \in Runs |-> 0]
    /\ mergeSha = [r \in Runs |-> "null"]
    /\ lastSeq = 0
    /\ targetBranch \in [Projects -> Branches]
    /\ details = [r \in Runs |-> [project |-> CHOOSE p \in Projects : TRUE,
                                  commit |-> NoCommit,
                                  target |-> CHOOSE b \in Branches : TRUE]]
    /\ merged = [b \in Branches |-> {}]
    /\ faults = 0
    /\ crashes = 0

Having(s) == {r \in Runs : status[r] = s}
Queued == Having("QUEUED")
Running == Having("RUNNING")
Present(r) == status[r] # "ABSENT"

\* The runs of project p, as find({ projectId: p }) returns them.
RunsOf(p) == {r \in Runs : Present(r) /\ details[r].project = p}

\* r is one of the n newest (highest queueSequence) runs of its project.
Newest(r, n) == Cardinality({s \in RunsOf(details[r].project) : s > r}) < n

\* updateOne({ _id: r }, { $set: { status: s } }): nothing when r is deleted.
StatusSet(r, s) == IF Present(r) THEN [status EXCEPT ![r] = s] ELSE status

\* The branch the merge commit of run r reached, if any.
IsMerged(r) == \E b \in Branches : r \in merged[b]

DatabaseFault == faults < MaxFaults /\ faults' = faults + 1
=============================================================================
