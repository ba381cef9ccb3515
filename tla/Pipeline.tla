------------------------------ MODULE Pipeline ------------------------------
(***************************************************************************)
(* The run pipeline of one MergeStream server process: enqueueing and      *)
(* retention (RunQueue), the worker (Worker) and cancellation (RunControl) *)
(* over one set of documents (RunStore), with edits of the project and     *)
(* exits of the process.                                                   *)
(***************************************************************************)
EXTENDS RunQueue, RunControl

vars == <<storeVars, queueVars, workerVars, cancelVars>>

TypeOK == StoreTypeOK /\ QueueTypeOK /\ WorkerTypeOK /\ ControlTypeOK

Init == StoreInit /\ QueueInit /\ WorkerInit /\ ControlInit

\* updateProjectHandler saves a new target branch.
UpdateProject(p, b) ==
    /\ targetBranch[p] # b
    /\ targetBranch' = [targetBranch EXCEPT ![p] = b]
    /\ UNCHANGED <<runVars, lastSeq, merged, faults, crashes,
                   queueVars, workerVars, cancelVars>>

\* The process exits and is started again.  No document is repaired: main()
\* only starts the timers.
ExitAndRestart ==
    /\ crashes' = crashes + 1
    /\ QueueReset /\ WorkerReset /\ ControlReset
    /\ UNCHANGED <<runVars, lastSeq, targetBranch, merged, notified>>

Crash == crashes < MaxCrashes /\ ExitAndRestart /\ UNCHANGED faults

\* A promise nobody awaits rejects, which ends a Node process: processRun whose
\* project read or catch block failed, or a retention job whose call failed.
UnhandledRejection ==
    /\ \/ \E r \in Runs : workerPc[r] = "rethrow" /\ UNCHANGED faults
       \/ \E r \in Runs : (workerPc[r] = "load" \/ prunePc[r] # "idle") /\ DatabaseFault
    /\ ExitAndRestart

Next ==
    \/ QueueStep /\ UNCHANGED <<workerVars, cancelVars>>
    \/ WorkerStep /\ UNCHANGED <<queueVars, cancelVars>>
    \/ ControlStep /\ UNCHANGED queueVars
    \/ \E p \in Projects, b \in Branches : UpdateProject(p, b)
    \/ Crash
    \/ UnhandledRejection

Spec == Init /\ [][Next]_vars

(***************************************************************************)
(* The worker's timer fires every two seconds, and every git command, test *)
(* command (which has a timeout) and database call returns.                *)
(***************************************************************************)
WorkerFairness ==
    /\ WF_vars(ClaimStep /\ UNCHANGED <<queueVars, cancelVars>>)
    /\ \A r \in Runs : WF_vars(Process(r) /\ UNCHANGED <<queueVars, cancelVars>>)

FairSpec == Spec /\ WorkerFairness
-----------------------------------------------------------------------------
(* Properties.                                                             *)

\* The claim phase never over-subscribes: whatever calls, cancels, faults and
\* restarts interleave, at most maxConcurrent documents are RUNNING
\* (worker.ts:30-34, claimRunsForCapacity).
ConcurrencyCap == Cardinality(Running) <= MaxConcurrent

\* Why the cap holds: the loop of the claim phase has at most as many iterations
\* left as there are free slots, even though its count is out of date.
ClaimBudget == Cardinality(Running) + slots <= MaxConcurrent

\* The queue cap as the interleaved calls really keep it: a call that counted may
\* insert later, so each call in flight but one may overshoot maxQueued
\* (queue.ts:39-56).
Inserting == {q \in Callers : callPc[q] \in {"seq", "create"}}
QueuedBound ==
    Cardinality(Queued) + Cardinality(Inserting) < MaxQueued + Cardinality(Callers)

\* While the process lives, every RUNNING document is being processed: no exit of
\* processRun forgets to finalize (worker.ts:85-273).
RunningHasOwner ==
    crashes = 0 => \A r \in Running : workerPc[r] \in BeforeFinalize \cup {"rethrow"}

\* A run reported FAILED or CONFLICT has left the target branch alone, unless a
\* database call failed between the push and finalizeRun (worker.ts:202-215).
FailedIsUnmerged ==
    faults = 0 => \A r \in Having("FAILED") \cup Having("CONFLICT") : ~IsMerged(r)

\* A run that records a new merge commit has pushed it: the order of push and
\* finalizeRun survives faults, exits and cancels (worker.ts:204-215).
RecordedIsMerged == \A r \in Runs : mergeSha[r] = "commit" => IsMerged(r)

\* Nobody is notified of the failure or conflict of a run that merged, also when
\* the catch block rewrites the outcome (worker.ts:217-256).
NotifiedIsUnmerged == \A r \in Runs : notified[r] # {} => ~IsMerged(r)

\* The retention job works on ids it read earlier and overlaps inserts and other
\* jobs, yet never deletes one of the newest Retention runs of a project
\* (retention.ts:4-16).
PruneKeepsNewest ==
    [][\A r \in Runs : Present(r) /\ Newest(r, Retention) => Present(r)']_vars

\* After a restart a RUNNING document of the old process stays RUNNING, unowned,
\* and keeps its slot for good: only retention can remove it (index.ts:17-29).
OrphanStaysRunning ==
    [][\A r \in Running : crashes > 0 /\ workerPc[r] = "none" =>
         status'[r] \in {"RUNNING", "ABSENT"} /\ workerPc'[r] = "none"]_vars

\* A cancel saved before the attempt's check, or one that killed the tests, keeps
\* the run off the target branch as long as its document exists: retention that
\* deletes the document takes the flag along (worker.ts:147-164, :202-215).
BeforeSpawn == {"claimed", "load", "prepare", "precheck", "check"}
CancelTookHold(r) ==
    cancelRequested[r] /\ (workerPc[r] \in BeforeSpawn \/ work[r].killed)
CancelledStaysUnmerged ==
    \A r \in Runs : [](CancelTookHold(r) /\ ~IsMerged(r) =>
                         [](Present(r) => ~IsMerged(r)))

\* Every queued run is decided and its worker activity ends (worker.ts:55-83,
\* processRun): no run is starved, no slot is leaked while the process lives.
EveryRunEnds ==
    \A r \in Runs : status[r] = "QUEUED" ~>
        status[r] \notin {"QUEUED", "RUNNING"} /\ workerPc[r] = "none"

\* "Deduplicate: same project+branch+sha with QUEUED or RUNNING status"
\* (queue.ts:21) as overlapping polls and triggers really keep it: the search and
\* the insert are separate calls, so the active runs of a commit, and the calls past
\* the search that may still add one, are no more than the calls that can overlap.
\* With one caller at a time no two active runs share a commit.
Duplicates(d) == {r \in Queued \cup Running : SameSource(r, d)}
Cleared(d) == {q \in Callers : callPc[q] \in {"count", "seq", "create"}
                                 /\ call[q].project = d.project /\ call[q].commit = d.commit}
DuplicateBound ==
    \A d \in RunDetails : d.commit # NoCommit =>
        Cardinality(Duplicates(d)) + Cardinality(Cleared(d)) <= Cardinality(Callers)

\* "QUEUED runs are cancelled immediately" (docs/api-spec.md:507): a CANCELLED run
\* has not reached the target branch.
CancelledIsUnmerged == \A r \in Having("CANCELLED") : ~IsMerged(r)

\* The pipeline implements the lifecycle promised in RunLifecycle.  A number is
\* spent unless a call that drew it may still insert.
Spent == {r \in 1..lastSeq : \A q \in Callers : ~(callPc[q] = "create" /\ callSeq[q] = r)}
Lifecycle == INSTANCE RunLifecycle WITH spent <- Spent
ImplementsLifecycle == Lifecycle!Spec
=============================================================================
