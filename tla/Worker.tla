------------------------------- MODULE Worker -------------------------------
(***************************************************************************)
(* The pipeline worker (pipeline/worker.ts): the claim phase that ticks    *)
(* serialise on claimChain, and processRun(), one activity per claimed     *)
(* run.  workerPc[r] is the await the processing of run r is at; each      *)
(* action is the code from one await to the next.                          *)
(*                                                                         *)
(* Git and the test command are external: a clone, fetch, checkout or      *)
(* merge may fail, conflict or succeed, tests may pass or fail, and a push *)
(* succeeds exactly when the target branch is still where the run cloned   *)
(* it.  Nothing in the repository deletes a project document, so the       *)
(* branch "Project not found" is never taken and is not an action here.    *)
(***************************************************************************)
EXTENDS RunStore

CONSTANTS
    MaxConcurrent,      \* cfg.pipeline.maxConcurrent
    AutoRetryAttempts,  \* project.autoRetryAttempts
    MergeOutcomes       \* what preparing a workspace may come to (git is external)

ASSUME WorkerAssumption ==
    /\ MaxConcurrent \in Nat \ {0}
    /\ AutoRetryAttempts \in Nat
    /\ MergeOutcomes \subseteq {"staged", "upToDate", "conflict", "error"}

VARIABLES
    claimPc,    \* the await the claim phase at the head of claimChain is at
    slots,      \* iterations its claim loop has left
    workerPc,   \* workerPc[r]: where the processing of run r is
    work,       \* work[r]: the local variables of processRun for run r
    notified    \* notified[r]: kinds of notifications created for run r

workerVars == <<claimPc, slots, workerPc, work, notified>>

\* "claimed": in the array claimed, processRun not called yet.
BeforeFinalize == {"claimed", "load", "prepare", "conflict", "precheck", "check",
                   "spawn", "testing", "record", "publish", "decide", "cancel",
                   "catch", "catchCancel", "catchFail"}
AfterFinalize == {"notifyConflict", "notifyFailure", "cleanup"}
WorkerPc == {"none", "rethrow"} \cup BeforeFinalize \cup AfterFinalize

Work == [attempt : Nat, target : Branches, base : SUBSET Runs, changes : BOOLEAN,
         passed : BOOLEAN, killed : BOOLEAN, sha : {"null", "commit", "head"}]
NoWork == [attempt |-> 0, target |-> CHOOSE b \in Branches : TRUE, base |-> {},
           changes |-> FALSE, passed |-> FALSE, killed |-> FALSE, sha |-> "null"]

WorkerTypeOK ==
    /\ claimPc \in {"idle", "count", "claim", "return"}
    /\ slots \in 0..MaxConcurrent
    /\ workerPc \in [Runs -> WorkerPc]
    /\ work \in [Runs -> Work]
    /\ notified \in [Runs -> SUBSET {"CONFLICT", "FAILURE"}]

WorkerInit ==
    /\ claimPc = "idle"
    /\ slots = 0
    /\ workerPc = [r \in Runs |-> "none"]
    /\ work = [r \in Runs |-> NoWork]
    /\ notified = [r \in Runs |-> {}]

-----------------------------------------------------------------------------
(* The claim phase: claimRunsForCapacity() and tick().                     *)

unclaimed == <<workerPc, work, notified>>

\* setInterval fires, or the tick that waited on claimChain gets its turn.
Tick ==
    /\ claimPc = "idle"
    /\ claimPc' = "count"
    /\ UNCHANGED <<storeVars, slots, unclaimed>>

\* Mutant: one slot too many.
FreeSlotsOffByOne == MaxConcurrent + 1 - Cardinality(Running)

\* slots = maxConcurrent - runningCount
FreeSlots == MaxConcurrent - Cardinality(Running)

\* countDocuments({ status: RUNNING }); without a slot the phase is over.
CountRunning ==
    /\ claimPc = "count"
    /\ IF FreeSlots <= 0
       THEN claimPc' = "return" /\ UNCHANGED slots
       ELSE claimPc' = "claim" /\ slots' = FreeSlots
    /\ UNCHANGED <<storeVars, unclaimed>>

\* Mutant: the sort is descending.
ClaimedFirstDescending(r, s) == r >= s

\* The filter and the sort of the findOneAndUpdate.
Claimable == Queued
ClaimedFirst(r, s) == r <= s

\* One iteration: the QUEUED run with the lowest queueSequence.
ClaimRun ==
    /\ claimPc = "claim" /\ slots > 0
    /\ \E r \in Claimable :
         /\ \A s \in Claimable : ClaimedFirst(r, s)
         /\ status' = [status EXCEPT ![r] = "RUNNING"]
         /\ workerPc' = [workerPc EXCEPT ![r] = "claimed"]
    /\ slots' = slots - 1
    /\ UNCHANGED <<cancelRequested, attemptCount, mergeSha, details, lastSeq,
                   targetBranch, merged, faults, crashes, claimPc, work, notified>>

\* No run is queued, or no iteration is left.
StopClaiming ==
    /\ claimPc = "claim"
    /\ slots = 0 \/ Claimable = {}
    /\ claimPc' = "return"
    /\ slots' = 0
    /\ UNCHANGED <<storeVars, unclaimed>>

\* A call of the phase rejects: next.catch logs it, what was claimed is kept.
ClaimFault ==
    /\ claimPc \in {"count", "claim"}
    /\ DatabaseFault
    /\ claimPc' = "return"
    /\ slots' = 0
    /\ UNCHANGED <<runVars, lastSeq, targetBranch, merged, crashes, unclaimed>>

\* tick() calls processRun for every claimed run, which registers its
\* AbortController and awaits the project document.
StartProcessing ==
    /\ claimPc = "return"
    /\ claimPc' = "idle"
    /\ workerPc' = [r \in Runs |-> IF workerPc[r] = "claimed" THEN "load" ELSE workerPc[r]]
    /\ UNCHANGED <<storeVars, slots, work, notified>>

-----------------------------------------------------------------------------
(* processRun()                                                            *)

At(r, pc) == workerPc[r] = pc
Goto(r, pc) == workerPc' = [workerPc EXCEPT ![r] = pc]
claimVars == <<claimPc, slots>>

\* Project.findById: the target branch is the project's present one.
LoadProject(r) ==
    /\ At(r, "load")
    /\ work' = [work EXCEPT ![r].target = targetBranch[details[r].project]]
    /\ Goto(r, "prepare")
    /\ UNCHANGED <<storeVars, claimVars, notified>>

\* mkdir, clone, fetch, checkout, attemptMerge (merge --no-commit --no-ff).
Prepare(r) ==
    /\ At(r, "prepare")
    /\ \E outcome \in MergeOutcomes :
         CASE outcome \in {"staged", "upToDate"} ->
                /\ Goto(r, "precheck")
                /\ work' = [work EXCEPT ![r].base = merged[work[r].target],
                                        ![r].changes = (outcome = "staged")]
           [] outcome = "conflict" -> Goto(r, "conflict") /\ UNCHANGED work
           [] outcome = "error" -> Goto(r, "catch") /\ UNCHANGED work
    /\ UNCHANGED <<storeVars, claimVars, notified>>

\* finalizeRun(runId, s): no condition on the present status.
Finalize(r, s) ==
    /\ status' = StatusSet(r, s)
    /\ UNCHANGED <<cancelRequested, attemptCount, details, lastSeq, targetBranch,
                   merged, faults, crashes, claimVars, notified>>

FinalizeConflict(r) ==
    /\ At(r, "conflict")
    /\ Finalize(r, "CONFLICT")
    /\ Goto(r, "notifyConflict")
    /\ UNCHANGED <<mergeSha, work>>

\* writeAudit never rejects; the owner is notified if the branch is still tracked.
NotifyConflict(r) ==
    /\ At(r, "notifyConflict")
    /\ notified' \in {notified, [notified EXCEPT ![r] = @ \cup {"CONFLICT"}]}
    /\ Goto(r, "cleanup")
    /\ UNCHANGED <<storeVars, claimVars, work>>

\* Mutant: the flag is looked at in the first attempt only.
CancelSeenOnce(r) == Present(r) /\ cancelRequested[r] /\ work[r].attempt = 0

\* The two reads of cancelRequested: before the tests and before each attempt.
\* A deleted document has no flag.
CancelSeen(r) == Present(r) /\ cancelRequested[r]

CheckBeforeTests(r) ==
    /\ At(r, "precheck")
    /\ Goto(r, IF CancelSeen(r) THEN "cancel" ELSE "check")
    /\ UNCHANGED <<storeVars, claimVars, work, notified>>

CheckBeforeAttempt(r) ==
    /\ At(r, "check")
    /\ Goto(r, IF CancelSeen(r) THEN "cancel" ELSE "spawn")
    /\ UNCHANGED <<storeVars, claimVars, work, notified>>

\* The answer of the read arrives: spawn, and listen to the abort signal.  A
\* command that cannot be started rejects.
SpawnTests(r) ==
    /\ At(r, "spawn")
    /\ \E pc \in {"testing", "catch"} : Goto(r, pc)
    /\ UNCHANGED <<storeVars, claimVars, work, notified>>

\* The child closes.  A killed child has no exit code, which counts as 1.
TestsClose(r) ==
    /\ At(r, "testing")
    /\ \E passed \in BOOLEAN :
         /\ passed => ~work[r].killed
         /\ work' = [work EXCEPT ![r].passed = passed]
    /\ Goto(r, "record")
    /\ UNCHANGED <<storeVars, claimVars, notified>>

\* $push of the attempt record and $set of attemptCount, then the loop's test.
LastAttempt(r) == work[r].passed \/ work[r].attempt >= AutoRetryAttempts

RecordAttempt(r) ==
    /\ At(r, "record")
    /\ attemptCount' = IF Present(r)
                       THEN [attemptCount EXCEPT ![r] = work[r].attempt + 1]
                       ELSE attemptCount
    /\ IF LastAttempt(r)
       THEN Goto(r, IF work[r].passed THEN "publish" ELSE "decide") /\ UNCHANGED work
       ELSE Goto(r, "check") /\ work' = [work EXCEPT ![r].attempt = @ + 1]
    /\ UNCHANGED <<status, cancelRequested, mergeSha, details, lastSeq, targetBranch,
                   merged, faults, crashes, claimVars, notified>>

\* External: origin takes a push that fast-forwards the target branch.
FastForward(r) == merged[work[r].target] = work[r].base
OriginAfterPush(r) ==
    IF FastForward(r) THEN [merged EXCEPT ![work[r].target] = @ \cup {r}] ELSE merged

\* Mutant: the exit code of git push is ignored.
PushResolvesAlways(r) == TRUE

\* pushToOrigin resolves: git push exits with 0.
PushResolves(r) == FastForward(r)

\* commitMerge and pushToOrigin when something is staged, else getHeadSha.
Publish(r) ==
    /\ At(r, "publish")
    /\ \/ /\ work[r].changes /\ PushResolves(r)
          /\ merged' = OriginAfterPush(r)
          /\ work' = [work EXCEPT ![r].sha = "commit"]
          /\ Goto(r, "decide")
       \/ /\ ~work[r].changes
          /\ work' = [work EXCEPT ![r].sha = "head"]
          /\ Goto(r, "decide")
          /\ UNCHANGED merged
       \/ /\ Goto(r, "catch")       \* git fails, as the push of a stale merge does
          /\ UNCHANGED <<merged, work>>
    /\ UNCHANGED <<runVars, lastSeq, targetBranch, faults, crashes, claimVars, notified>>

\* Mutant: a cancel that comes after the push still fails the run.
FinalStatusHonoursCancel(r) ==
    IF work[r].passed /\ ~CancelSeen(r) THEN "PASSED" ELSE "FAILED"

FinalStatus(r) == IF work[r].passed THEN "PASSED" ELSE "FAILED"

\* finalizeRun(runId, finalStatus, { mergeCommitSha })
FinalizeDecided(r) ==
    /\ At(r, "decide")
    /\ Finalize(r, FinalStatus(r))
    /\ mergeSha' = IF Present(r) THEN [mergeSha EXCEPT ![r] = work[r].sha] ELSE mergeSha
    /\ Goto(r, IF FinalStatus(r) = "FAILED" THEN "notifyFailure" ELSE "cleanup")
    /\ UNCHANGED work

\* The owner, if the branch is still tracked, and the triggering user, if the run
\* was triggered by one, are notified.
NotifyFailure(r) ==
    /\ At(r, "notifyFailure")
    /\ \/ notified' = [notified EXCEPT ![r] = @ \cup {"FAILURE"}]
       \/ details[r].commit # NoCommit /\ UNCHANGED notified
    /\ Goto(r, "cleanup")
    /\ UNCHANGED <<storeVars, claimVars, work>>

FinalizeCancelled(r) ==
    /\ workerPc[r] \in {"cancel", "catchCancel"}
    /\ Finalize(r, "CANCELLED")
    /\ Goto(r, "cleanup")
    /\ UNCHANGED <<mergeSha, work>>

\* Mutant: the catch block leaves a run nobody cancelled without an outcome.
AfterCatchForgets(r) == IF CancelSeen(r) THEN "catchCancel" ELSE "cleanup"

\* catch: the flag is read again.
AfterCatch(r) == IF CancelSeen(r) THEN "catchCancel" ELSE "catchFail"

Catch(r) ==
    /\ At(r, "catch")
    /\ Goto(r, AfterCatch(r))
    /\ UNCHANGED <<storeVars, claimVars, work, notified>>

\* Mutant: the catch block notifies of every failure.
FinalizeErrorNotifies(r) ==
    /\ At(r, "catchFail")
    /\ Finalize(r, "FAILED")
    /\ Goto(r, "notifyFailure")
    /\ UNCHANGED <<mergeSha, work>>

FinalizeError(r) ==
    /\ At(r, "catchFail")
    /\ Finalize(r, "FAILED")
    /\ Goto(r, "cleanup")
    /\ UNCHANGED <<mergeSha, work>>

\* finally: the controller is forgotten, the workspace removed (errors ignored).
Cleanup(r) ==
    /\ At(r, "cleanup")
    /\ Goto(r, "none")
    /\ work' = [work EXCEPT ![r] = NoWork]
    /\ UNCHANGED <<storeVars, claimVars, notified>>

\* A database call inside the try block rejects.
TryPc == {"prepare", "conflict", "notifyConflict", "precheck", "check", "record",
          "decide", "notifyFailure", "cancel"}
TryFault(r) ==
    /\ workerPc[r] \in TryPc
    /\ DatabaseFault
    /\ Goto(r, "catch")
    \* A notification may have been created before the call that fails.
    /\ \/ UNCHANGED notified
       \/ At(r, "notifyFailure") /\ notified' = [notified EXCEPT ![r] = @ \cup {"FAILURE"}]
       \/ At(r, "notifyConflict") /\ notified' = [notified EXCEPT ![r] = @ \cup {"CONFLICT"}]
    /\ UNCHANGED <<runVars, lastSeq, targetBranch, merged, crashes, claimVars, work>>

\* A database call inside the catch block rejects: finally still runs, then
\* processRun rejects.
CatchFault(r) ==
    /\ workerPc[r] \in {"catch", "catchCancel", "catchFail"}
    /\ DatabaseFault
    /\ Goto(r, "rethrow")
    /\ UNCHANGED <<runVars, lastSeq, targetBranch, merged, crashes, claimVars, work, notified>>

Process(r) ==
    \/ LoadProject(r) \/ Prepare(r) \/ FinalizeConflict(r) \/ NotifyConflict(r)
    \/ CheckBeforeTests(r) \/ CheckBeforeAttempt(r) \/ SpawnTests(r) \/ TestsClose(r)
    \/ RecordAttempt(r) \/ Publish(r) \/ FinalizeDecided(r)
    \/ NotifyFailure(r) \/ FinalizeCancelled(r) \/ Catch(r) \/ FinalizeError(r)
    \/ Cleanup(r)

ClaimStep == Tick \/ CountRunning \/ ClaimRun \/ StopClaiming \/ StartProcessing

WorkerStep ==
    \/ ClaimStep \/ ClaimFault
    \/ \E r \in Runs : Process(r) \/ TryFault(r) \/ CatchFault(r)

\* The process exits: its activities and the claim phase are gone.
WorkerReset ==
    /\ claimPc' = "idle"
    /\ slots' = 0
    /\ workerPc' = [r \in Runs |-> "none"]
    /\ work' = [r \in Runs |-> NoWork]
=============================================================================
