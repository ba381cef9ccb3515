------------------------------ MODULE RunQueue ------------------------------
(***************************************************************************)
(* enqueueRun() (pipeline/queue.ts) and pruneRunsForProject()              *)
(* (pipeline/retention.ts).                                                *)
(*                                                                         *)
(* Calls of enqueueRun come from HTTP triggers and from scheduler polls    *)
(* and overlap: each await is a step of its own, so that what a call read  *)
(* may be out of date when it uses it.  The retention job is started       *)
(* without being awaited once the run is inserted; it is named by that     *)
(* run.                                                                    *)
(***************************************************************************)
EXTENDS RunStore

CONSTANTS
    Callers,        \* calls of enqueueRun that may be in flight together
    MaxQueued,      \* cfg.pipeline.maxQueued
    Retention       \* cfg.pipeline.runsRetention

ASSUME QueueAssumption ==
    /\ IsFiniteSet(Callers)
    /\ MaxQueued \in Nat \ {0}
    /\ Retention \in Nat \ {0}

VARIABLES
    callPc,      \* callPc[q]: the await call q is at
    call,        \* call[q]: the parameters of the call
    callSeq,     \* callSeq[q]: the sequence number the call drew
    prunePc,     \* prunePc[r]: the await the retention job of run r is at
    pruneIds     \* pruneIds[r]: the ids that job is about to delete

queueVars == <<callPc, call, callSeq, prunePc, pruneIds>>

CallPc == {"idle", "dedupe", "count", "seq", "create"}
PrunePc == {"idle", "find", "delete"}

QueueTypeOK ==
    /\ callPc \in [Callers -> CallPc]
    /\ call \in [Callers -> RunDetails]
    /\ callSeq \in [Callers -> 0..MaxSeq]
    /\ prunePc \in [Runs -> PrunePc]
    /\ pruneIds \in [Runs -> SUBSET Runs]

NoCall == [project |-> CHOOSE p \in Projects : TRUE, commit |-> NoCommit,
           target |-> CHOOSE b \in Branches : TRUE]

QueueInit ==
    /\ callPc = [q \in Callers |-> "idle"]
    /\ call = [q \in Callers |-> NoCall]
    /\ callSeq = [q \in Callers |-> 0]
    /\ prunePc = [r \in Runs |-> "idle"]
    /\ pruneIds = [r \in Runs |-> {}]

Return(q) ==
    /\ callPc' = [callPc EXCEPT ![q] = "idle"]
    /\ call' = [call EXCEPT ![q] = NoCall]
    /\ callSeq' = [callSeq EXCEPT ![q] = 0]

\* Calls that may still draw a sequence number.
Drawing == {q \in Callers : callPc[q] \in {"dedupe", "count", "seq"}}

\* A trigger or a poll read the project and calls enqueueRun.  The last
\* conjunct is the bound MaxSeq.
CallEnqueue(q, p, c) ==
    /\ callPc[q] = "idle"
    /\ lastSeq + Cardinality(Drawing) < MaxSeq
    /\ call' = [call EXCEPT ![q] =
                  [project |-> p, commit |-> c, target |-> targetBranch[p]]]
    /\ callPc' = [callPc EXCEPT ![q] = IF c = NoCommit THEN "count" ELSE "dedupe"]
    /\ UNCHANGED <<storeVars, callSeq, prunePc, pruneIds>>

SameSource(r, d) == details[r].project = d.project /\ details[r].commit = d.commit

\* Mutant: the search forgets the runs that are already RUNNING.
ActiveQueuedOnly == Queued

\* The filter on status of the duplicate search.
Active == Queued \cup Running

\* findOne of a QUEUED or RUNNING run of the same commit: it is returned.
Dedupe(q) ==
    /\ callPc[q] = "dedupe"
    /\ IF \E r \in Active : SameSource(r, call[q])
       THEN Return(q)
       ELSE callPc' = [callPc EXCEPT ![q] = "count"] /\ UNCHANGED <<call, callSeq>>
    /\ UNCHANGED <<storeVars, prunePc, pruneIds>>

\* Mutant: > for >=.
QueueFullOffByOne == Cardinality(Queued) > MaxQueued

\* queuedCount >= maxQueued, over the QUEUED runs of all projects.
QueueFull == Cardinality(Queued) >= MaxQueued

\* countDocuments; at the cap the call is refused with PIPELINE_QUEUE_FULL.
CountQueued(q) ==
    /\ callPc[q] = "count"
    /\ IF QueueFull
       THEN Return(q)
       ELSE callPc' = [callPc EXCEPT ![q] = "seq"] /\ UNCHANGED <<call, callSeq>>
    /\ UNCHANGED <<storeVars, prunePc, pruneIds>>

\* nextQueueSequence(): an atomic $inc.
DrawSequence(q) ==
    /\ callPc[q] = "seq"
    /\ lastSeq' = lastSeq + 1
    /\ callSeq' = [callSeq EXCEPT ![q] = lastSeq + 1]
    /\ callPc' = [callPc EXCEPT ![q] = "create"]
    /\ UNCHANGED <<runVars, targetBranch, merged, faults, crashes,
                   call, prunePc, pruneIds>>

\* PipelineRun.create(...), then the retention job of the project is started.
InsertRun(q) ==
    /\ callPc[q] = "create"
    /\ LET r == callSeq[q] IN
       /\ status' = [status EXCEPT ![r] = "QUEUED"]
       /\ details' = [details EXCEPT ![r] = call[q]]
       /\ prunePc' = [prunePc EXCEPT ![r] = "find"]
    /\ Return(q)
    /\ UNCHANGED <<cancelRequested, attemptCount, mergeSha, lastSeq, targetBranch,
                   merged, faults, crashes, pruneIds>>

\* A database call of enqueueRun rejects: the caller reports the error.
EnqueueFault(q) ==
    /\ callPc[q] # "idle"
    /\ DatabaseFault
    /\ Return(q)
    /\ UNCHANGED <<runVars, lastSeq, targetBranch, merged, crashes, prunePc, pruneIds>>

\* Mutant: one run too few is skipped.
OutdatedSkipsTooFew(p) == {s \in RunsOf(p) : ~Newest(s, Retention - 1)}

\* find().sort({ queueSequence: -1 }).skip(retention): whatever their status.
Outdated(p) == {s \in RunsOf(p) : ~Newest(s, Retention)}

PruneFind(r) ==
    /\ prunePc[r] = "find"
    /\ LET old == Outdated(details[r].project) IN
       /\ pruneIds' = [pruneIds EXCEPT ![r] = old]
       /\ prunePc' = [prunePc EXCEPT ![r] = IF old = {} THEN "idle" ELSE "delete"]
    /\ UNCHANGED <<storeVars, callPc, call, callSeq>>

\* deleteMany({ _id: { $in: ids } })
PruneDelete(r) ==
    /\ prunePc[r] = "delete"
    /\ status' = [s \in Runs |-> IF s \in pruneIds[r] THEN "ABSENT" ELSE status[s]]
    /\ prunePc' = [prunePc EXCEPT ![r] = "idle"]
    /\ pruneIds' = [pruneIds EXCEPT ![r] = {}]
    /\ UNCHANGED <<cancelRequested, attemptCount, mergeSha, details, lastSeq,
                   targetBranch, merged, faults, crashes, callPc, call, callSeq>>

QueueStep ==
    \/ \E q \in Callers :
         \/ \E p \in Projects, c \in Sources : CallEnqueue(q, p, c)
         \/ Dedupe(q) \/ CountQueued(q) \/ DrawSequence(q) \/ InsertRun(q)
         \/ EnqueueFault(q)
    \/ \E r \in Runs : PruneFind(r) \/ PruneDelete(r)

\* The process exits: calls and jobs in flight are gone.
QueueReset ==
    /\ callPc' = [q \in Callers |-> "idle"]
    /\ call' = [q \in Callers |-> NoCall]
    /\ callSeq' = [q \in Callers |-> 0]
    /\ prunePc' = [r \in Runs |-> "idle"]
    /\ pruneIds' = [r \in Runs |-> {}]
=============================================================================
