--------------------------- MODULE Outcome_proofs ---------------------------
(***************************************************************************)
(* Theorems about the outcome of a run: what its status, its record of a   *)
(* merge commit and the notifications about it have to do with the target  *)
(* branch, for every number of runs, retries, cancels, faults and exits.   *)
(***************************************************************************)
EXTENDS Pipeline_proofs

USE StoreAssumption, QueueAssumption, WorkerAssumption
    DEF StoreAssumption, QueueAssumption, WorkerAssumption

-----------------------------------------------------------------------------
(* The life of one run, by the await its processing is at.  The parameters *)
(* are the values of status[r], workerPc[r], notified[r], IsMerged(r),     *)
(* work[r].passed and faults.                                              *)

\* No commit has been pushed and no outcome written.
Undecided == {"claimed", "load", "prepare", "conflict", "precheck", "check", "spawn",
              "testing", "record", "publish", "cancel"}
Open == {"RUNNING", "CANCELLED", "ABSENT"}
Unmerged == {"FAILED", "CONFLICT"}
Catching == {"catch", "catchCancel", "catchFail", "rethrow"}
Notifying == {"notifyConflict", "notifyFailure"}

Life(st, pc, told, onTarget, passed, failures) ==
    /\ st = "QUEUED" => pc = "none" /\ told = {} /\ ~onTarget
    /\ pc \in Undecided => st \in Open /\ told = {} /\ ~onTarget
    /\ pc = "publish" => passed
    /\ pc = "decide" => st \in Open /\ told = {} /\ (passed \/ ~onTarget)
    /\ pc \in Notifying => st \in Open \cup Unmerged /\ ~onTarget
    /\ pc \in Catching => st \in Open \cup Unmerged
    /\ told # {} => ~onTarget
    /\ failures = 0 /\ (st \in Unmerged \/ pc \in Catching) => ~onTarget

LifeOf(r) == Life(status[r], workerPc[r], notified[r], IsMerged(r), work[r].passed, faults)

\* A number that no document carries yet has left no trace.
Fresh(r) == status[r] = "ABSENT" /\ workerPc[r] = "none" /\ notified[r] = {} /\ ~IsMerged(r)

FreshRuns == {r \in Runs : Fresh(r)}

NumbersFresh ==
    /\ \A r \in Runs : r > lastSeq => r \in FreshRuns
    /\ \A q \in Callers : callPc[q] = "create" =>
         /\ callSeq[q] \in 1..lastSeq /\ callSeq[q] \in FreshRuns
         /\ \A p \in Callers : callPc[p] = "create" /\ callSeq[p] = callSeq[q] => p = q

OutcomeInv == NumbersFresh /\ \A r \in Runs : LifeOf(r)

-----------------------------------------------------------------------------
(* Frames.                                                                 *)

\* The step leaves run r alone, or deletes or cancels its document.
LeavesAlone(r) ==
    /\ workerPc'[r] = workerPc[r] /\ notified'[r] = notified[r]
    /\ IsMerged(r)' = IsMerged(r)
    /\ work'[r].passed = work[r].passed
    /\ \/ status'[r] = status[r]
       \/ status[r] # "ABSENT" /\ status'[r] \in {"ABSENT", "CANCELLED"}

FaultsGrow == faults' = 0 => faults = 0

\* A run left alone keeps its place in its life.
LEMMA LifeFrame ==
  ASSUME NEW r \in Runs, LifeOf(r), LeavesAlone(r), FaultsGrow
  PROVE  LifeOf(r)'
<1>1. CASE status'[r] = status[r]
  BY <1>1 DEF LeavesAlone, FaultsGrow, LifeOf, Life
<1>2. CASE status'[r] \in {"ABSENT", "CANCELLED"}
  BY <1>2 DEF LeavesAlone, FaultsGrow, LifeOf, Life, Open, Unmerged
<1> QED BY <1>1, <1>2 DEF LeavesAlone

\* A number without a trace that is left alone stays without one.
LEMMA FreshFrame ==
  ASSUME NEW r \in Runs, Fresh(r), LeavesAlone(r)
  PROVE  Fresh(r)'
  BY DEF Fresh, LeavesAlone

\* A step of the processing of run r that leaves the queue and all other runs alone.
LEMMA ActivityStep ==
  ASSUME TypeOK, OutcomeInv, NEW r \in Runs, ~Fresh(r), LifeOf(r)', FaultsGrow,
         \A s \in Runs \ {r} : LeavesAlone(s), UNCHANGED <<lastSeq, callPc, callSeq>>
  PROVE  OutcomeInv'
<1>1. \A s \in Runs : LifeOf(s)'
  BY LifeFrame DEF OutcomeInv
<1>2. FreshRuns \subseteq FreshRuns'
  BY FreshFrame DEF FreshRuns
<1>3. NumbersFresh'
  BY <1>2 DEF OutcomeInv, NumbersFresh
<1> QED BY <1>1, <1>3 DEF OutcomeInv

\* A step that leaves the queue and all runs alone.
LEMMA QuietStep ==
  ASSUME TypeOK, OutcomeInv, FaultsGrow, \A s \in Runs : LeavesAlone(s),
         lastSeq' = lastSeq,
         \A q \in Callers : callPc'[q] = "create" => callPc[q] = "create" /\ callSeq'[q] = callSeq[q]
  PROVE  OutcomeInv'
<1>1. \A s \in Runs : LifeOf(s)'
  BY LifeFrame DEF OutcomeInv
<1>2. FreshRuns \subseteq FreshRuns'
  BY FreshFrame DEF FreshRuns
<1>3. NumbersFresh'
  BY <1>2 DEF OutcomeInv, NumbersFresh
<1> QED BY <1>1, <1>3 DEF OutcomeInv

-----------------------------------------------------------------------------
(* processRun.                                                             *)

\* What Goto does to each activity.
LEMMA GotoEffect ==
  ASSUME TypeOK, NEW r \in Runs, NEW pc, Goto(r, pc)
  PROVE  workerPc'[r] = pc /\ \A s \in Runs \ {r} : workerPc'[s] = workerPc[s]
  BY DEF Goto, TypeOK, WorkerTypeOK

\* What finalizeRun does: it writes one status and nothing else but what its caller adds.
LEMMA FinalizeEffect ==
  ASSUME TypeOK, NEW r \in Runs, NEW outcome \in Terminal, Finalize(r, outcome)
  PROVE  /\ status'[r] = IF status[r] = "ABSENT" THEN "ABSENT" ELSE outcome
         /\ \A s \in Runs \ {r} : status'[s] = status[s]
         /\ \A s \in Runs : IsMerged(s)' = IsMerged(s)
         /\ notified' = notified /\ faults' = faults
         /\ lastSeq' = lastSeq
  BY DEF Finalize, StatusSet, Present, IsMerged, TypeOK, StoreTypeOK

\* No step of the processing of a run touches another run.
LEMMA ActivityFrame ==
  ASSUME TypeOK, NEW r \in Runs, Process(r) \/ TryFault(r) \/ CatchFault(r)
  PROVE  /\ \A s \in Runs \ {r} : LeavesAlone(s)
         /\ FaultsGrow /\ lastSeq' = lastSeq /\ workerPc[r] # "none"
<1> USE GotoEffect DEF LeavesAlone, FaultsGrow, storeVars, runVars
<1>0. faults \in Nat /\ work \in [Runs -> Work] /\ notified \in [Runs -> SUBSET {"CONFLICT", "FAILURE"}]
  BY DEF TypeOK, StoreTypeOK, WorkerTypeOK
<1>1. CASE LoadProject(r)
  <2>1. \A s \in Runs \ {r} : work'[s] = work[s]
    BY <1>0, <1>1 DEF LoadProject
  <2> QED BY <1>1, <2>1 DEF LoadProject, At, IsMerged
<1>8. CASE Prepare(r)
  <2>1. \A s \in Runs \ {r} : work'[s] = work[s]
    <3>1. \/ work' = work
          \/ \E c : work' = [work EXCEPT ![r] =
                               [work[r] EXCEPT !.base = merged[work[r].target], !.changes = c]]
      BY <1>8 DEF Prepare
    <3> QED BY <1>0, <3>1
  <2>2. \E pc \in {"precheck", "conflict", "catch"} : Goto(r, pc)
    BY <1>8 DEF Prepare
  <2>3. UNCHANGED <<status, notified, merged, lastSeq, faults>> /\ workerPc[r] # "none"
    BY <1>8 DEF Prepare, At
  <2> QED BY <2>1, <2>2, <2>3 DEF IsMerged
<1>2. CASE CheckBeforeTests(r) \/ CheckBeforeAttempt(r) \/ SpawnTests(r) \/ Catch(r) \/ Cleanup(r)
           \/ TestsClose(r)
  <2>1. \A s \in Runs \ {r} : work'[s] = work[s]
    BY <1>0, <1>2 DEF CheckBeforeTests, CheckBeforeAttempt, SpawnTests, Catch, Cleanup, TestsClose
  <2>2. \E pc : Goto(r, pc)
    BY <1>2 DEF CheckBeforeTests, CheckBeforeAttempt, SpawnTests, Catch, Cleanup, TestsClose
  <2> QED BY <1>2, <2>1, <2>2
          DEF CheckBeforeTests, CheckBeforeAttempt, SpawnTests, Catch, Cleanup, TestsClose, At, IsMerged
<1>3. CASE RecordAttempt(r)
  <2>1. \A s \in Runs \ {r} : work'[s] = work[s]
    BY <1>0, <1>3 DEF RecordAttempt
  <2>2. \E pc : Goto(r, pc)
    BY <1>3 DEF RecordAttempt
  <2> QED BY <1>3, <2>1, <2>2 DEF RecordAttempt, At, IsMerged
<1>4. CASE FinalizeConflict(r) \/ FinalizeCancelled(r) \/ FinalizeError(r) \/ FinalizeDecided(r)
  <2>1. \E outcome \in Terminal : Finalize(r, outcome)
    BY <1>4 DEF FinalizeConflict, FinalizeCancelled, FinalizeError, FinalizeDecided, FinalStatus,
       Terminal
  <2>2. UNCHANGED work /\ \E pc : Goto(r, pc)
    BY <1>4 DEF FinalizeConflict, FinalizeCancelled, FinalizeError, FinalizeDecided
  <2>3. workerPc[r] # "none"
    BY <1>4 DEF FinalizeConflict, FinalizeCancelled, FinalizeError, FinalizeDecided, At
  <2> QED BY <2>1, <2>2, <2>3, FinalizeEffect
<1>5. CASE NotifyConflict(r) \/ NotifyFailure(r)
  <2>1. \A s \in Runs \ {r} : notified'[s] = notified[s]
    BY <1>0, <1>5 DEF NotifyConflict, NotifyFailure
  <2>2. \E pc : Goto(r, pc)
    BY <1>5 DEF NotifyConflict, NotifyFailure
  <2> QED BY <1>5, <2>1, <2>2 DEF NotifyConflict, NotifyFailure, At, IsMerged
<1>6. CASE TryFault(r) \/ CatchFault(r)
  <2>1. \A s \in Runs \ {r} : notified'[s] = notified[s]
    BY <1>0, <1>6 DEF TryFault, CatchFault
  <2>2. (\E pc : Goto(r, pc)) /\ workerPc[r] # "none"
    BY <1>6 DEF TryFault, CatchFault, TryPc
  <2>3. UNCHANGED <<status, work, merged, lastSeq>>
    BY <1>6 DEF TryFault, CatchFault
  <2>4. FaultsGrow
    BY <1>0, <1>6 DEF TryFault, CatchFault, DatabaseFault
  <2> QED BY <2>1, <2>2, <2>3, <2>4 DEF IsMerged
<1>7. CASE Publish(r)
  <2>1. \A s \in Runs \ {r} : work'[s] = work[s]
    BY <1>0, <1>7 DEF Publish
  <2>2. \A s \in Runs \ {r} : IsMerged(s)' = IsMerged(s)
    <3>1. \/ merged' = merged
          \/ merged' = [merged EXCEPT ![work[r].target] = @ \cup {r}]
      BY <1>7 DEF Publish, OriginAfterPush
    <3> QED BY <3>1 DEF IsMerged, TypeOK, StoreTypeOK
  <2>3. (\E pc : Goto(r, pc)) /\ UNCHANGED <<status, notified, lastSeq, faults>>
        /\ workerPc[r] # "none"
    BY <1>7 DEF Publish, At
  <2> QED BY <2>1, <2>2, <2>3
<1> QED BY <1>1, <1>2, <1>3, <1>4, <1>5, <1>6, <1>7, <1>8 DEF Process

\* Every step of the processing of a run keeps its life in order.
LEMMA ActivityLife ==
  ASSUME TypeOK, NEW r \in Runs, LifeOf(r), Process(r) \/ TryFault(r) \/ CatchFault(r)
  PROVE  LifeOf(r)'
<1> USE GotoEffect DEF storeVars, runVars, At
<1>0. /\ workerPc[r] # "none" /\ status[r] # "QUEUED"
      /\ faults \in Nat /\ work \in [Runs -> Work]
      /\ notified \in [Runs -> SUBSET {"CONFLICT", "FAILURE"}]
  BY ActivityFrame DEF TypeOK, StoreTypeOK, WorkerTypeOK, LifeOf, Life
<1>1. CASE LoadProject(r) \/ CheckBeforeTests(r) \/ CheckBeforeAttempt(r) \/ SpawnTests(r)
           \/ TestsClose(r)
  <2>1. \E pc \in {"prepare", "cancel", "check", "spawn", "testing", "catch", "record"} : Goto(r, pc)
    BY <1>1 DEF LoadProject, CheckBeforeTests, CheckBeforeAttempt, SpawnTests, TestsClose
  <2>2. UNCHANGED <<status, notified, faults, merged>> /\ workerPc[r] \in Undecided
    BY <1>1 DEF LoadProject, CheckBeforeTests, CheckBeforeAttempt, SpawnTests, TestsClose, Undecided
  <2> QED BY <2>1, <2>2, GotoEffect DEF LifeOf, Life, Undecided, Catching, Notifying, Open,
             Unmerged, IsMerged
<1>2. CASE Prepare(r)
  <2>1. \E pc \in {"precheck", "conflict", "catch"} : Goto(r, pc)
    BY <1>2 DEF Prepare
  <2>2. UNCHANGED <<status, notified, faults, merged>> /\ workerPc[r] \in Undecided
    BY <1>2 DEF Prepare, Undecided
  <2> QED BY <2>1, <2>2 DEF LifeOf, Life, Undecided, Catching, Notifying, Open, Unmerged, IsMerged
<1>3. CASE RecordAttempt(r)
  <2>1. \/ Goto(r, "check")
        \/ UNCHANGED work /\ work[r].passed /\ Goto(r, "publish")
        \/ UNCHANGED work /\ ~work[r].passed /\ Goto(r, "decide")
    BY <1>3 DEF RecordAttempt
  <2>2. UNCHANGED <<status, notified, faults, merged>> /\ workerPc[r] \in Undecided
    BY <1>3 DEF RecordAttempt, Undecided
  <2> QED BY <2>1, <2>2 DEF LifeOf, Life, Undecided, Catching, Notifying, Open, Unmerged, IsMerged
<1>4. CASE Publish(r)
  <2>1. Goto(r, "decide") \/ (Goto(r, "catch") /\ UNCHANGED <<merged, work>>)
    BY <1>4 DEF Publish
  <2>2. UNCHANGED <<status, notified, faults>> /\ workerPc[r] = "publish"
    BY <1>4 DEF Publish
  <2>3. work'[r].passed = work[r].passed
    BY <1>0, <1>4 DEF Publish, Work
  <2> QED BY <2>1, <2>2, <2>3 DEF LifeOf, Life, Undecided, Catching, Notifying, Open, Unmerged,
             IsMerged
<1>5. CASE FinalizeConflict(r) \/ FinalizeCancelled(r) \/ FinalizeError(r) \/ FinalizeDecided(r)
  <2>1. /\ UNCHANGED work
        /\ \/ workerPc[r] = "conflict" /\ Finalize(r, "CONFLICT") /\ Goto(r, "notifyConflict")
           \/ workerPc[r] \in {"cancel", "catchCancel"} /\ Finalize(r, "CANCELLED")
              /\ Goto(r, "cleanup")
           \/ workerPc[r] = "catchFail" /\ Finalize(r, "FAILED") /\ Goto(r, "cleanup")
           \/ workerPc[r] = "decide" /\ work[r].passed /\ Finalize(r, "PASSED")
              /\ Goto(r, "cleanup")
           \/ workerPc[r] = "decide" /\ ~work[r].passed /\ Finalize(r, "FAILED")
              /\ Goto(r, "notifyFailure")
    BY <1>5 DEF FinalizeConflict, FinalizeCancelled, FinalizeError, FinalizeDecided, FinalStatus
  <2>2. {"CONFLICT", "CANCELLED", "FAILED", "PASSED"} = Terminal
    BY DEF Terminal
  <2>3. \E outcome \in Terminal : Finalize(r, outcome) /\
          status'[r] = IF status[r] = "ABSENT" THEN "ABSENT" ELSE outcome
    BY <2>1, <2>2, FinalizeEffect
  <2>4. IsMerged(r)' = IsMerged(r) /\ UNCHANGED <<notified, faults>>
    BY <2>3, FinalizeEffect
  <2>5. /\ \A pc \in {"conflict", "cancel"} : workerPc[r] = pc => pc \in Undecided
        /\ \A pc \in {"catchCancel", "catchFail"} : pc \in Catching
    BY DEF Undecided, Catching
  <2>6. CASE workerPc[r] = "conflict"
    <3>1. status'[r] \in {"ABSENT", "CONFLICT"} /\ workerPc'[r] = "notifyConflict"
      BY <2>1, <2>2, <2>6, FinalizeEffect
    <3> QED BY <2>4, <2>6, <3>1 DEF LifeOf, Life, Undecided, Catching, Notifying, Open, Unmerged
  <2>7. CASE workerPc[r] \in {"cancel", "catchCancel"}
    <3>1. status'[r] \in {"ABSENT", "CANCELLED"} /\ workerPc'[r] = "cleanup"
      BY <2>1, <2>2, <2>7, FinalizeEffect
    <3> QED BY <2>4, <2>7, <3>1 DEF LifeOf, Life, Undecided, Catching, Notifying, Open, Unmerged
  <2>8. CASE workerPc[r] = "catchFail"
    <3>1. status'[r] \in {"ABSENT", "FAILED"} /\ workerPc'[r] = "cleanup"
      BY <2>1, <2>2, <2>8, FinalizeEffect
    <3> QED BY <2>4, <2>8, <3>1 DEF LifeOf, Life, Undecided, Catching, Notifying, Open, Unmerged
  <2>9. CASE workerPc[r] = "decide"
    <3>1. \/ status'[r] \in {"ABSENT", "PASSED"} /\ workerPc'[r] = "cleanup"
          \/ ~work[r].passed /\ status'[r] \in {"ABSENT", "FAILED"} /\ workerPc'[r] = "notifyFailure"
      BY <2>1, <2>2, <2>9, FinalizeEffect
    <3> QED BY <2>4, <2>9, <3>1 DEF LifeOf, Life, Undecided, Catching, Notifying, Open, Unmerged
  <2> QED BY <2>1, <2>6, <2>7, <2>8, <2>9
<1>6. CASE NotifyConflict(r) \/ NotifyFailure(r) \/ Cleanup(r)
  <2>1. \E pc \in {"cleanup", "none"} : Goto(r, pc)
    BY <1>6 DEF NotifyConflict, NotifyFailure, Cleanup
  <2>2. notified'[r] = notified[r] \/ workerPc[r] \in Notifying
    BY <1>6 DEF NotifyConflict, NotifyFailure, Cleanup, Notifying
  <2>3. UNCHANGED <<status, faults, merged>>
    BY <1>6 DEF NotifyConflict, NotifyFailure, Cleanup
  <2> QED BY <1>0, <2>1, <2>2, <2>3 DEF LifeOf, Life, Undecided, Catching, Notifying, Unmerged, IsMerged
<1>7. CASE Catch(r) \/ CatchFault(r)
  <2>1. workerPc[r] \in Catching /\ \E pc \in Catching : Goto(r, pc)
    BY <1>7 DEF Catch, AfterCatch, CatchFault, Catching
  <2>2. UNCHANGED <<status, notified, merged>> /\ (faults' = 0 => faults = 0)
    BY <1>0, <1>7 DEF Catch, CatchFault, DatabaseFault
  <2> QED BY <2>1, <2>2 DEF LifeOf, Life, Undecided, Catching, Notifying, Unmerged, IsMerged
<1>8. CASE TryFault(r)
  <2>1. Goto(r, "catch") /\ UNCHANGED <<status, merged>>
        /\ workerPc[r] \in Undecided \cup Notifying \cup {"decide"}
    BY <1>8 DEF TryFault, TryPc, Undecided, Notifying
  <2>2. notified'[r] = notified[r] \/ workerPc[r] \in Notifying
    BY <1>8 DEF TryFault, Notifying
  <2>3. faults' # 0
    BY <1>0, <1>8 DEF TryFault, DatabaseFault
  <2> QED BY <1>0, <2>1, <2>2, <2>3 DEF LifeOf, Life, Undecided, Catching, Notifying, Open, Unmerged,
             IsMerged
<1> QED BY <1>1, <1>2, <1>3, <1>4, <1>5, <1>6, <1>7, <1>8 DEF Process

-----------------------------------------------------------------------------
(* The other steps.                                                        *)

\* The calls of enqueueRun and the retention jobs keep the invariant.
LEMMA QueueOutcome ==
  ASSUME TypeOK, TypeOK', OutcomeInv, QueueStep, UNCHANGED <<workerVars, cancelVars>>
  PROVE  OutcomeInv'
<1> USE DEF LeavesAlone, FaultsGrow, storeVars, runVars, workerVars
<1>0. /\ faults \in Nat /\ lastSeq \in Nat
      /\ status \in [Runs -> Status \cup {"ABSENT"}]
      /\ callPc \in [Callers -> CallPc] /\ callSeq \in [Callers -> 0..MaxSeq]
  BY DEF TypeOK, StoreTypeOK, QueueTypeOK
<1>1. ASSUME NEW q \in Callers,
             \/ \E p \in Projects, c \in Sources : CallEnqueue(q, p, c)
             \/ Dedupe(q) \/ CountQueued(q) \/ EnqueueFault(q)
      PROVE  OutcomeInv'
  <2>1. \A p \in Callers : callPc'[p] = "create" => callPc[p] = "create" /\ callSeq'[p] = callSeq[p]
    BY <1>0, <1>1 DEF CallEnqueue, Dedupe, CountQueued, EnqueueFault, Return
  <2>2. UNCHANGED <<status, merged, lastSeq>> /\ FaultsGrow
    BY <1>0, <1>1 DEF CallEnqueue, Dedupe, CountQueued, EnqueueFault, DatabaseFault
  <2>3. \A s \in Runs : LeavesAlone(s)
    BY <2>2 DEF IsMerged
  <2> QED BY <2>1, <2>2, <2>3, QuietStep
<1>2. ASSUME NEW r \in Runs, PruneFind(r) \/ PruneDelete(r) PROVE OutcomeInv'
  <2>1. UNCHANGED <<merged, lastSeq, callPc, callSeq, faults>>
    BY <1>2 DEF PruneFind, PruneDelete
  <2>2. \A s \in Runs : status'[s] = status[s] \/ (status[s] # "ABSENT" /\ status'[s] = "ABSENT")
    BY <1>0, <1>2 DEF PruneFind, PruneDelete
  <2>3. \A s \in Runs : LeavesAlone(s)
    BY <2>1, <2>2 DEF IsMerged
  <2> QED BY <2>1, <2>3, QuietStep
<1>3. ASSUME NEW q \in Callers, DrawSequence(q) PROVE OutcomeInv'
  <2>1. UNCHANGED <<status, merged, faults>> /\ lastSeq' = lastSeq + 1
        /\ callPc' = [callPc EXCEPT ![q] = "create"]
        /\ callSeq' = [callSeq EXCEPT ![q] = lastSeq + 1]
    BY <1>3 DEF DrawSequence
  <2>2. lastSeq + 1 \in Runs
    BY <1>0, <2>1 DEF TypeOK, StoreTypeOK, Runs
  <2>3. \A s \in Runs : LeavesAlone(s)
    BY <2>1 DEF IsMerged
  <2>4. \A s \in Runs : LifeOf(s)'
    BY <2>1, <2>3, LifeFrame DEF OutcomeInv
  <2>5. FreshRuns \subseteq FreshRuns'
    BY <2>3, FreshFrame DEF FreshRuns
  <2>6. \A r \in Runs : r > lastSeq' => r \in FreshRuns'
    BY <1>0, <2>1, <2>5 DEF OutcomeInv, NumbersFresh, Runs
  <2>7. lastSeq + 1 \in FreshRuns'
    BY <1>0, <2>2, <2>5 DEF OutcomeInv, NumbersFresh
  <2>8. ASSUME NEW p \in Callers, callPc'[p] = "create"
        PROVE  /\ callSeq'[p] \in 1..lastSeq' /\ callSeq'[p] \in FreshRuns'
               /\ p # q => callPc[p] = "create" /\ callSeq'[p] = callSeq[p] /\ callSeq'[p] < lastSeq'
    BY <1>0, <2>1, <2>5, <2>7, <2>8 DEF OutcomeInv, NumbersFresh
  <2>9. callSeq'[q] = lastSeq'
    BY <1>0, <2>1
  <2>10. NumbersFresh'
    <3>1. ASSUME NEW p \in Callers, NEW o \in Callers, callPc'[p] = "create",
                 callPc'[o] = "create", callSeq'[o] = callSeq'[p]
          PROVE  o = p
      <4>1. o # q /\ p # q => callSeq[o] = callSeq[p] /\ callPc[o] = "create" /\ callPc[p] = "create"
        BY <2>8, <3>1
      <4>2. o = q <=> p = q
        BY <1>0, <2>1, <2>8, <2>9, <3>1
      <4> QED BY <4>1, <4>2 DEF OutcomeInv, NumbersFresh
    <3> QED BY <2>6, <2>8, <3>1 DEF NumbersFresh
  <2> QED BY <2>4, <2>10 DEF OutcomeInv
<1>4. ASSUME NEW q \in Callers, InsertRun(q) PROVE OutcomeInv'
  <2>0. PICK r \in Runs : r = callSeq[q] /\ Fresh(r) /\ r <= lastSeq
    BY <1>0, <1>4 DEF InsertRun, OutcomeInv, NumbersFresh, FreshRuns
  <2>1. /\ status' = [status EXCEPT ![r] = "QUEUED"]
        /\ callPc[q] = "create" /\ callPc' = [callPc EXCEPT ![q] = "idle"]
        /\ callSeq' = [callSeq EXCEPT ![q] = 0]
        /\ UNCHANGED <<merged, faults, lastSeq>>
    BY <1>4, <2>0 DEF InsertRun, Return
  <2>2. \A s \in Runs \ {r} : LeavesAlone(s)
    BY <1>0, <2>1 DEF IsMerged
  <2>3. LifeOf(r)'
    BY <1>0, <2>0, <2>1 DEF Fresh, LifeOf, Life, IsMerged, Undecided, Notifying, Catching, Unmerged
  <2>4. \A s \in Runs : LifeOf(s)'
    BY <2>1, <2>2, <2>3, LifeFrame DEF OutcomeInv
  <2>5. FreshRuns \ {r} \subseteq FreshRuns'
    BY <2>2, FreshFrame DEF FreshRuns
  <2>6. \A s \in Runs : s > lastSeq' => s \in FreshRuns'
    <3>1. \A s \in Runs : s > lastSeq => s \in FreshRuns /\ s # r
      BY <1>0, <2>0 DEF OutcomeInv, NumbersFresh, Runs
    <3> QED BY <2>1, <2>5, <3>1
  <2>7. \A p \in Callers : callPc'[p] = "create" =>
          callPc[p] = "create" /\ p # q /\ callSeq'[p] = callSeq[p] /\ callSeq[p] # r
    BY <1>0, <2>0, <2>1 DEF OutcomeInv, NumbersFresh
  <2>8. NumbersFresh'
    BY <2>1, <2>5, <2>6, <2>7 DEF OutcomeInv, NumbersFresh
  <2> QED BY <2>4, <2>8 DEF OutcomeInv
<1> QED BY <1>1, <1>2, <1>3, <1>4 DEF QueueStep

\* The claim phase: only a QUEUED run is claimed, and nothing has happened to it yet.
LEMMA ClaimOutcome ==
  ASSUME TypeOK, OutcomeInv, ClaimStep \/ ClaimFault, UNCHANGED <<queueVars, cancelVars>>
  PROVE  OutcomeInv'
<1> USE DEF LeavesAlone, FaultsGrow, storeVars, runVars, unclaimed, queueVars
<1>0. /\ faults \in Nat /\ status \in [Runs -> Status \cup {"ABSENT"}]
      /\ workerPc \in [Runs -> WorkerPc]
  BY DEF TypeOK, StoreTypeOK, WorkerTypeOK
<1>1. CASE Tick \/ CountRunning \/ StopClaiming \/ ClaimFault
  <2>1. UNCHANGED <<status, merged, lastSeq, workerPc, work, notified>> /\ FaultsGrow
    BY <1>0, <1>1 DEF Tick, CountRunning, StopClaiming, ClaimFault, DatabaseFault
  <2>2. \A s \in Runs : LeavesAlone(s)
    BY <2>1 DEF IsMerged
  <2> QED BY <2>1, <2>2, QuietStep
<1>2. CASE ClaimRun
  <2>1. PICK r \in Runs : /\ status[r] = "QUEUED"
                          /\ status' = [status EXCEPT ![r] = "RUNNING"]
                          /\ workerPc' = [workerPc EXCEPT ![r] = "claimed"]
    BY <1>2 DEF ClaimRun, Claimable, Queued, Having
  <2>2. UNCHANGED <<merged, lastSeq, faults, work, notified>>
    BY <1>2 DEF ClaimRun
  <2>3. \A s \in Runs \ {r} : LeavesAlone(s)
    BY <1>0, <2>1, <2>2 DEF IsMerged
  <2>4. LifeOf(r)
    BY DEF OutcomeInv
  <2>5. LifeOf(r)'
    BY <1>0, <2>1, <2>2, <2>4 DEF LifeOf, Life, IsMerged, Undecided, Notifying, Catching, Open,
       Unmerged
  <2> QED BY <2>1, <2>2, <2>3, <2>5, ActivityStep DEF Fresh
<1>3. CASE StartProcessing
  <2>1. UNCHANGED <<status, merged, lastSeq, faults, work, notified>>
    BY <1>3 DEF StartProcessing
  <2>2. \A s \in Runs : workerPc'[s] = IF workerPc[s] = "claimed" THEN "load" ELSE workerPc[s]
    BY <1>3 DEF StartProcessing
  <2>3. \A s \in Runs : LifeOf(s)'
    <3>1. ASSUME NEW s \in Runs, workerPc[s] = "claimed" PROVE LifeOf(s)'
      BY <2>1, <2>2, <3>1 DEF OutcomeInv, LifeOf, Life, IsMerged, Undecided, Notifying, Catching
    <3>2. ASSUME NEW s \in Runs, workerPc[s] # "claimed" PROVE LifeOf(s)'
      <4>1. LeavesAlone(s)
        BY <2>1, <2>2, <3>2 DEF IsMerged
      <4> QED BY <2>1, <4>1, LifeFrame DEF OutcomeInv
    <3> QED BY <3>1, <3>2
  <2>4. FreshRuns' = FreshRuns
    BY <2>1, <2>2 DEF FreshRuns, Fresh, IsMerged
  <2>5. NumbersFresh'
    BY <2>1, <2>4 DEF OutcomeInv, NumbersFresh
  <2> QED BY <2>3, <2>5 DEF OutcomeInv
<1> QED BY <1>1, <1>2, <1>3 DEF ClaimStep

\* A cancel writes CANCELLED or the flag, or kills the tests.
LEMMA ControlOutcome ==
  ASSUME TypeOK, OutcomeInv, ControlStep, UNCHANGED queueVars
  PROVE  OutcomeInv'
<1> USE DEF LeavesAlone, FaultsGrow, storeVars, runVars, workerVars, queueVars
<1>0. /\ faults \in Nat /\ status \in [Runs -> Status \cup {"ABSENT"}]
      /\ work \in [Runs -> Work]
  BY DEF TypeOK, StoreTypeOK, WorkerTypeOK
<1>1. PICK c \in Cancels : \/ \E r \in Runs : ReadForCancel(c, r)
                           \/ SaveCancelled(c) \/ SaveRequest(c) \/ Abort(c) \/ CancelFault(c)
  BY DEF ControlStep
<1>2. UNCHANGED <<merged, lastSeq, workerPc, notified>> /\ FaultsGrow
  BY <1>0, <1>1 DEF ReadForCancel, SaveCancelled, SaveRequest, Abort, CancelFault, DatabaseFault
<1>3. \A s \in Runs : status'[s] = status[s] \/ (status[s] # "ABSENT" /\ status'[s] = "CANCELLED")
  BY <1>0, <1>1 DEF ReadForCancel, SaveCancelled, SaveRequest, Abort, CancelFault, StatusSet, Present
<1>4. \A s \in Runs : work'[s].passed = work[s].passed
  <2>1. CASE UNCHANGED work
    BY <2>1
  <2>2. CASE Abort(c)
    BY <1>0, <2>2 DEF Abort, Work
  <2> QED BY <1>1, <2>1, <2>2 DEF ReadForCancel, SaveCancelled, SaveRequest, CancelFault
<1>5. \A s \in Runs : LeavesAlone(s)
  BY <1>2, <1>3, <1>4 DEF IsMerged
<1> QED BY <1>2, <1>5, QuietStep

\* An exit ends all activities.
LEMMA ExitOutcome ==
  ASSUME TypeOK, OutcomeInv, Crash \/ UnhandledRejection
  PROVE  OutcomeInv'
<1>1. /\ UNCHANGED <<status, merged, lastSeq, notified>>
      /\ \A r \in Runs : workerPc'[r] = "none"
      /\ \A q \in Callers : callPc'[q] = "idle"
  BY DEF Crash, UnhandledRejection, ExitAndRestart, QueueReset, WorkerReset, runVars
<1>2. faults' = 0 => faults = 0
  BY DEF Crash, UnhandledRejection, DatabaseFault, TypeOK, StoreTypeOK
<1>3. ASSUME NEW r \in Runs PROVE LifeOf(r)'
  BY <1>1, <1>2 DEF OutcomeInv, LifeOf, Life, IsMerged, Undecided, Notifying, Catching
<1>4. FreshRuns \subseteq FreshRuns'
  BY <1>1 DEF FreshRuns, Fresh, IsMerged
<1>5. NumbersFresh'
  BY <1>1, <1>4 DEF OutcomeInv, NumbersFresh
<1> QED BY <1>3, <1>5 DEF OutcomeInv

\* The inductive invariant.
LEMMA OutcomeInvariant == Spec => []OutcomeInv
<1>1. Init => OutcomeInv
  <2> SUFFICES ASSUME Init PROVE OutcomeInv
    OBVIOUS
  <2>1. \A r \in Runs : status[r] = "ABSENT" /\ workerPc[r] = "none" /\ notified[r] = {}
                        /\ ~IsMerged(r)
    BY DEF Init, StoreInit, WorkerInit, IsMerged
  <2>2. \A r \in Runs : LifeOf(r)
    BY <2>1 DEF LifeOf, Life, Undecided, Notifying, Catching, Unmerged
  <2>3. NumbersFresh
    BY <2>1 DEF Init, QueueInit, NumbersFresh, FreshRuns, Fresh
  <2> QED BY <2>2, <2>3 DEF OutcomeInv
<1>2. TypeOK /\ TypeOK' /\ OutcomeInv /\ [Next]_vars => OutcomeInv'
  <2> SUFFICES ASSUME TypeOK, TypeOK', OutcomeInv, [Next]_vars PROVE OutcomeInv'
    OBVIOUS
  <2>1. ASSUME NEW r \in Runs, Process(r) \/ TryFault(r) \/ CatchFault(r),
               UNCHANGED <<queueVars, cancelVars>>
        PROVE  OutcomeInv'
    <3>1. LifeOf(r) /\ ~Fresh(r) /\ UNCHANGED <<callPc, callSeq>>
      BY <2>1, ActivityFrame DEF OutcomeInv, Fresh, queueVars
    <3> QED BY <2>1, <3>1, ActivityFrame, ActivityLife, ActivityStep
  <2>2. CASE WorkerStep /\ UNCHANGED <<queueVars, cancelVars>>
    BY <2>1, <2>2, ClaimOutcome DEF WorkerStep
  <2>3. CASE UNCHANGED <<status, merged, lastSeq, faults, workerVars, queueVars>>
    BY <2>3, QuietStep DEF LeavesAlone, FaultsGrow, IsMerged, workerVars, queueVars
  <2>4. ASSUME NEW p \in Projects, NEW b \in Branches, UpdateProject(p, b) PROVE OutcomeInv'
    BY <2>3, <2>4 DEF UpdateProject, runVars
  <2>5. CASE UNCHANGED vars
    BY <2>3, <2>5 DEF vars, storeVars, runVars
  <2> QED BY <2>2, <2>4, <2>5, QueueOutcome, ControlOutcome, ExitOutcome DEF Next
<1> QED BY <1>1, <1>2, TypeCorrect, PTL DEF Spec

\* Nobody is notified of the failure or conflict of a run that merged, for every
\* number of runs, retries, cancels, faults and exits (worker.ts:217-256).
THEOREM NotifiedKept == Spec => []NotifiedIsUnmerged
<1>1. OutcomeInv => NotifiedIsUnmerged
  BY DEF OutcomeInv, LifeOf, Life, NotifiedIsUnmerged
<1> QED BY <1>1, OutcomeInvariant, PTL

\* Unless a database call failed, a run reported FAILED or CONFLICT has left its
\* target branch alone (worker.ts:202-215).
THEOREM FailedKept == Spec => []FailedIsUnmerged
<1>1. OutcomeInv => FailedIsUnmerged
  BY DEF OutcomeInv, LifeOf, Life, FailedIsUnmerged, Having, Unmerged
<1> QED BY <1>1, OutcomeInvariant, PTL

-----------------------------------------------------------------------------
(* The record of the merge commit.  processRun holds the commit in a       *)
(* variable between the push and finalizeRun, so the invariant speaks of   *)
(* both.                                                                   *)

ShaInv == \A r \in Runs : mergeSha[r] = "commit" \/ work[r].sha = "commit" => IsMerged(r)

\* No branch loses a commit; a commit is recorded after it was held, and held after
\* it was pushed.
ShaStep(r) ==
    /\ IsMerged(r) => IsMerged(r)'
    /\ mergeSha'[r] \in {mergeSha[r], work[r].sha}
    /\ work'[r].sha = "commit" => work[r].sha = "commit" \/ IsMerged(r)'

\* Steps that neither push nor record.
LEMMA ShaQuiet ==
  ASSUME TypeOK, UNCHANGED <<merged, mergeSha>>,
         \A r \in Runs : work'[r].sha \in {work[r].sha, "null", "head"}
  PROVE  \A r \in Runs : ShaStep(r)
  BY DEF ShaStep, IsMerged

\* The processing of a run records what it holds and holds what it pushed.
LEMMA ShaActivity ==
  ASSUME TypeOK, NEW s \in Runs, Process(s) \/ TryFault(s) \/ CatchFault(s)
  PROVE  \A r \in Runs : ShaStep(r)
<1> USE DEF storeVars, runVars
<1>0. work \in [Runs -> Work] /\ mergeSha \in [Runs -> {"null", "commit", "head"}]
  BY DEF TypeOK, StoreTypeOK, WorkerTypeOK
<1>1. CASE LoadProject(s) \/ TestsClose(s) \/ RecordAttempt(s)
  <2>1. \A r \in Runs : work'[r].sha = work[r].sha
    BY <1>0, <1>1 DEF LoadProject, TestsClose, RecordAttempt, Work
  <2> QED BY <1>1, <2>1, ShaQuiet DEF LoadProject, TestsClose, RecordAttempt
<1>2. CASE Prepare(s)
  <2>1. \/ work' = work
        \/ \E c : work' = [work EXCEPT ![s] =
                             [work[s] EXCEPT !.base = merged[work[s].target], !.changes = c]]
    BY <1>2 DEF Prepare
  <2>2. ASSUME NEW c
        PROVE  [work[s] EXCEPT !.base = merged[work[s].target], !.changes = c].sha = work[s].sha
    <3>1. work[s] \in Work
      BY <1>0
    <3> QED BY <3>1 DEF Work
  <2>3. work'[s].sha = work[s].sha
    <3>1. ASSUME NEW c,
                 work' = [work EXCEPT ![s] =
                            [work[s] EXCEPT !.base = merged[work[s].target], !.changes = c]]
          PROVE  work'[s].sha = work[s].sha
      <4>1. work'[s] = [work[s] EXCEPT !.base = merged[work[s].target], !.changes = c]
        BY <1>0, <3>1
      <4> QED BY <2>2, <4>1
    <3> QED BY <2>1, <3>1
  <2>4. \A r \in Runs \ {s} : work'[r] = work[r]
    BY <1>0, <2>1
  <2>5. \A r \in Runs : work'[r].sha = work[r].sha
    BY <2>3, <2>4
  <2> QED BY <1>2, <2>5, ShaQuiet DEF Prepare
<1>3. CASE UNCHANGED <<merged, mergeSha, work>>
  BY <1>3, ShaQuiet
<1>4. CASE Cleanup(s)
  <2>1. \A r \in Runs : work'[r].sha \in {work[r].sha, "null", "head"}
    BY <1>0, <1>4 DEF Cleanup, NoWork
  <2> QED BY <1>4, <2>1, ShaQuiet DEF Cleanup
<1>5. CASE FinalizeDecided(s)
  <2>1. UNCHANGED <<merged, work>>
    BY <1>5 DEF FinalizeDecided, Finalize
  <2>2. \A r \in Runs : mergeSha'[r] \in {mergeSha[r], work[r].sha}
    BY <1>0, <1>5 DEF FinalizeDecided
  <2> QED BY <2>1, <2>2 DEF ShaStep, IsMerged
<1>6. CASE Publish(s)
  <2>1. UNCHANGED mergeSha
    BY <1>6 DEF Publish
  <2>2. work[s].target \in Branches
    BY <1>0 DEF Work
  <2>3. CASE work' = [work EXCEPT ![s].sha = "commit"]
             /\ merged' = [merged EXCEPT ![work[s].target] = @ \cup {s}]
    <3>1. \A r \in Runs : IsMerged(r) => IsMerged(r)'
      BY <2>3 DEF IsMerged, TypeOK, StoreTypeOK
    <3>2. IsMerged(s)'
      BY <2>2, <2>3 DEF IsMerged, TypeOK, StoreTypeOK
    <3>3. \A r \in Runs \ {s} : work'[r] = work[r]
      BY <1>0, <2>3
    <3> QED BY <2>1, <3>1, <3>2, <3>3 DEF ShaStep
  <2>4. CASE UNCHANGED merged /\ (work' = work \/ work' = [work EXCEPT ![s].sha = "head"])
    <3>1. \A r \in Runs : work'[r].sha \in {work[r].sha, "head"}
      BY <1>0, <2>4 DEF Work
    <3> QED BY <2>1, <2>4, <3>1, ShaQuiet
  <2> QED BY <1>6, <2>3, <2>4 DEF Publish, PushResolves, OriginAfterPush
<1>7. FinalizeConflict(s) \/ FinalizeCancelled(s) \/ FinalizeError(s) => UNCHANGED <<merged, mergeSha, work>>
  BY DEF FinalizeConflict, FinalizeCancelled, FinalizeError, Finalize
<1>8. \/ NotifyConflict(s) \/ NotifyFailure(s) \/ CheckBeforeTests(s) \/ CheckBeforeAttempt(s)
      \/ SpawnTests(s) \/ Catch(s) \/ TryFault(s) \/ CatchFault(s)
      => UNCHANGED <<merged, mergeSha, work>>
  BY DEF NotifyConflict, NotifyFailure, CheckBeforeTests, CheckBeforeAttempt, SpawnTests, Catch,
     TryFault, CatchFault
<1> QED BY <1>1, <1>2, <1>3, <1>4, <1>5, <1>6, <1>7, <1>8 DEF Process

\* A run that records a new merge commit has pushed it, for every number of runs,
\* retries, cancels, faults and exits (worker.ts:204-215).
THEOREM RecordedKept == Spec => []RecordedIsMerged
<1>1. Init => ShaInv
  BY DEF Init, StoreInit, WorkerInit, ShaInv, NoWork
<1>2. TypeOK /\ ShaInv /\ [Next]_vars => ShaInv'
  <2> SUFFICES ASSUME TypeOK, ShaInv, [Next]_vars PROVE ShaInv'
    OBVIOUS
  <2> USE DEF storeVars, runVars, workerVars, unclaimed
  <2>1. ASSUME \A r \in Runs : ShaStep(r) PROVE ShaInv'
    BY <2>1 DEF ShaInv, ShaStep
  <2>2. CASE UNCHANGED <<merged, mergeSha, work>>
    BY <2>1, <2>2, ShaQuiet
  <2>3. CASE QueueStep /\ UNCHANGED workerVars
    BY <2>2, <2>3 DEF QueueStep, CallEnqueue, Dedupe, CountQueued, DrawSequence, InsertRun,
       EnqueueFault, PruneFind, PruneDelete
  <2>4. CASE WorkerStep
    BY <2>1, <2>2, <2>4, ShaActivity
       DEF WorkerStep, ClaimStep, Tick, CountRunning, ClaimRun, StopClaiming, StartProcessing, ClaimFault
  <2>5. ASSUME NEW c \in Cancels, Abort(c) PROVE ShaInv'
    <3>1. \A r \in Runs : work'[r].sha = work[r].sha
      BY <2>5 DEF Abort, Work, TypeOK, WorkerTypeOK
    <3> QED BY <2>1, <2>5, <3>1, ShaQuiet DEF Abort
  <2>6. CASE ControlStep
    BY <2>2, <2>5, <2>6 DEF ControlStep, ReadForCancel, SaveCancelled, SaveRequest, CancelFault
  <2>7. CASE Crash \/ UnhandledRejection
    <3>1. \A r \in Runs : work'[r].sha = "null"
      BY <2>7 DEF Crash, UnhandledRejection, ExitAndRestart, WorkerReset, NoWork
    <3>2. UNCHANGED <<merged, mergeSha>>
      BY <2>7 DEF Crash, UnhandledRejection, ExitAndRestart
    <3> QED BY <2>1, <3>1, <3>2, ShaQuiet
  <2> QED BY <2>2, <2>3, <2>4, <2>6, <2>7 DEF Next, UpdateProject, vars
<1>3. ShaInv => RecordedIsMerged
  BY DEF ShaInv, RecordedIsMerged
<1> QED BY <1>1, <1>2, <1>3, TypeCorrect, PTL DEF Spec
=============================================================================
