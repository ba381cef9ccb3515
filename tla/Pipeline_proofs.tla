-------------------------- MODULE Pipeline_proofs --------------------------
(***************************************************************************)
(* Theorems about the pipeline for every number of runs, callers, cancels, *)
(* slots, faults and restarts.                                             *)
(***************************************************************************)
EXTENDS Pipeline, FiniteSetTheorems, TLAPS

USE StoreAssumption, QueueAssumption, WorkerAssumption
    DEF StoreAssumption, QueueAssumption, WorkerAssumption

-----------------------------------------------------------------------------
(* Cardinalities of sets of runs and of callers.                           *)

\* There are finitely many runs and callers.
LEMMA RunsFinite == IsFiniteSet(Runs) /\ IsFiniteSet(Callers)
  BY FS_Interval DEF Runs

\* A subset of a finite set is finite and not larger.
LEMMA SubsetCard ==
  ASSUME NEW T, IsFiniteSet(T), NEW S \in SUBSET T
  PROVE  IsFiniteSet(S) /\ Cardinality(S) \in Nat /\ Cardinality(T) \in Nat
         /\ Cardinality(S) <= Cardinality(T)
  BY FS_Subset, FS_CardinalityType

\* At most one new element adds at most one.
LEMMA AddCard ==
  ASSUME NEW T, IsFiniteSet(T), NEW x, NEW S \in SUBSET (T \cup {x})
  PROVE  Cardinality(S) \in Nat /\ Cardinality(S) <= Cardinality(T) + 1
<1>1. IsFiniteSet(T \cup {x}) /\ Cardinality(T) \in Nat
  BY FS_AddElement, FS_CardinalityType
<1>2. Cardinality(T \cup {x}) <= Cardinality(T) + 1
  BY <1>1, FS_AddElement
<1> QED BY <1>1, <1>2, SubsetCard, FS_CardinalityType

\* An element less takes off at least one.
LEMMA DropCard ==
  ASSUME NEW T, IsFiniteSet(T), NEW x \in T, NEW S \in SUBSET (T \ {x})
  PROVE  Cardinality(S) \in Nat /\ Cardinality(S) <= Cardinality(T) - 1
<1>1. IsFiniteSet(T \ {x}) /\ Cardinality(T \ {x}) = Cardinality(T) - 1
  BY FS_RemoveElement
<1> QED BY <1>1, SubsetCard

\* The sets of runs and callers the invariants count.
LEMMA CountedFinite ==
  /\ IsFiniteSet(Queued) /\ Cardinality(Queued) \in Nat
  /\ IsFiniteSet(Running) /\ Cardinality(Running) \in Nat
  /\ IsFiniteSet(Drawing) /\ Cardinality(Drawing) \in Nat
  /\ IsFiniteSet(Inserting) /\ Cardinality(Inserting) \in Nat
  /\ Cardinality(Inserting) <= Cardinality(Callers)
  /\ Cardinality(Callers) \in Nat
<1>1. Queued \in SUBSET Runs /\ Running \in SUBSET Runs
  BY DEF Queued, Running, Having
<1>2. Drawing \in SUBSET Callers /\ Inserting \in SUBSET Callers
  BY DEF Drawing, Inserting
<1> QED BY <1>1, <1>2, RunsFinite, SubsetCard

-----------------------------------------------------------------------------
(* Type correctness, component by component.  The bound MaxSeq is kept     *)
(* because CallEnqueue leaves a number for every call that may draw one.   *)

SeqBudget == lastSeq + Cardinality(Drawing) <= MaxSeq
TypeInv == TypeOK /\ SeqBudget

\* The values of an idle call and of an idle activity have their types.
LEMMA DefaultsType ==
    /\ (CHOOSE p \in Projects : TRUE) \in Projects
    /\ (CHOOSE b \in Branches : TRUE) \in Branches
    /\ NoCall \in RunDetails
    /\ NoWork \in Work
  BY DEF NoCall, NoWork, RunDetails, Work, Sources

\* The initial state is type correct.
LEMMA InitType == Init => TypeOK
<1> SUFFICES ASSUME Init PROVE TypeOK
  OBVIOUS
<1>1. StoreTypeOK
  BY DefaultsType DEF Init, StoreInit, StoreTypeOK, RunDetails, Sources
<1>2. QueueTypeOK
  BY DefaultsType DEF Init, QueueInit, QueueTypeOK, CallPc, PrunePc
<1>3. WorkerTypeOK
  BY DefaultsType DEF Init, WorkerInit, WorkerTypeOK, WorkerPc
<1>4. ControlTypeOK
  BY DEF Init, ControlInit, ControlTypeOK
<1> QED BY <1>1, <1>2, <1>3, <1>4 DEF TypeOK

\* The steps of enqueueRun and of the retention job.
LEMMA QueueType ==
  ASSUME StoreTypeOK, QueueTypeOK, SeqBudget, QueueStep
  PROVE  StoreTypeOK' /\ QueueTypeOK'
<1> USE DefaultsType DEF StoreTypeOK, QueueTypeOK, CallPc, PrunePc, storeVars, runVars,
        Return, Status
<1>1. ASSUME NEW q \in Callers, NEW p \in Projects, NEW c \in Sources, CallEnqueue(q, p, c)
      PROVE  StoreTypeOK' /\ QueueTypeOK'
  BY <1>1 DEF CallEnqueue, RunDetails
<1>2. ASSUME NEW q \in Callers, Dedupe(q) PROVE StoreTypeOK' /\ QueueTypeOK'
  BY <1>2 DEF Dedupe
<1>3. ASSUME NEW q \in Callers, CountQueued(q) PROVE StoreTypeOK' /\ QueueTypeOK'
  BY <1>3 DEF CountQueued
<1>4. ASSUME NEW q \in Callers, DrawSequence(q) PROVE StoreTypeOK' /\ QueueTypeOK'
  <2>1. q \in Drawing
    BY <1>4 DEF DrawSequence, Drawing
  <2>2. lastSeq < MaxSeq
    <3>1. Cardinality({}) \in Nat /\ Cardinality({}) <= Cardinality(Drawing) - 1
      BY <2>1, CountedFinite, DropCard, {} \in SUBSET (Drawing \ {q})
    <3> QED BY <3>1, CountedFinite DEF SeqBudget
  <2> QED BY <1>4, <2>2 DEF DrawSequence
<1>5. ASSUME NEW q \in Callers, InsertRun(q) PROVE StoreTypeOK' /\ QueueTypeOK'
  <2>1. /\ status' = [status EXCEPT ![callSeq[q]] = "QUEUED"]
        /\ details' = [details EXCEPT ![callSeq[q]] = call[q]]
        /\ prunePc' = [prunePc EXCEPT ![callSeq[q]] = "find"]
        /\ UNCHANGED <<cancelRequested, attemptCount, mergeSha, lastSeq, targetBranch,
                       merged, faults, crashes, pruneIds>>
        /\ Return(q)
    BY <1>5 DEF InsertRun
  <2>2. StoreTypeOK'
    BY <2>1
  <2>3. QueueTypeOK'
    <3>1. callPc' \in [Callers -> CallPc]
      BY <2>1
    <3>2. call' \in [Callers -> RunDetails]
      BY <2>1
    <3>3. callSeq' \in [Callers -> 0..MaxSeq]
      BY <2>1
    <3>4. prunePc' \in [Runs -> PrunePc]
      BY <2>1
    <3>5. pruneIds' \in [Runs -> SUBSET Runs]
      BY <2>1
    <3> QED BY <3>1, <3>2, <3>3, <3>4, <3>5
  <2> QED BY <2>2, <2>3
<1>6. ASSUME NEW q \in Callers, EnqueueFault(q) PROVE StoreTypeOK' /\ QueueTypeOK'
  BY <1>6 DEF EnqueueFault, DatabaseFault
<1>7. ASSUME NEW r \in Runs, PruneFind(r) PROVE StoreTypeOK' /\ QueueTypeOK'
  BY <1>7 DEF PruneFind, Outdated, RunsOf, RunDetails
<1>8. ASSUME NEW r \in Runs, PruneDelete(r) PROVE StoreTypeOK' /\ QueueTypeOK'
  BY <1>8 DEF PruneDelete
<1> QED BY <1>1, <1>2, <1>3, <1>4, <1>5, <1>6, <1>7, <1>8 DEF QueueStep

\* Field updates of the local variables of processRun keep their type.
LEMMA WorkFields ==
  ASSUME NEW w \in Work
  PROVE  /\ w.attempt \in Nat /\ w.target \in Branches
         /\ w.passed \in BOOLEAN /\ w.changes \in BOOLEAN
         /\ w.sha \in {"null", "commit", "head"}
         /\ \A n \in Nat : [w EXCEPT !.attempt = n] \in Work
         /\ \A b \in Branches : [w EXCEPT !.target = b] \in Work
         /\ \A S \in SUBSET Runs, c \in BOOLEAN :
              [w EXCEPT !.base = S, !.changes = c] \in Work
         /\ \A c \in BOOLEAN : [w EXCEPT !.passed = c] \in Work
         /\ \A c \in BOOLEAN : [w EXCEPT !.killed = c] \in Work
         /\ \A c \in {"null", "commit", "head"} : [w EXCEPT !.sha = c] \in Work
  BY DEF Work

\* The claim phase.
LEMMA ClaimType ==
  ASSUME StoreTypeOK, WorkerTypeOK, Cardinality(Running) \in Nat, ClaimStep \/ ClaimFault
  PROVE  StoreTypeOK' /\ WorkerTypeOK'
<1> USE DEF StoreTypeOK, WorkerTypeOK, storeVars, runVars, unclaimed
<1>1. CASE Tick
  BY <1>1 DEF Tick
<1>2. CASE CountRunning
  BY <1>2 DEF CountRunning, FreeSlots
<1>3. CASE ClaimRun
  BY <1>3 DEF ClaimRun, Claimable, Queued, Having, WorkerPc, BeforeFinalize, Status
<1>4. CASE StopClaiming
  BY <1>4 DEF StopClaiming
<1>5. CASE ClaimFault
  BY <1>5 DEF ClaimFault, DatabaseFault
<1>6. CASE StartProcessing
  BY <1>6 DEF StartProcessing, WorkerPc, BeforeFinalize
<1> QED BY <1>1, <1>2, <1>3, <1>4, <1>5, <1>6 DEF ClaimStep

\* Where processRun goes next.
LEMMA GotoType ==
  ASSUME workerPc \in [Runs -> WorkerPc], NEW r \in Runs
  PROVE  /\ \A pc \in WorkerPc : Goto(r, pc) => workerPc' \in [Runs -> WorkerPc]
         /\ BeforeFinalize \subseteq WorkerPc
         /\ AfterFinalize \subseteq WorkerPc
         /\ {"none", "rethrow"} \subseteq WorkerPc
  BY DEF Goto, WorkerPc

\* finalizeRun and the step to nextPc after it.
LEMMA FinalizeType ==
  ASSUME StoreTypeOK, WorkerTypeOK, NEW r \in Runs, NEW s \in Terminal, Finalize(r, s),
         mergeSha' \in [Runs -> {"null", "commit", "head"}],
         NEW pc \in AfterFinalize, Goto(r, pc), UNCHANGED work
  PROVE  StoreTypeOK' /\ WorkerTypeOK'
<1>1. StoreTypeOK'
  BY DEF Finalize, StatusSet, Status, StoreTypeOK
<1>2. workerPc' \in [Runs -> WorkerPc]
  BY GotoType DEF WorkerTypeOK
<1>3. WorkerTypeOK'
  BY <1>2 DEF WorkerTypeOK, Finalize, claimVars
<1> QED BY <1>1, <1>3

\* processRun.
LEMMA ProcessType ==
  ASSUME StoreTypeOK, WorkerTypeOK, NEW r \in Runs,
         Process(r) \/ TryFault(r) \/ CatchFault(r)
  PROVE  StoreTypeOK' /\ WorkerTypeOK'
<1> USE DEF StoreTypeOK, WorkerTypeOK, storeVars, runVars, claimVars
<1>0. work[r] \in Work
  OBVIOUS
<1>1. CASE LoadProject(r)
  BY <1>1, WorkFields, GotoType DEF LoadProject, RunDetails, BeforeFinalize
<1>2. CASE Prepare(r)
  <2>1. workerPc' \in [Runs -> WorkerPc]
    <3>1. \E pc \in {"precheck", "conflict", "catch"} : Goto(r, pc)
      BY <1>2 DEF Prepare
    <3> QED BY <3>1, GotoType DEF BeforeFinalize
  <2>2. work' \in [Runs -> Work]
    <3>1. \/ work' = work
          \/ \E c \in BOOLEAN :
               work' = [work EXCEPT ![r] =
                          [work[r] EXCEPT !.base = merged[work[r].target], !.changes = c]]
      BY <1>2 DEF Prepare
    <3>2. merged[work[r].target] \in SUBSET Runs
      BY WorkFields
    <3>3. ASSUME NEW c \in BOOLEAN
          PROVE  [work[r] EXCEPT !.base = merged[work[r].target], !.changes = c] \in Work
      BY <1>0, <3>2, WorkFields
    <3>4. ASSUME NEW w \in Work, work' = [work EXCEPT ![r] = w]
          PROVE  work' \in [Runs -> Work]
      BY <3>4
    <3> QED BY <3>1, <3>3, <3>4
  <2> QED BY <1>2, <2>1, <2>2 DEF Prepare
<1>3. CASE FinalizeConflict(r)
  BY <1>3, FinalizeType DEF FinalizeConflict, AfterFinalize, Terminal
<1>4. CASE NotifyConflict(r)
  <2>1. workerPc' \in [Runs -> WorkerPc]
    BY <1>4, GotoType DEF NotifyConflict, AfterFinalize
  <2> QED BY <1>4, <2>1 DEF NotifyConflict
<1>5. CASE CheckBeforeTests(r)
  <2>1. workerPc' \in [Runs -> WorkerPc]
    BY <1>5, GotoType DEF CheckBeforeTests, BeforeFinalize
  <2> QED BY <1>5, <2>1 DEF CheckBeforeTests
<1>6. CASE CheckBeforeAttempt(r)
  <2>1. workerPc' \in [Runs -> WorkerPc]
    BY <1>6, GotoType DEF CheckBeforeAttempt, BeforeFinalize
  <2> QED BY <1>6, <2>1 DEF CheckBeforeAttempt
<1>7. CASE SpawnTests(r)
  <2>1. workerPc' \in [Runs -> WorkerPc]
    BY <1>7, GotoType DEF SpawnTests, BeforeFinalize
  <2> QED BY <1>7, <2>1 DEF SpawnTests
<1>8. CASE TestsClose(r)
  <2>1. workerPc' \in [Runs -> WorkerPc]
    BY <1>8, GotoType DEF TestsClose, BeforeFinalize
  <2>2. work' \in [Runs -> Work]
    <3>1. PICK c \in BOOLEAN : work' = [work EXCEPT ![r] = [work[r] EXCEPT !.passed = c]]
      BY <1>8 DEF TestsClose
    <3> QED BY <3>1, WorkFields
  <2> QED BY <1>8, <2>1, <2>2 DEF TestsClose
<1>9. CASE RecordAttempt(r)
  <2>0. work[r].attempt + 1 \in Nat
    BY <1>0 DEF Work
  <2>1. workerPc' \in [Runs -> WorkerPc]
    <3>1. \E pc \in {"publish", "decide", "check"} : Goto(r, pc)
      BY <1>9 DEF RecordAttempt
    <3> QED BY <3>1, GotoType DEF BeforeFinalize
  <2>2. work' \in [Runs -> Work]
    <3>1. \/ work' = work
          \/ work' = [work EXCEPT ![r] = [work[r] EXCEPT !.attempt = work[r].attempt + 1]]
      BY <1>9 DEF RecordAttempt
    <3>2. [work[r] EXCEPT !.attempt = work[r].attempt + 1] \in Work
      BY <1>0, <2>0, WorkFields
    <3> QED BY <3>1, <3>2
  <2>3. attemptCount' \in [Runs -> Nat]
    BY <1>9, <2>0 DEF RecordAttempt
  <2> QED BY <1>9, <2>1, <2>2, <2>3 DEF RecordAttempt
<1>10. CASE Publish(r)
  <2>1. workerPc' \in [Runs -> WorkerPc]
    <3>1. \E pc \in {"decide", "catch"} : Goto(r, pc)
      BY <1>10 DEF Publish
    <3> QED BY <3>1, GotoType DEF BeforeFinalize
  <2>2. work' \in [Runs -> Work]
    <3>1. \/ work' = work
          \/ \E c \in {"commit", "head"} : work' = [work EXCEPT ![r] = [work[r] EXCEPT !.sha = c]]
      BY <1>10 DEF Publish
    <3>2. ASSUME NEW c \in {"commit", "head"}, work' = [work EXCEPT ![r] = [work[r] EXCEPT !.sha = c]]
          PROVE  work' \in [Runs -> Work]
      BY <3>2, WorkFields
    <3> QED BY <3>1, <3>2
  <2>3. merged' \in [Branches -> SUBSET Runs]
    <3>1. \/ merged' = merged
          \/ merged' = [merged EXCEPT ![work[r].target] = merged[work[r].target] \cup {r}]
      BY <1>10 DEF Publish, OriginAfterPush
    <3>2. work[r].target \in Branches
      BY DEF Work
    <3> QED BY <3>1, <3>2
  <2> QED BY <1>10, <2>1, <2>2, <2>3 DEF Publish
<1>11. CASE FinalizeDecided(r)
  <2>1. mergeSha' \in [Runs -> {"null", "commit", "head"}]
    BY <1>11, WorkFields DEF FinalizeDecided
  <2>2. \E pc \in AfterFinalize : Goto(r, pc)
    BY <1>11 DEF FinalizeDecided, AfterFinalize
  <2>3. FinalStatus(r) \in Terminal
    BY DEF FinalStatus, Terminal
  <2> QED BY <1>11, <2>1, <2>2, <2>3, FinalizeType DEF FinalizeDecided
<1>12. CASE NotifyFailure(r)
  <2>1. workerPc' \in [Runs -> WorkerPc]
    BY <1>12, GotoType DEF NotifyFailure, AfterFinalize
  <2> QED BY <1>12, <2>1 DEF NotifyFailure
<1>13. CASE FinalizeCancelled(r)
  BY <1>13, FinalizeType DEF FinalizeCancelled, AfterFinalize, Terminal
<1>14. CASE Catch(r)
  <2>1. workerPc' \in [Runs -> WorkerPc]
    BY <1>14, GotoType DEF Catch, AfterCatch, BeforeFinalize
  <2> QED BY <1>14, <2>1 DEF Catch
<1>15. CASE FinalizeError(r)
  BY <1>15, FinalizeType DEF FinalizeError, AfterFinalize, Terminal
<1>16. CASE Cleanup(r)
  BY <1>16, GotoType, DefaultsType DEF Cleanup
<1>17. CASE TryFault(r)
  <2>1. workerPc' \in [Runs -> WorkerPc]
    BY <1>17, GotoType DEF TryFault, BeforeFinalize
  <2>2. notified' \in [Runs -> SUBSET {"CONFLICT", "FAILURE"}]
    BY <1>17 DEF TryFault
  <2> QED BY <1>17, <2>1, <2>2 DEF TryFault, DatabaseFault
<1>18. CASE CatchFault(r)
  <2>1. workerPc' \in [Runs -> WorkerPc]
    BY <1>18, GotoType DEF CatchFault
  <2> QED BY <1>18, <2>1 DEF CatchFault, DatabaseFault
<1> QED BY <1>1, <1>2, <1>3, <1>4, <1>5, <1>6, <1>7, <1>8, <1>9, <1>10, <1>11, <1>12,
           <1>13, <1>14, <1>15, <1>16, <1>17, <1>18 DEF Process

\* cancelRunHandler.
LEMMA ControlType ==
  ASSUME StoreTypeOK, WorkerTypeOK, ControlTypeOK, ControlStep
  PROVE  StoreTypeOK' /\ WorkerTypeOK' /\ ControlTypeOK'
<1>1. ControlTypeOK'
  <2>1. ASSUME NEW c \in Cancels, NEW r \in Runs, ReadForCancel(c, r) PROVE ControlTypeOK'
    BY <2>1 DEF ReadForCancel, CancelGoto, ControlTypeOK, Runs
  <2>2. ASSUME NEW c \in Cancels, CancelReturn(c) PROVE ControlTypeOK'
    BY <2>2 DEF CancelReturn, CancelGoto, ControlTypeOK
  <2>3. ASSUME NEW c \in Cancels, SaveRequest(c) PROVE ControlTypeOK'
    BY <2>2, <2>3 DEF SaveRequest, CancelGoto, ControlTypeOK
  <2> QED BY <2>1, <2>2, <2>3 DEF ControlStep, SaveCancelled, Abort, CancelFault
<1>2. StoreTypeOK'
  <2>1. CASE UNCHANGED storeVars
    BY <2>1 DEF StoreTypeOK, storeVars, runVars
  <2>2. ASSUME NEW c \in Cancels, SaveCancelled(c) PROVE StoreTypeOK'
    BY <2>2 DEF SaveCancelled, StatusSet, Status, Terminal, StoreTypeOK
  <2>3. ASSUME NEW c \in Cancels, SaveRequest(c) PROVE StoreTypeOK'
    BY <2>3 DEF SaveRequest, StoreTypeOK
  <2>4. ASSUME NEW c \in Cancels, CancelFault(c) PROVE StoreTypeOK'
    BY <2>4 DEF CancelFault, DatabaseFault, StoreTypeOK, runVars
  <2> QED BY <2>1, <2>2, <2>3, <2>4 DEF ControlStep, ReadForCancel, Abort
<1>3. WorkerTypeOK'
  <2>1. CASE UNCHANGED workerVars
    BY <2>1 DEF WorkerTypeOK, workerVars
  <2>2. ASSUME NEW c \in Cancels, Abort(c) PROVE WorkerTypeOK'
    <3>1. work' \in [Runs -> Work]
      <4>1. CASE cancelRun[c] \in Runs
        <5>1. work[cancelRun[c]] \in Work
          BY <4>1 DEF WorkerTypeOK
        <5>2. [work[cancelRun[c]] EXCEPT !.killed = TRUE] \in Work
          BY <5>1, WorkFields
        <5> QED BY <2>2, <5>2 DEF Abort, WorkerTypeOK
      <4>2. CASE cancelRun[c] \notin Runs
        BY <2>2, <4>2 DEF Abort, WorkerTypeOK
      <4> QED BY <4>1, <4>2
    <3> QED BY <2>2, <3>1 DEF Abort, WorkerTypeOK
  <2> QED BY <2>1, <2>2 DEF ControlStep, ReadForCancel, SaveCancelled, SaveRequest, CancelFault
<1> QED BY <1>1, <1>2, <1>3

\* An exit of the process, whatever its cause.
LEMMA ExitType ==
  ASSUME TypeOK, Crash \/ UnhandledRejection
  PROVE  TypeOK'
<1>1. StoreTypeOK'
  BY DEF Crash, UnhandledRejection, ExitAndRestart, DatabaseFault, TypeOK, StoreTypeOK,
     runVars
<1>2. QueueTypeOK'
  BY DefaultsType DEF Crash, UnhandledRejection, ExitAndRestart, QueueReset, TypeOK,
     QueueTypeOK, CallPc, PrunePc
<1>3. WorkerTypeOK'
  BY DefaultsType DEF Crash, UnhandledRejection, ExitAndRestart, WorkerReset, TypeOK,
     WorkerTypeOK, WorkerPc
<1>4. ControlTypeOK'
  BY DEF Crash, UnhandledRejection, ExitAndRestart, ControlReset, TypeOK, ControlTypeOK
<1> QED BY <1>1, <1>2, <1>3, <1>4 DEF TypeOK

\* The bound MaxSeq: a call that may draw a number has one left.
LEMMA SeqBudgetStep ==
  ASSUME TypeOK, SeqBudget, [Next]_vars
  PROVE  SeqBudget'
<1> USE CountedFinite DEF TypeOK, StoreTypeOK
<1>1. ASSUME NEW q \in Callers, NEW p \in Projects, NEW c \in Sources, CallEnqueue(q, p, c)
      PROVE  SeqBudget'
  <2>1. Drawing' \in SUBSET (Drawing \cup {q}) /\ lastSeq' = lastSeq
    BY <1>1 DEF CallEnqueue, Drawing, QueueTypeOK, storeVars
  <2>2. Cardinality(Drawing') \in Nat /\ Cardinality(Drawing') <= Cardinality(Drawing) + 1
    BY <2>1, AddCard
  <2> QED BY <1>1, <2>1, <2>2 DEF CallEnqueue, SeqBudget
<1>2. ASSUME NEW q \in Callers, DrawSequence(q) PROVE SeqBudget'
  <2>1. q \in Drawing /\ Drawing' \in SUBSET (Drawing \ {q}) /\ lastSeq' = lastSeq + 1
    BY <1>2 DEF DrawSequence, Drawing, QueueTypeOK
  <2>2. Cardinality(Drawing') \in Nat /\ Cardinality(Drawing') <= Cardinality(Drawing) - 1
    BY <2>1, DropCard
  <2> QED BY <2>1, <2>2 DEF SeqBudget
<1>3. ASSUME Drawing' \in SUBSET Drawing, lastSeq' = lastSeq PROVE SeqBudget'
  <2>1. Cardinality(Drawing') \in Nat /\ Cardinality(Drawing') <= Cardinality(Drawing)
    BY <1>3, SubsetCard
  <2> QED BY <1>3, <2>1 DEF SeqBudget
<1>4. ASSUME NEW q \in Callers, Dedupe(q) \/ CountQueued(q) \/ InsertRun(q) \/ EnqueueFault(q)
      PROVE  Drawing' \in SUBSET Drawing /\ lastSeq' = lastSeq
  BY <1>4 DEF Dedupe, CountQueued, InsertRun, EnqueueFault, Return, Drawing, QueueTypeOK,
     storeVars
<1>5. ASSUME NEW r \in Runs, PruneFind(r) \/ PruneDelete(r)
      PROVE  Drawing' \in SUBSET Drawing /\ lastSeq' = lastSeq
  BY <1>5 DEF PruneFind, PruneDelete, Drawing, storeVars
<1>6. ASSUME UNCHANGED queueVars, WorkerStep \/ ControlStep
      PROVE  Drawing' \in SUBSET Drawing /\ lastSeq' = lastSeq
  <2>1. Drawing' = Drawing
    BY <1>6 DEF queueVars, Drawing
  <2>2. lastSeq' = lastSeq
    BY <1>6 DEF WorkerStep, ClaimStep, Process, ControlStep, storeVars, Finalize,
       Tick, CountRunning, ClaimRun, StopClaiming, StartProcessing, ClaimFault, TryFault,
       CatchFault, LoadProject, Prepare, FinalizeConflict, NotifyConflict,
       CheckBeforeTests, CheckBeforeAttempt, SpawnTests, TestsClose, RecordAttempt,
       Publish, FinalizeDecided, NotifyFailure, FinalizeCancelled, Catch, FinalizeError,
       Cleanup, ReadForCancel, SaveCancelled, SaveRequest, Abort, CancelFault
  <2> QED BY <2>1, <2>2
<1>7. ASSUME NEW p \in Projects, NEW b \in Branches, UpdateProject(p, b)
      PROVE  Drawing' \in SUBSET Drawing /\ lastSeq' = lastSeq
  BY <1>7 DEF UpdateProject, Drawing, queueVars
<1>8. CASE Crash \/ UnhandledRejection
  <2>1. Drawing' \in SUBSET Drawing /\ lastSeq' = lastSeq
    BY <1>8 DEF Crash, UnhandledRejection, ExitAndRestart, QueueReset, Drawing
  <2> QED BY <2>1, <1>3
<1>9. CASE UNCHANGED vars
  BY <1>9 DEF vars, storeVars, queueVars, SeqBudget, Drawing
<1> QED BY <1>1, <1>2, <1>3, <1>4, <1>5, <1>6, <1>7, <1>8, <1>9 DEF Next, QueueStep

\* Every reachable state is type correct, and no call draws a sequence number past
\* the bound: for all sets of callers, cancels, projects and branches.
THEOREM TypeCorrect == Spec => []TypeOK
<1>1. Init => TypeInv
  <2>1. ASSUME Init PROVE Drawing = {} /\ lastSeq = 0
    BY <2>1 DEF Init, QueueInit, StoreInit, Drawing
  <2> QED BY <2>1, InitType, FS_EmptySet DEF TypeInv, SeqBudget
<1>2. TypeInv /\ [Next]_vars => TypeInv'
  <2> SUFFICES ASSUME TypeInv, [Next]_vars PROVE TypeInv'
    OBVIOUS
  <2>1. SeqBudget'
    BY SeqBudgetStep DEF TypeInv
  <2>2. CASE QueueStep /\ UNCHANGED <<workerVars, cancelVars>>
    <3>1. WorkerTypeOK' /\ ControlTypeOK'
      BY <2>2 DEF TypeInv, TypeOK, WorkerTypeOK, ControlTypeOK, workerVars, cancelVars
    <3> QED BY <2>1, <2>2, <3>1, QueueType DEF TypeInv, TypeOK
  <2>3. CASE WorkerStep /\ UNCHANGED <<queueVars, cancelVars>>
    <3>1. QueueTypeOK' /\ ControlTypeOK'
      BY <2>3 DEF TypeInv, TypeOK, QueueTypeOK, ControlTypeOK, queueVars, cancelVars
    <3>2. StoreTypeOK' /\ WorkerTypeOK'
      BY <2>3, ClaimType, ProcessType, CountedFinite DEF TypeInv, TypeOK, WorkerStep
    <3> QED BY <2>1, <3>1, <3>2 DEF TypeInv, TypeOK
  <2>4. CASE ControlStep /\ UNCHANGED queueVars
    <3>1. QueueTypeOK'
      BY <2>4 DEF TypeInv, TypeOK, QueueTypeOK, queueVars
    <3> QED BY <2>1, <2>4, <3>1, ControlType DEF TypeInv, TypeOK
  <2>5. ASSUME NEW p \in Projects, NEW b \in Branches, UpdateProject(p, b) PROVE TypeInv'
    BY <2>1, <2>5 DEF UpdateProject, TypeInv, TypeOK, StoreTypeOK, QueueTypeOK,
       WorkerTypeOK, ControlTypeOK, runVars, queueVars, workerVars, cancelVars
  <2>6. CASE Crash \/ UnhandledRejection
    BY <2>1, <2>6, ExitType DEF TypeInv
  <2>7. CASE UNCHANGED vars
    BY <2>1, <2>7 DEF vars, TypeInv, TypeOK, StoreTypeOK, QueueTypeOK, WorkerTypeOK,
       ControlTypeOK, storeVars, runVars, queueVars, workerVars, cancelVars
  <2> QED BY <2>2, <2>3, <2>4, <2>5, <2>6, <2>7 DEF Next
<1> QED BY <1>1, <1>2, PTL DEF Spec, TypeInv

-----------------------------------------------------------------------------
(* The caps.  What a step may do to the sets they count: only ClaimRun     *)
(* makes a document RUNNING, only InsertRun makes one QUEUED.              *)

NoNewRunning == Running' \subseteq Running
NoNewQueued == Queued' \subseteq Queued

\* Writing a terminal status, or none, adds to neither set.
LEMMA StatusWritten ==
  ASSUME status \in [Runs -> Status \cup {"ABSENT"}],
         \/ status' = status
         \/ \E r \in 0..MaxSeq, s \in Terminal : status' = StatusSet(r, s)
         \/ \E S \in SUBSET Runs :
              status' = [r \in Runs |-> IF r \in S THEN "ABSENT" ELSE status[r]]
  PROVE  NoNewRunning /\ NoNewQueued
  BY DEF NoNewRunning, NoNewQueued, Running, Queued, Having, StatusSet, Terminal, Status

\* Only ClaimRun makes a run RUNNING, and only InsertRun makes one QUEUED.
LEMMA StatusEffect ==
  ASSUME TypeOK, [Next]_vars
  PROVE  \/ NoNewRunning /\ NoNewQueued
         \/ ClaimRun /\ UNCHANGED queueVars
         \/ (\E q \in Callers : InsertRun(q)) /\ UNCHANGED workerVars
<1> SUFFICES ASSUME ~(ClaimRun /\ UNCHANGED queueVars),
                    ~((\E q \in Callers : InsertRun(q)) /\ UNCHANGED workerVars)
             PROVE  NoNewRunning /\ NoNewQueued
  OBVIOUS
<1>1. status \in [Runs -> Status \cup {"ABSENT"}]
  BY DEF TypeOK, StoreTypeOK
<1>2. CASE QueueStep /\ UNCHANGED <<workerVars, cancelVars>>
  <2>1. ASSUME NEW r \in Runs, PruneDelete(r) PROVE NoNewRunning /\ NoNewQueued
    <3>1. pruneIds[r] \in SUBSET Runs
      BY DEF TypeOK, QueueTypeOK
    <3> QED BY <1>1, <2>1, <3>1, StatusWritten DEF PruneDelete
  <2>2. CASE status' = status
    BY <1>1, <2>2, StatusWritten
  <2> QED BY <1>2, <2>1, <2>2 DEF QueueStep, CallEnqueue, Dedupe, CountQueued, DrawSequence,
             EnqueueFault, PruneFind, storeVars, runVars
<1>3. CASE WorkerStep /\ UNCHANGED <<queueVars, cancelVars>>
  <2>1. ASSUME NEW r \in Runs, NEW s \in Terminal, Finalize(r, s)
        PROVE  NoNewRunning /\ NoNewQueued
    <3>1. r \in 0..MaxSeq
      BY DEF Runs
    <3> QED BY <1>1, <2>1, <3>1, StatusWritten DEF Finalize
  <2>2. CASE status' = status
    BY <1>1, <2>2, StatusWritten
  <2>3. ASSUME NEW r \in Runs, Process(r)
        PROVE  status' = status \/ \E s \in Terminal : Finalize(r, s)
    BY <2>3 DEF Process, LoadProject, Prepare, FinalizeConflict, NotifyConflict,
       CheckBeforeTests, CheckBeforeAttempt, SpawnTests, TestsClose, RecordAttempt, Publish,
       FinalizeDecided, FinalStatus, NotifyFailure, FinalizeCancelled, Catch, FinalizeError,
       Cleanup, Terminal, storeVars, runVars
  <2>4. ASSUME ClaimStep \/ ClaimFault \/ \E r \in Runs : TryFault(r) \/ CatchFault(r)
        PROVE  status' = status
    BY <1>3, <2>4 DEF ClaimStep, Tick, CountRunning, StopClaiming, StartProcessing, ClaimFault,
       TryFault, CatchFault, storeVars, runVars
  <2> QED BY <1>3, <2>1, <2>2, <2>3, <2>4 DEF WorkerStep
<1>4. CASE ControlStep /\ UNCHANGED queueVars
  <2>1. ASSUME NEW c \in Cancels, SaveCancelled(c) PROVE NoNewRunning /\ NoNewQueued
    <3>1. cancelRun[c] \in 0..MaxSeq /\ "CANCELLED" \in Terminal
      BY DEF TypeOK, ControlTypeOK, Terminal
    <3> QED BY <1>1, <2>1, <3>1, StatusWritten DEF SaveCancelled
  <2>2. CASE status' = status
    BY <1>1, <2>2, StatusWritten
  <2> QED BY <1>4, <2>1, <2>2 DEF ControlStep, ReadForCancel, SaveRequest, Abort, CancelFault,
             storeVars, runVars
<1>5. CASE status' = status
  BY <1>1, <1>5, StatusWritten
<1> QED BY <1>2, <1>3, <1>4, <1>5 DEF Next, UpdateProject, Crash, UnhandledRejection,
           ExitAndRestart, vars, storeVars, runVars

\* The slots the claim loop has left are free: they were when it counted, and until
\* it ends nothing but the loop itself takes one.
LEMMA ClaimBudgetStep ==
  ASSUME TypeOK, ClaimBudget, [Next]_vars, TypeOK'
  PROVE  ClaimBudget'
<1> USE CountedFinite DEF TypeOK, WorkerTypeOK
<1>1. ASSUME NoNewRunning, slots' \in Nat, slots' <= slots PROVE ClaimBudget'
  <2>1. Cardinality(Running') \in Nat /\ Cardinality(Running') <= Cardinality(Running)
    BY <1>1, SubsetCard DEF NoNewRunning
  <2> QED BY <1>1, <2>1 DEF ClaimBudget
<1>2. CASE ClaimRun
  <2>1. Running' \in SUBSET (Running \cup {r \in Runs : status'[r] # status[r]})
    BY DEF Running, Having
  <2>2. PICK r \in Runs : Running' \in SUBSET (Running \cup {r})
    BY <1>2 DEF ClaimRun, Claimable, Queued, Running, Having, StoreTypeOK
  <2>3. Cardinality(Running') \in Nat /\ Cardinality(Running') <= Cardinality(Running) + 1
    BY <2>2, AddCard
  <2>4. slots' = slots - 1
    BY <1>2 DEF ClaimRun
  <2> QED BY <2>3, <2>4 DEF ClaimBudget
<1>3. CASE CountRunning
  <2>1. Running' = Running
    BY <1>3 DEF CountRunning, storeVars, runVars, Running, Having
  <2>2. slots' = slots \/ slots' = MaxConcurrent - Cardinality(Running)
    BY <1>3 DEF CountRunning, FreeSlots
  <2> QED BY <2>1, <2>2 DEF ClaimBudget
<1>4. ASSUME ~ClaimRun, ~CountRunning PROVE slots' = slots \/ slots' = 0
  BY <1>4 DEF Next, vars, WorkerStep, ClaimStep, Tick, StopClaiming, StartProcessing, ClaimFault,
     Process, LoadProject, Prepare, FinalizeConflict, NotifyConflict, CheckBeforeTests,
     CheckBeforeAttempt, SpawnTests, TestsClose, RecordAttempt, Publish, FinalizeDecided,
     NotifyFailure, FinalizeCancelled, Catch, FinalizeError, Cleanup, Finalize, TryFault,
     CatchFault, claimVars, workerVars, ControlStep, ReadForCancel, SaveCancelled, SaveRequest,
     Abort, CancelFault, UpdateProject, Crash, UnhandledRejection, ExitAndRestart, WorkerReset
<1>5. CASE (\E q \in Callers : InsertRun(q)) /\ UNCHANGED workerVars
  <2>1. NoNewRunning
    BY <1>5 DEF InsertRun, NoNewRunning, Running, Having, StoreTypeOK
  <2>2. slots' = slots
    BY <1>5 DEF workerVars
  <2> QED BY <1>1, <2>1, <2>2
<1> QED BY <1>1, <1>2, <1>3, <1>4, <1>5, StatusEffect

\* RUNNING documents and the iterations the claim loop has left never exceed the cap
\* together (worker.ts:55-78).
THEOREM ClaimBudgetInvariant == Spec => []ClaimBudget
<1>1. Init => TypeOK /\ ClaimBudget
  <2>1. ASSUME Init PROVE Running = {} /\ slots = 0
    BY <2>1 DEF Init, StoreInit, WorkerInit, Running, Having
  <2> QED BY <2>1, InitType, FS_EmptySet DEF ClaimBudget
<1>2. TypeOK /\ TypeOK' /\ ClaimBudget /\ [Next]_vars => ClaimBudget'
  BY ClaimBudgetStep
<1> QED BY <1>1, <1>2, TypeCorrect, PTL DEF Spec

\* At most maxConcurrent documents are RUNNING in every reachable state, for every
\* number of runs, callers, cancels, faults and restarts.
THEOREM CapKept == Spec => []ConcurrencyCap
<1>1. TypeOK /\ ClaimBudget => ConcurrencyCap
  BY CountedFinite DEF ClaimBudget, ConcurrencyCap, TypeOK, WorkerTypeOK
<1> QED BY <1>1, ClaimBudgetInvariant, TypeCorrect, PTL

\* What a step may do to the calls that hold a place in the queue.
LEMMA InsertingEffect ==
  ASSUME TypeOK, [Next]_vars
  PROVE  \/ Inserting' \subseteq Inserting
         \/ \E q \in Callers : CountQueued(q) /\ ~QueueFull
<1> USE DEF TypeOK, QueueTypeOK
<1>1. ASSUME NEW q \in Callers, NEW p \in Projects, NEW c \in Sources, CallEnqueue(q, p, c)
      PROVE  Inserting' \subseteq Inserting
  BY <1>1 DEF CallEnqueue, Inserting
<1>2. ASSUME NEW q \in Callers, Dedupe(q) \/ InsertRun(q) \/ EnqueueFault(q)
      PROVE  Inserting' \subseteq Inserting
  BY <1>2 DEF Dedupe, InsertRun, EnqueueFault, Return, Inserting
<1>3. ASSUME NEW q \in Callers, DrawSequence(q) PROVE Inserting' \subseteq Inserting
  BY <1>3 DEF DrawSequence, Inserting
<1>4. ASSUME NEW q \in Callers, CountQueued(q), QueueFull PROVE Inserting' \subseteq Inserting
  BY <1>4 DEF CountQueued, Return, Inserting
<1>5. CASE UNCHANGED callPc
  BY <1>5 DEF Inserting
<1>6. CASE Crash \/ UnhandledRejection
  BY <1>6 DEF Crash, UnhandledRejection, ExitAndRestart, QueueReset, Inserting
<1> QED BY <1>1, <1>2, <1>3, <1>4, <1>5, <1>6
        DEF Next, QueueStep, PruneFind, PruneDelete, UpdateProject, vars, queueVars

\* maxQueued is overshot by at most the calls in flight but one, for every number
\* of overlapping calls: the call that counts finds a free place, and all others
\* may hold a place they found earlier (queue.ts:39-56).
THEOREM QueuedBoundKept == Spec => []QueuedBound
<1> USE CountedFinite
<1>1. Init => TypeOK /\ QueuedBound
  <2>1. ASSUME Init PROVE Queued = {} /\ Inserting = {}
    BY <2>1 DEF Init, StoreInit, QueueInit, Queued, Having, Inserting
  <2> QED BY <2>1, InitType, FS_EmptySet DEF QueuedBound
<1>2. TypeOK /\ TypeOK' /\ QueuedBound /\ [Next]_vars => QueuedBound'
  <2> SUFFICES ASSUME TypeOK, TypeOK', QueuedBound, [Next]_vars PROVE QueuedBound'
    OBVIOUS
  <2>1. ASSUME NoNewQueued, Inserting' \subseteq Inserting PROVE QueuedBound'
    <3>1. /\ Cardinality(Queued') \in Nat /\ Cardinality(Queued') <= Cardinality(Queued)
          /\ Cardinality(Inserting') \in Nat
          /\ Cardinality(Inserting') <= Cardinality(Inserting)
      BY <2>1, SubsetCard DEF NoNewQueued
    <3> QED BY <3>1 DEF QueuedBound
  <2>2. ASSUME NEW q \in Callers, CountQueued(q), ~QueueFull PROVE QueuedBound'
    <3>1. Queued' = Queued
      BY <2>2 DEF CountQueued, storeVars, runVars, Queued, Having
    <3>2. Cardinality(Inserting') \in Nat /\ Cardinality(Inserting') <= Cardinality(Callers)
      <4>1. Inserting' \in SUBSET Callers
        BY DEF Inserting
      <4> QED BY <4>1, RunsFinite, SubsetCard
    <3> QED BY <2>2, <3>1, <3>2 DEF QueueFull, QueuedBound
  <2>3. ASSUME NEW q \in Callers, InsertRun(q) PROVE QueuedBound'
    <3>1. Queued' \in SUBSET (Queued \cup {callSeq[q]})
      BY <2>3 DEF InsertRun, Queued, Having, TypeOK, StoreTypeOK
    <3>2. q \in Inserting /\ Inserting' \in SUBSET (Inserting \ {q})
      BY <2>3 DEF InsertRun, Return, Inserting, TypeOK, QueueTypeOK
    <3>3. /\ Cardinality(Queued') \in Nat /\ Cardinality(Queued') <= Cardinality(Queued) + 1
          /\ Cardinality(Inserting') \in Nat
          /\ Cardinality(Inserting') <= Cardinality(Inserting) - 1
      BY <3>1, <3>2, AddCard, DropCard
    <3> QED BY <3>3 DEF QueuedBound
  <2>4. CASE ClaimRun /\ UNCHANGED queueVars
    <3>1. NoNewQueued
      BY <2>4 DEF ClaimRun, NoNewQueued, Queued, Having, TypeOK, StoreTypeOK
    <3>2. Inserting' \subseteq Inserting
      BY <2>4 DEF queueVars, Inserting
    <3> QED BY <2>1, <3>1, <3>2
  <2> QED BY <2>1, <2>2, <2>3, <2>4, StatusEffect, InsertingEffect
<1> QED BY <1>1, <1>2, TypeCorrect, PTL DEF Spec
=============================================================================
