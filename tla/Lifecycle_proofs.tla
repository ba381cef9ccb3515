-------------------------- MODULE Lifecycle_proofs --------------------------
(***************************************************************************)
(* Theorems about the life of a run document: who processes it while it is *)
(* RUNNING, how its status may change (the pipeline implements             *)
(* RunLifecycle), what a cancel that took hold prevents, which documents   *)
(* retention deletes, and when two active runs may share a commit.         *)
(***************************************************************************)
EXTENDS Outcome_proofs, WellFoundedInduction

USE StoreAssumption, QueueAssumption, WorkerAssumption
    DEF StoreAssumption, QueueAssumption, WorkerAssumption

Owners == BeforeFinalize \cup {"rethrow"}

\* A cancel that read run r as QUEUED and is about to save it.
CancelPending(r) == \E c \in Cancels : cancelPc[c] = "saveCancelled" /\ cancelRun[c] = r

\* The document of r has lost its owner in an exit.  No pending cancel can touch it,
\* since cancels are gone with the process and later ones read RUNNING.
Orphan(r) == crashes > 0 /\ workerPc[r] = "none" /\ ~CancelPending(r)

OwnerInv == \A r \in Running : workerPc[r] \in Owners \/ Orphan(r)

-----------------------------------------------------------------------------
\* The processing of a run gives it up only with an outcome.
LEMMA ActivityOwner ==
  ASSUME TypeOK, NEW r \in Runs, Process(r) \/ TryFault(r) \/ CatchFault(r),
         status[r] = "RUNNING" => workerPc[r] \in Owners,
         status'[r] = "RUNNING"
  PROVE  workerPc'[r] \in Owners
<1> USE GotoEffect DEF storeVars, runVars, At, Owners, BeforeFinalize
<1>1. CASE LoadProject(r) \/ CheckBeforeTests(r) \/ CheckBeforeAttempt(r) \/ SpawnTests(r)
           \/ TestsClose(r)
  <2>1. \E pc \in {"prepare", "cancel", "check", "spawn", "testing", "catch", "record"} : Goto(r, pc)
    BY <1>1 DEF LoadProject, CheckBeforeTests, CheckBeforeAttempt, SpawnTests, TestsClose
  <2> QED BY <2>1
<1>2. CASE Prepare(r)
  <2>1. \E pc \in {"precheck", "conflict", "catch"} : Goto(r, pc)
    BY <1>2 DEF Prepare
  <2> QED BY <2>1
<1>3. CASE RecordAttempt(r) \/ Publish(r)
  <2>1. \E pc \in {"publish", "decide", "check", "catch"} : Goto(r, pc)
    BY <1>3 DEF RecordAttempt, Publish
  <2> QED BY <2>1
<1>4. CASE FinalizeConflict(r) \/ FinalizeCancelled(r) \/ FinalizeError(r) \/ FinalizeDecided(r)
  <2>1. \E outcome \in Terminal : Finalize(r, outcome)
    BY <1>4 DEF FinalizeConflict, FinalizeCancelled, FinalizeError, FinalizeDecided, FinalStatus,
       Terminal
  <2>2. status'[r] # "RUNNING"
    BY <2>1, FinalizeEffect DEF Terminal
  <2> QED BY <2>2
<1>5. CASE NotifyConflict(r) \/ NotifyFailure(r) \/ Cleanup(r)
  <2>1. UNCHANGED status /\ workerPc[r] \in AfterFinalize
    BY <1>5 DEF NotifyConflict, NotifyFailure, Cleanup, AfterFinalize
  <2> QED BY <2>1 DEF AfterFinalize
<1>6. CASE Catch(r) \/ TryFault(r) \/ CatchFault(r)
  <2>1. \E pc \in {"catch", "catchCancel", "catchFail", "rethrow"} : Goto(r, pc)
    BY <1>6 DEF Catch, AfterCatch, TryFault, CatchFault
  <2> QED BY <2>1
<1> QED BY <1>1, <1>2, <1>3, <1>4, <1>5, <1>6 DEF Process

\* Every step keeps the owners: only ClaimRun makes a run RUNNING, and only an exit
\* takes all owners away.
LEMMA OwnerStep ==
  ASSUME TypeOK, TypeOK', OwnerInv, [Next]_vars
  PROVE  OwnerInv'
<1> USE DEF storeVars, runVars
<1>0. workerPc \in [Runs -> WorkerPc] /\ status \in [Runs -> Status \cup {"ABSENT"}] /\ crashes \in Nat
  BY DEF TypeOK, StoreTypeOK, WorkerTypeOK
<1>1. CASE NoNewRunning /\ UNCHANGED <<crashes, workerPc, cancelVars>>
  <2>1. \A r \in Running : CancelPending(r)' => CancelPending(r)
    BY <1>1 DEF CancelPending, cancelVars
  <2>2. \A r \in Running : workerPc'[r] = workerPc[r]
    BY <1>1
  <2> QED BY <1>1, <2>1, <2>2 DEF OwnerInv, NoNewRunning, Orphan
<1>2. CASE QueueStep /\ UNCHANGED <<workerVars, cancelVars>>
  <2>1. NoNewRunning
    <3>1. ~ClaimRun
      BY <1>2 DEF ClaimRun, workerVars, TypeOK, WorkerTypeOK
    <3>2. ASSUME NEW q \in Callers, InsertRun(q) PROVE NoNewRunning
      BY <1>0, <3>2 DEF InsertRun, NoNewRunning, Running, Having
    <3> QED BY <3>1, <3>2, StatusEffect
  <2>2. UNCHANGED <<crashes, workerPc>>
    BY <1>2 DEF workerVars, QueueStep, CallEnqueue, Dedupe, CountQueued, DrawSequence, InsertRun,
       EnqueueFault, PruneFind, PruneDelete
  <2> QED BY <1>1, <1>2, <2>1, <2>2
<1>3. CASE (ClaimStep \/ ClaimFault) /\ UNCHANGED <<queueVars, cancelVars>>
  <2>1. CASE ClaimRun
    <3>1. PICK r \in Runs : /\ status[r] = "QUEUED"
                            /\ status' = [status EXCEPT ![r] = "RUNNING"]
                            /\ workerPc' = [workerPc EXCEPT ![r] = "claimed"]
      BY <2>1 DEF ClaimRun, Claimable, Queued, Having
    <3>2. workerPc'[r] \in Owners
      BY <1>0, <3>1 DEF Owners, BeforeFinalize
    <3>3. \A s \in Running' \ {r} : s \in Running /\ workerPc'[s] = workerPc[s]
      BY <1>0, <3>1 DEF Running, Having
    <3>4. crashes' = crashes /\ \A s \in Runs : CancelPending(s)' => CancelPending(s)
      BY <1>3, <2>1 DEF ClaimRun, CancelPending, cancelVars
    <3>5. ASSUME NEW s \in Running', s # r PROVE workerPc'[s] \in Owners \/ Orphan(s)'
      <4>1. s \in Running /\ s \in Runs /\ workerPc'[s] = workerPc[s]
        BY <3>3, <3>5 DEF Running, Having
      <4> QED BY <3>4, <4>1 DEF OwnerInv, Orphan
    <3> QED BY <3>2, <3>5 DEF OwnerInv
  <2>2. CASE StartProcessing
    <3>1. UNCHANGED <<status, crashes>>
          /\ \A r \in Runs : workerPc'[r] = IF workerPc[r] = "claimed" THEN "load" ELSE workerPc[r]
      BY <2>2 DEF StartProcessing
    <3>2. Running' = Running /\ Running \subseteq Runs
      BY <3>1 DEF Running, Having
    <3>3. \A s \in Runs : CancelPending(s)' => CancelPending(s)
      BY <1>3 DEF CancelPending, cancelVars
    <3> QED BY <3>1, <3>2, <3>3 DEF OwnerInv, Orphan, Owners, BeforeFinalize
  <2>3. CASE Tick \/ CountRunning \/ StopClaiming \/ ClaimFault
    <3>1. UNCHANGED <<status, crashes, workerPc>>
      BY <2>3 DEF Tick, CountRunning, StopClaiming, ClaimFault, unclaimed
    <3> QED BY <1>1, <1>3, <3>1 DEF NoNewRunning, Running, Having
  <2> QED BY <1>3, <2>1, <2>2, <2>3 DEF ClaimStep
<1>4. ASSUME NEW s \in Runs, Process(s) \/ TryFault(s) \/ CatchFault(s),
             UNCHANGED <<queueVars, cancelVars>>
      PROVE  OwnerInv'
  <2>1. crashes' = crashes
    BY <1>4 DEF Process, LoadProject, Prepare, FinalizeConflict, NotifyConflict,
       CheckBeforeTests, CheckBeforeAttempt, SpawnTests, TestsClose, RecordAttempt, Publish,
       FinalizeDecided, NotifyFailure, FinalizeCancelled, Catch, FinalizeError,
       Cleanup, Finalize, TryFault, CatchFault
  <2>2. \A r \in Runs : CancelPending(r)' => CancelPending(r)
    BY <1>4 DEF CancelPending, cancelVars
  <2>3. status[s] = "RUNNING" => workerPc[s] \in Owners
    BY <1>4, ActivityFrame DEF OwnerInv, Orphan, Running, Having
  <2>4. status'[s] = "RUNNING" => workerPc'[s] \in Owners
    BY <1>4, <2>3, ActivityOwner
  <2>5. ASSUME NEW r \in Runs \ {s}, status'[r] = "RUNNING" PROVE workerPc'[r] \in Owners \/ Orphan(r)'
    <3>1. LeavesAlone(r)
      BY <1>4, ActivityFrame
    <3>2. r \in Running /\ workerPc'[r] = workerPc[r]
      BY <2>5, <3>1 DEF LeavesAlone, Running, Having
    <3> QED BY <2>1, <2>2, <3>2 DEF OwnerInv, Orphan
  <2> QED BY <2>4, <2>5 DEF OwnerInv, Running, Having
<1>5. CASE ControlStep /\ UNCHANGED queueVars
  <2>0. UNCHANGED <<crashes, workerPc>>
    BY <1>5 DEF ControlStep, ReadForCancel, SaveCancelled, SaveRequest, Abort, CancelFault, workerVars
  <2>1. NoNewRunning
    <3>1. ~ClaimRun
      BY <1>0, <1>5, <2>0 DEF ClaimRun, Claimable, Queued, Having, ControlStep, ReadForCancel,
         SaveCancelled, SaveRequest, Abort, CancelFault, workerVars, TypeOK, WorkerTypeOK
    <3>2. ASSUME NEW q \in Callers, InsertRun(q) PROVE NoNewRunning
      BY <1>0, <3>2 DEF InsertRun, NoNewRunning, Running, Having
    <3> QED BY <3>1, <3>2, StatusEffect
  <2>2. \A r \in Running : CancelPending(r)' => CancelPending(r)
    <3>1. ASSUME NEW c \in Cancels, NEW s \in Runs, ReadForCancel(c, s), NEW r \in Running,
                 CancelPending(r)'
          PROVE  CancelPending(r)
      <4>1. \A d \in Cancels \ {c} : cancelPc'[d] = cancelPc[d] /\ cancelRun'[d] = cancelRun[d]
        BY <3>1 DEF ReadForCancel, CancelGoto, TypeOK, ControlTypeOK
      <4>2. ~(cancelPc'[c] = "saveCancelled" /\ cancelRun'[c] = r)
        BY <3>1 DEF ReadForCancel, CancelGoto, TypeOK, ControlTypeOK, Running, Having
      <4> QED BY <3>1, <4>1, <4>2 DEF CancelPending
    <3>2. ASSUME NEW c \in Cancels, SaveCancelled(c) \/ SaveRequest(c) \/ Abort(c) \/ CancelFault(c),
                 NEW r \in Running, CancelPending(r)'
          PROVE  CancelPending(r)
      <4>1. \A d \in Cancels \ {c} : cancelPc'[d] = cancelPc[d] /\ cancelRun'[d] = cancelRun[d]
        BY <3>2 DEF SaveCancelled, SaveRequest, Abort, CancelFault, CancelReturn, CancelGoto, TypeOK,
           ControlTypeOK
      <4>2. cancelPc'[c] # "saveCancelled"
        BY <3>2 DEF SaveCancelled, SaveRequest, Abort, CancelFault, CancelReturn, CancelGoto, TypeOK,
           ControlTypeOK
      <4> QED BY <3>2, <4>1, <4>2 DEF CancelPending
    <3> QED BY <1>5, <3>1, <3>2 DEF ControlStep
  <2> QED BY <2>0, <2>1, <2>2 DEF OwnerInv, NoNewRunning, Orphan
<1>6. CASE Crash \/ UnhandledRejection
  <2>1. /\ \A r \in Runs : workerPc'[r] = "none"
        /\ \A c \in Cancels : cancelPc'[c] \in {"idle", "done"}
        /\ crashes' = crashes + 1
    BY <1>6 DEF Crash, UnhandledRejection, ExitAndRestart, WorkerReset, ControlReset
  <2>2. \A r \in Runs : Orphan(r)'
    BY <1>0, <2>1 DEF Orphan, CancelPending
  <2> QED BY <2>2 DEF OwnerInv, Running, Having
<1>7. CASE UNCHANGED vars
  BY <1>1, <1>7 DEF vars, workerVars, NoNewRunning, Running, Having
<1>8. ASSUME NEW p \in Projects, NEW b \in Branches, UpdateProject(p, b) PROVE OwnerInv'
  BY <1>1, <1>8 DEF UpdateProject, workerVars, NoNewRunning, Running, Having
<1>9. CASE WorkerStep /\ UNCHANGED <<queueVars, cancelVars>>
  BY <1>3, <1>4, <1>9 DEF WorkerStep
<1> QED BY <1>2, <1>5, <1>6, <1>7, <1>8, <1>9 DEF Next

\* OwnerInv is an invariant.
LEMMA OwnerInvariant == Spec => []OwnerInv
<1>1. Init => OwnerInv
  BY DEF Init, StoreInit, OwnerInv, Running, Having
<1>2. TypeOK /\ TypeOK' /\ OwnerInv /\ [Next]_vars => OwnerInv'
  BY OwnerStep
<1> QED BY <1>1, <1>2, TypeCorrect, PTL DEF Spec

\* While the process lives, every RUNNING document is being processed: no path through
\* processRun forgets to finalize (worker.ts:85-273).
THEOREM OwnerKept == Spec => []RunningHasOwner
<1>1. OwnerInv => RunningHasOwner
  BY DEF OwnerInv, Orphan, Owners, RunningHasOwner
<1> QED BY <1>1, OwnerInvariant, PTL

-----------------------------------------------------------------------------
(* Nobody takes an orphan up again.                                        *)

\* The processing of a run writes the status of no other run.
LEMMA ActivityStatus ==
  ASSUME TypeOK, NEW s \in Runs, Process(s) \/ TryFault(s) \/ CatchFault(s)
  PROVE  \A r \in Runs \ {s} : status'[r] = status[r]
<1>1. CASE FinalizeConflict(s) \/ FinalizeCancelled(s) \/ FinalizeError(s) \/ FinalizeDecided(s)
  <2>1. \E outcome \in Terminal : Finalize(s, outcome)
    BY <1>1 DEF FinalizeConflict, FinalizeCancelled, FinalizeError, FinalizeDecided, FinalStatus,
       Terminal
  <2> QED BY <2>1, FinalizeEffect
<1>2. CASE \/ LoadProject(s) \/ Prepare(s) \/ NotifyConflict(s) \/ CheckBeforeTests(s)
           \/ CheckBeforeAttempt(s) \/ SpawnTests(s) \/ TestsClose(s) \/ RecordAttempt(s)
           \/ Publish(s) \/ NotifyFailure(s) \/ Catch(s) \/ Cleanup(s)
           \/ TryFault(s) \/ CatchFault(s)
  BY <1>2 DEF LoadProject, Prepare, NotifyConflict, CheckBeforeTests, CheckBeforeAttempt,
     SpawnTests, TestsClose, RecordAttempt, Publish, NotifyFailure, Catch, Cleanup, TryFault,
     CatchFault, storeVars, runVars
<1> QED BY <1>1, <1>2 DEF Process

\* A RUNNING document without an owner stays as it is, or is deleted.
LEMMA OrphanStep ==
  ASSUME TypeOK, OwnerInv, OutcomeInv, [Next]_vars,
         NEW r \in Running, workerPc[r] = "none"
  PROVE  status'[r] \in {"RUNNING", "ABSENT"} /\ workerPc'[r] = "none"
<1>0. /\ r \in Runs /\ status[r] = "RUNNING" /\ ~CancelPending(r)
      /\ workerPc \in [Runs -> WorkerPc] /\ status \in [Runs -> Status \cup {"ABSENT"}]
  BY DEF Running, Having, OwnerInv, Orphan, Owners, BeforeFinalize, TypeOK, StoreTypeOK,
     WorkerTypeOK
<1>1. CASE QueueStep /\ UNCHANGED <<workerVars, cancelVars>>
  <2>1. ASSUME NEW q \in Callers, InsertRun(q) PROVE status'[r] = "RUNNING"
    BY <1>0, <2>1 DEF InsertRun, OutcomeInv, NumbersFresh, FreshRuns, Fresh
  <2>2. ASSUME NEW s \in Runs, PruneDelete(s) PROVE status'[r] \in {"RUNNING", "ABSENT"}
    BY <1>0, <2>2 DEF PruneDelete
  <2>3. ASSUME NEW q \in Callers,
               \/ \E p \in Projects, c \in Sources : CallEnqueue(q, p, c)
               \/ Dedupe(q) \/ CountQueued(q) \/ DrawSequence(q) \/ EnqueueFault(q)
        PROVE  status' = status
    BY <2>3 DEF CallEnqueue, Dedupe, CountQueued, DrawSequence, EnqueueFault, storeVars, runVars
  <2>4. ASSUME NEW s \in Runs, PruneFind(s) PROVE status' = status
    BY <2>4 DEF PruneFind, storeVars, runVars
  <2> QED BY <1>0, <1>1, <2>1, <2>2, <2>3, <2>4 DEF QueueStep, workerVars
<1>2. CASE ClaimStep \/ ClaimFault
  <2>1. CASE ClaimRun
    <3>1. PICK s \in Runs : /\ status[s] = "QUEUED"
                            /\ status' = [status EXCEPT ![s] = "RUNNING"]
                            /\ workerPc' = [workerPc EXCEPT ![s] = "claimed"]
      BY <2>1 DEF ClaimRun, Claimable, Queued, Having
    <3> QED BY <1>0, <3>1
  <2>2. CASE Tick \/ CountRunning \/ StopClaiming \/ StartProcessing \/ ClaimFault
    BY <1>0, <2>2 DEF Tick, CountRunning, StopClaiming, StartProcessing, ClaimFault, unclaimed,
       storeVars, runVars
  <2> QED BY <1>2, <2>1, <2>2 DEF ClaimStep
<1>3. ASSUME NEW s \in Runs, Process(s) \/ TryFault(s) \/ CatchFault(s)
      PROVE  status'[r] = "RUNNING" /\ workerPc'[r] = "none"
  <2>1. r # s
    BY <1>3, ActivityFrame
  <2> QED BY <1>0, <1>3, <2>1, ActivityFrame, ActivityStatus DEF LeavesAlone
<1>4. CASE ControlStep /\ UNCHANGED queueVars
  <2>1. workerPc' = workerPc
    BY <1>4 DEF ControlStep, ReadForCancel, SaveCancelled, SaveRequest, Abort, CancelFault,
       workerVars
  <2>2. ASSUME NEW c \in Cancels, SaveCancelled(c) PROVE status'[r] = "RUNNING"
    <3>1. cancelRun[c] # r
      BY <1>0, <2>2 DEF CancelPending, SaveCancelled
    <3> QED BY <1>0, <2>2, <3>1 DEF SaveCancelled, StatusSet
  <2>3. ASSUME NEW c \in Cancels,
               (\E s \in Runs : ReadForCancel(c, s)) \/ SaveRequest(c) \/ Abort(c) \/ CancelFault(c)
        PROVE  status' = status
    BY <2>3 DEF ReadForCancel, SaveRequest, Abort, CancelFault, storeVars, runVars
  <2> QED BY <1>0, <1>4, <2>1, <2>2, <2>3 DEF ControlStep
<1>5. CASE Crash \/ UnhandledRejection
  BY <1>0, <1>5 DEF Crash, UnhandledRejection, ExitAndRestart, WorkerReset, runVars
<1>6. CASE UNCHANGED vars \/ \E p \in Projects, b \in Branches : UpdateProject(p, b)
  BY <1>0, <1>6 DEF UpdateProject, vars, storeVars, runVars, workerVars
<1> QED BY <1>0, <1>1, <1>2, <1>3, <1>4, <1>5, <1>6 DEF Next, WorkerStep

\* After a restart a RUNNING document of the old process is neither taken up again nor
\* decided: it keeps its slot until retention deletes it (index.ts:17-29).
THEOREM OrphanKept == Spec => OrphanStaysRunning
<1>1. TypeOK /\ OwnerInv /\ OutcomeInv /\ [Next]_vars =>
        [\A r \in Running : crashes > 0 /\ workerPc[r] = "none" =>
           status'[r] \in {"RUNNING", "ABSENT"} /\ workerPc'[r] = "none"]_vars
  BY OrphanStep
<1> QED BY <1>1, TypeCorrect, OwnerInvariant, OutcomeInvariant, PTL DEF Spec, OrphanStaysRunning
-----------------------------------------------------------------------------
(* The pipeline implements RunLifecycle: every step of the calls, of the   *)
(* claim phase, of processRun, of the retention jobs and of the process    *)
(* exits is one step of the status machine, or a stutter.                  *)

LStep == [Lifecycle!Next]_(Lifecycle!lifecycleVars)

\* The counter does not fall, and a call about to insert carries the number it
\* carried before, or a new one.
NumbersGrow ==
    /\ lastSeq' >= lastSeq
    /\ \A q \in Callers : callPc'[q] = "create" =>
         \/ callPc[q] = "create" /\ callSeq'[q] = callSeq[q]
         \/ callSeq'[q] > lastSeq

\* Then no number that was spent becomes free.
LEMMA SpentGrows ==
  ASSUME TypeOK, TypeOK', NumbersGrow
  PROVE  Spent \subseteq Spent' /\ Spent' \subseteq Runs
<1>1. lastSeq \in Nat /\ lastSeq' \in Nat /\ lastSeq <= lastSeq' /\ lastSeq' <= MaxSeq
  BY DEF NumbersGrow, TypeOK, StoreTypeOK
<1>2. ASSUME NEW r \in Spent PROVE r \in Spent'
  <2>1. r \in 1..lastSeq'
    BY <1>1, <1>2 DEF Spent
  <2>2. ASSUME NEW q \in Callers, callPc'[q] = "create", callSeq'[q] = r PROVE FALSE
    BY <1>1, <1>2, <2>2 DEF NumbersGrow, Spent
  <2> QED BY <2>1, <2>2 DEF Spent
<1> QED BY <1>1, <1>2 DEF Spent, Runs

\* A step that changes no status spends numbers at most.
LEMMA SilentStep ==
  ASSUME TypeOK, TypeOK', NumbersGrow, UNCHANGED status
  PROVE  LStep
<1>1. \E lost \in SUBSET (Runs \ Spent) : Spent' = Spent \cup lost
  <2>1. Spent' \ Spent \in SUBSET (Runs \ Spent) /\ Spent' = Spent \cup (Spent' \ Spent)
    BY SpentGrows
  <2> QED BY <2>1
<1>2. Lifecycle!Discard
  BY <1>1 DEF Lifecycle!Discard, Lifecycle!Runs, Runs
<1> QED BY <1>2 DEF LStep, Lifecycle!Next

\* The same numbers are spent while no call draws, inserts or ends.
LEMMA SpentSame ==
  ASSUME UNCHANGED <<lastSeq, callPc, callSeq>>
  PROVE  UNCHANGED Spent
  BY DEF Spent

\* A write of CANCELLED is a cancel, or a stutter if the document is gone.
LEMMA CancelStep ==
  ASSUME TypeOK, NEW r \in 0..MaxSeq, status' = StatusSet(r, "CANCELLED"), UNCHANGED Spent
  PROVE  LStep
<1>1. CASE r \in Runs /\ Present(r)
  <2>1. Lifecycle!Cancel(r)
    BY <1>1 DEF Lifecycle!Cancel, StatusSet, Present
  <2> QED BY <1>1, <2>1 DEF LStep, Lifecycle!Next, Lifecycle!Runs, Runs
<1>2. CASE ~(r \in Runs /\ Present(r))
  <2>1. status' = status
    BY <1>2 DEF StatusSet, Present, Runs, TypeOK, StoreTypeOK
  <2> QED BY <2>1 DEF LStep, Lifecycle!lifecycleVars
<1> QED BY <1>1, <1>2

\* An outcome the worker writes over a status that may be decided.
LEMMA DecideStep ==
  ASSUME TypeOK, NEW r \in Runs, NEW outcome \in Terminal,
         status' = StatusSet(r, outcome), UNCHANGED Spent,
         \/ status[r] \in Open
         \/ status[r] \in Unmerged /\ outcome = "FAILED"
  PROVE  LStep
<1>1. CASE Present(r)
  <2>1. Lifecycle!Decide(r, outcome)
    BY <1>1 DEF Lifecycle!Decide, StatusSet, Present, Open, Unmerged
  <2> QED BY <2>1 DEF LStep, Lifecycle!Next, Lifecycle!Runs, Lifecycle!Outcomes, Runs, Terminal
<1>2. CASE ~Present(r)
  BY <1>2 DEF StatusSet, LStep, Lifecycle!lifecycleVars
<1> QED BY <1>1, <1>2

\* The calls of enqueueRun and the retention jobs.
LEMMA QueueLifecycle ==
  ASSUME TypeOK, TypeOK', OutcomeInv, QueueStep
  PROVE  LStep
<1>0. /\ lastSeq \in 0..MaxSeq /\ status \in [Runs -> Status \cup {"ABSENT"}]
      /\ callPc \in [Callers -> CallPc] /\ callSeq \in [Callers -> 0..MaxSeq]
  BY DEF TypeOK, StoreTypeOK, QueueTypeOK
<1>1. ASSUME NEW q \in Callers,
             \/ \E p \in Projects, c \in Sources : CallEnqueue(q, p, c)
             \/ Dedupe(q) \/ CountQueued(q) \/ EnqueueFault(q)
      PROVE  LStep
  <2>1. UNCHANGED <<status, lastSeq>>
    BY <1>1 DEF CallEnqueue, Dedupe, CountQueued, EnqueueFault, storeVars, runVars
  <2>2. \A p \in Callers : callPc'[p] = "create" =>
          callPc[p] = "create" /\ callSeq'[p] = callSeq[p]
    BY <1>0, <1>1 DEF CallEnqueue, Dedupe, CountQueued, EnqueueFault, Return
  <2> QED BY <1>0, <2>1, <2>2, SilentStep DEF NumbersGrow
<1>2. ASSUME NEW q \in Callers, DrawSequence(q) PROVE LStep
  <2>1. UNCHANGED status /\ lastSeq' = lastSeq + 1
    BY <1>2 DEF DrawSequence, runVars
  <2>2. \A p \in Callers : callSeq'[p] = IF p = q THEN lastSeq + 1 ELSE callSeq[p]
    BY <1>0, <1>2 DEF DrawSequence
  <2>3. \A p \in Callers \ {q} : callPc'[p] = callPc[p]
    BY <1>0, <1>2 DEF DrawSequence
  <2> QED BY <1>0, <2>1, <2>2, <2>3, SilentStep DEF NumbersGrow
<1>3. ASSUME NEW q \in Callers, InsertRun(q) PROVE LStep
  <2> DEFINE r == callSeq[q]
  <2>1. r \in 1..lastSeq /\ r \in Runs /\ status[r] = "ABSENT" /\ r \notin Spent
    BY <1>3 DEF InsertRun, OutcomeInv, NumbersFresh, FreshRuns, Fresh, Spent
  <2>2. /\ status' = [status EXCEPT ![r] = "QUEUED"] /\ lastSeq' = lastSeq
        /\ callPc' = [callPc EXCEPT ![q] = "idle"] /\ callSeq' = [callSeq EXCEPT ![q] = 0]
    BY <1>3 DEF InsertRun, Return
  <2>3. \A p \in Callers \ {q} : callPc'[p] = callPc[p] /\ callSeq'[p] = callSeq[p]
    BY <1>0, <2>2
  <2>4. callPc'[q] # "create" /\ callPc[q] = "create"
    BY <1>0, <1>3, <2>2 DEF InsertRun
  <2>5. \A p \in Callers : callPc[p] = "create" /\ callSeq[p] = r => p = q
    BY <1>3, <2>4 DEF OutcomeInv, NumbersFresh
  <2>6. Spent' = Spent \cup {r}
    BY <2>1, <2>2, <2>3, <2>4, <2>5 DEF Spent
  <2>7. Lifecycle!Insert(r)
    BY <2>1, <2>2, <2>6 DEF Lifecycle!Insert
  <2> QED BY <2>1, <2>7 DEF LStep, Lifecycle!Next, Lifecycle!Runs, Runs
<1>4. ASSUME NEW r \in Runs, PruneFind(r) PROVE LStep
  <2>1. UNCHANGED <<status, lastSeq, callPc, callSeq>>
    BY <1>4 DEF PruneFind, storeVars, runVars
  <2> QED BY <2>1, SpentSame DEF LStep, Lifecycle!lifecycleVars
<1>5. ASSUME NEW r \in Runs, PruneDelete(r) PROVE LStep
  <2>1. status' = [s \in Runs |-> IF s \in pruneIds[r] THEN "ABSENT" ELSE status[s]]
        /\ UNCHANGED Spent
    BY <1>5, SpentSame DEF PruneDelete
  <2>2. pruneIds[r] \in SUBSET Runs
    BY DEF TypeOK, QueueTypeOK
  <2>3. Lifecycle!Remove
    BY <2>1, <2>2 DEF Lifecycle!Remove, Lifecycle!Runs, Runs
  <2> QED BY <2>3 DEF LStep, Lifecycle!Next
<1> QED BY <1>1, <1>2, <1>3, <1>4, <1>5 DEF QueueStep

\* The claim phase.
LEMMA ClaimLifecycle ==
  ASSUME TypeOK, ClaimBudget, ClaimStep \/ ClaimFault, UNCHANGED <<queueVars, cancelVars>>
  PROVE  LStep
<1>1. CASE ClaimRun
  <2>1. UNCHANGED Spent
    BY <1>1, SpentSame DEF ClaimRun, queueVars
  <2>2. Cardinality(Running) \in Nat /\ Cardinality(Running) < MaxConcurrent
    BY <1>1, CountedFinite DEF ClaimRun, ClaimBudget, TypeOK, WorkerTypeOK
  <2>3. PICK r \in Queued : /\ \A s \in Queued : r <= s
                            /\ status' = [status EXCEPT ![r] = "RUNNING"]
    BY <1>1 DEF ClaimRun, Claimable, ClaimedFirst
  <2>4. Lifecycle!Cardinality(Running) = Cardinality(Running)
    BY DEF Lifecycle!Cardinality, Cardinality
  <2>5. Lifecycle!Claim(r)
    BY <2>1, <2>2, <2>3, <2>4 DEF Lifecycle!Claim, Lifecycle!Having, Lifecycle!Runs, Queued, Running,
       Having, Runs
  <2> QED BY <2>3, <2>5 DEF LStep, Lifecycle!Next, Lifecycle!Runs, Runs, Queued, Having
<1>2. CASE Tick \/ CountRunning \/ StopClaiming \/ StartProcessing \/ ClaimFault
  <2>1. UNCHANGED <<status, lastSeq>>
    BY <1>2 DEF Tick, CountRunning, StopClaiming, StartProcessing, ClaimFault, storeVars, runVars
  <2> QED BY <2>1, SpentSame DEF LStep, Lifecycle!lifecycleVars, queueVars
<1> QED BY <1>1, <1>2 DEF ClaimStep

\* The processing of a run.
LEMMA ActivityLifecycle ==
  ASSUME TypeOK, NEW r \in Runs, LifeOf(r), Process(r) \/ TryFault(r) \/ CatchFault(r),
         UNCHANGED <<queueVars, cancelVars>>
  PROVE  LStep
<1>0. UNCHANGED Spent
  BY ActivityFrame, SpentSame DEF queueVars
<1>1. CASE FinalizeConflict(r)
  <2>1. status[r] \in Open /\ status' = StatusSet(r, "CONFLICT")
    BY <1>1 DEF FinalizeConflict, Finalize, At, LifeOf, Life, Undecided
  <2> QED BY <1>0, <2>1, DecideStep DEF Terminal
<1>2. CASE FinalizeDecided(r)
  <2>1. status[r] \in Open /\ status' = StatusSet(r, FinalStatus(r)) /\ FinalStatus(r) \in Terminal
    BY <1>2 DEF FinalizeDecided, Finalize, FinalStatus, At, LifeOf, Life, Terminal
  <2> QED BY <1>0, <2>1, DecideStep
<1>3. CASE FinalizeCancelled(r)
  <2>1. status' = StatusSet(r, "CANCELLED") /\ r \in 0..MaxSeq
    BY <1>3 DEF FinalizeCancelled, Finalize, Runs
  <2> QED BY <1>0, <2>1, CancelStep
<1>4. CASE FinalizeError(r)
  <2>1. status[r] \in Open \cup Unmerged /\ status' = StatusSet(r, "FAILED")
    BY <1>4 DEF FinalizeError, Finalize, At, LifeOf, Life, Catching
  <2> QED BY <1>0, <2>1, DecideStep DEF Terminal
<1>5. CASE \/ LoadProject(r) \/ Prepare(r) \/ NotifyConflict(r) \/ CheckBeforeTests(r)
           \/ CheckBeforeAttempt(r) \/ SpawnTests(r) \/ TestsClose(r) \/ RecordAttempt(r)
           \/ Publish(r) \/ NotifyFailure(r) \/ Catch(r) \/ Cleanup(r)
           \/ TryFault(r) \/ CatchFault(r)
  <2>1. UNCHANGED status
    BY <1>5 DEF LoadProject, Prepare, NotifyConflict, CheckBeforeTests, CheckBeforeAttempt,
       SpawnTests, TestsClose, RecordAttempt, Publish, NotifyFailure, Catch, Cleanup, TryFault,
       CatchFault, storeVars, runVars
  <2> QED BY <1>0, <2>1 DEF LStep, Lifecycle!lifecycleVars
<1> QED BY <1>1, <1>2, <1>3, <1>4, <1>5 DEF Process

\* The calls of the cancel endpoint.
LEMMA ControlLifecycle ==
  ASSUME TypeOK, ControlStep, UNCHANGED queueVars
  PROVE  LStep
<1>1. ASSUME NEW c \in Cancels, SaveCancelled(c) PROVE LStep
  <2>1. cancelRun[c] \in 0..MaxSeq
    BY DEF TypeOK, ControlTypeOK
  <2>2. status' = StatusSet(cancelRun[c], "CANCELLED") /\ UNCHANGED Spent
    BY <1>1, SpentSame DEF SaveCancelled, queueVars
  <2> QED BY <2>1, <2>2, CancelStep
<1>2. ASSUME NEW c \in Cancels,
             (\E r \in Runs : ReadForCancel(c, r)) \/ SaveRequest(c) \/ Abort(c) \/ CancelFault(c)
      PROVE  LStep
  <2>1. UNCHANGED <<status, lastSeq>>
    BY <1>2 DEF ReadForCancel, SaveRequest, Abort, CancelFault, storeVars, runVars
  <2> QED BY <2>1, SpentSame DEF LStep, Lifecycle!lifecycleVars, queueVars
<1> QED BY <1>1, <1>2 DEF ControlStep

\* Exits of the process and edits of a project.
LEMMA QuietLifecycle ==
  ASSUME TypeOK, TypeOK',
         \/ Crash \/ UnhandledRejection \/ UNCHANGED vars
         \/ \E p \in Projects, b \in Branches : UpdateProject(p, b)
  PROVE  LStep
<1>0. lastSeq \in 0..MaxSeq
  BY DEF TypeOK, StoreTypeOK
<1>1. CASE Crash \/ UnhandledRejection
  <2>1. UNCHANGED <<status, lastSeq>> /\ \A q \in Callers : callPc'[q] = "idle"
    BY <1>1 DEF Crash, UnhandledRejection, ExitAndRestart, QueueReset, runVars
  <2> QED BY <1>0, <2>1, SilentStep DEF NumbersGrow
<1>2. CASE UNCHANGED vars \/ \E p \in Projects, b \in Branches : UpdateProject(p, b)
  <2>1. UNCHANGED <<status, lastSeq, callPc, callSeq>>
    BY <1>2 DEF UpdateProject, vars, storeVars, runVars, queueVars
  <2> QED BY <2>1, SpentSame DEF LStep, Lifecycle!lifecycleVars
<1> QED BY <1>1, <1>2

\* Every step of the pipeline is a step of RunLifecycle, or a stutter.
LEMMA LifecycleStep ==
  ASSUME TypeOK, TypeOK', OutcomeInv, ClaimBudget, [Next]_vars
  PROVE  LStep
<1>1. CASE WorkerStep /\ UNCHANGED <<queueVars, cancelVars>>
  BY <1>1, ClaimLifecycle, ActivityLifecycle DEF WorkerStep, OutcomeInv
<1>2. CASE QueueStep
  BY <1>2, QueueLifecycle
<1>3. CASE ControlStep /\ UNCHANGED queueVars
  BY <1>3, ControlLifecycle
<1> QED BY <1>1, <1>2, <1>3, QuietLifecycle DEF Next

\* The status of a run changes as RunLifecycle says, whatever interleaves
\* (queue.ts:24-92, worker.ts:55-281, pipelineController.ts:63-97).
THEOREM LifecycleImplemented == Spec => ImplementsLifecycle
<1>1. Init => Lifecycle!Init
  <2>1. ASSUME Init PROVE status = [r \in Runs |-> "ABSENT"] /\ lastSeq = 0
    BY <2>1 DEF Init, StoreInit
  <2>2. ASSUME Init PROVE Spent = {}
    BY <2>1, <2>2 DEF Spent
  <2> QED BY <2>1, <2>2 DEF Lifecycle!Init, Lifecycle!Runs, Runs
<1>2. TypeOK /\ TypeOK' /\ OutcomeInv /\ ClaimBudget /\ [Next]_vars => LStep
  BY LifecycleStep
<1> QED
  BY <1>1, <1>2, TypeCorrect, OutcomeInvariant, ClaimBudgetInvariant, PTL
     DEF Spec, ImplementsLifecycle, Lifecycle!Spec, LStep

-----------------------------------------------------------------------------
(* Documents come and go once: a number is inserted only while it is       *)
(* unspent, and a spent number stays spent.                                *)

\* The number of a document, and of anything that left a trace, is spent.
LEMMA PresentSpent ==
  ASSUME TypeOK, OutcomeInv, NEW r \in Runs, ~Fresh(r)
  PROVE  r \in Spent
<1>1. lastSeq \in 0..MaxSeq
  BY DEF TypeOK, StoreTypeOK
<1>2. r \in 1..lastSeq
  BY <1>1 DEF OutcomeInv, NumbersFresh, FreshRuns, Runs
<1> QED BY <1>2 DEF OutcomeInv, NumbersFresh, FreshRuns, Spent

\* What a step does to the existence of a document and to the QUEUED ones.
LEMMA PresenceStep ==
  ASSUME TypeOK, TypeOK', LStep, NEW r \in Runs
  PROVE  /\ r \in Spent => r \in Spent'
         /\ Present(r)' => Present(r) \/ (r \notin Spent /\ r \in Spent' /\ status'[r] = "QUEUED")
         /\ status'[r] = "QUEUED" => status[r] \in {"QUEUED", "ABSENT"}
<1>0. status \in [Runs -> Status \cup {"ABSENT"}]
  BY DEF TypeOK, StoreTypeOK
<1> USE DEF Lifecycle!Runs, Runs, Present
<1>1. ASSUME NEW s \in Runs, Lifecycle!Insert(s)
      PROVE  /\ r \in Spent => r \in Spent'
             /\ Present(r)' => Present(r) \/ (r \notin Spent /\ r \in Spent' /\ status'[r] = "QUEUED")
             /\ status'[r] = "QUEUED" => status[r] \in {"QUEUED", "ABSENT"}
  BY <1>0, <1>1 DEF Lifecycle!Insert
<1>2. ASSUME NEW s \in Runs,
             \/ Lifecycle!Claim(s) \/ Lifecycle!Cancel(s)
             \/ \E outcome \in Lifecycle!Outcomes : Lifecycle!Decide(s, outcome)
      PROVE  /\ Spent' = Spent /\ (Present(r)' => Present(r))
             /\ status'[r] = "QUEUED" => status[r] \in {"QUEUED", "ABSENT"}
  BY <1>0, <1>2 DEF Lifecycle!Claim, Lifecycle!Cancel, Lifecycle!Decide, Lifecycle!Outcomes
<1>3. CASE Lifecycle!Discard \/ Lifecycle!Remove
  BY <1>0, <1>3 DEF Lifecycle!Discard, Lifecycle!Remove
<1>4. CASE UNCHANGED Lifecycle!lifecycleVars
  BY <1>4 DEF Lifecycle!lifecycleVars
<1> QED BY <1>1, <1>2, <1>3, <1>4 DEF LStep, Lifecycle!Next

-----------------------------------------------------------------------------
(* A cancel that took hold.                                                *)

\* What is known of the tests that were killed: the flag was saved before the abort,
\* they have not passed, and a later attempt is not started while the document exists.
KilledInv == \A r \in Runs : work[r].killed =>
    /\ cancelRequested[r]
    /\ workerPc[r] \notin {"none", "publish"}
    /\ workerPc[r] = "record" => ~work[r].passed
    /\ Present(r) => workerPc[r] # "spawn"

\* The abort follows the flag that was saved.
AbortInv == \A c \in Cancels :
    /\ cancelPc[c] \in {"saveRequest", "abort"} => cancelRun[c] \in Runs
    /\ cancelPc[c] = "abort" => cancelRequested[cancelRun[c]]

CancelInv == KilledInv /\ AbortInv

\* The cancel has hold of run r, or its document is gone for good.
Held(r) ==
    /\ r \in Spent
    /\ Present(r) =>
         /\ cancelRequested[r] /\ status[r] # "QUEUED" /\ ~IsMerged(r)
         /\ workerPc[r] \notin {"spawn", "publish"}
         /\ workerPc[r] = "testing" => work[r].killed
         /\ workerPc[r] = "record" => ~work[r].passed

\* How a step of its own processing moves a run along.
OwnStep(r) ==
    /\ workerPc'[r] = "spawn" => workerPc[r] = "check" /\ ~CancelSeen(r) /\ status' = status
    /\ workerPc'[r] = "testing" => workerPc[r] = "spawn"
    /\ workerPc'[r] = "record" => workerPc[r] = "testing" /\ (work'[r].passed => ~work[r].killed)
    /\ workerPc'[r] = "publish" => workerPc[r] = "record" /\ work[r].passed
    /\ IsMerged(r)' => IsMerged(r) \/ workerPc[r] = "publish"
    /\ work'[r].killed => work[r].killed /\ workerPc'[r] # "none"

\* How any other step may affect run r: a claim, the call of processRun, an abort, an
\* exit of the process, or not at all.
OtherStep(r) ==
    /\ IsMerged(r)' = IsMerged(r)
    /\ \/ workerPc'[r] = "none" /\ ~work'[r].killed
       \/ status[r] = "QUEUED" /\ workerPc'[r] = "claimed" /\ work'[r] = work[r]
       \/ workerPc[r] = "claimed" /\ workerPc'[r] = "load" /\ work'[r] = work[r]
       \/ /\ workerPc'[r] = workerPc[r] /\ workerPc[r] = "testing"
          /\ work'[r].passed = work[r].passed /\ work'[r].killed
          /\ \E c \in Cancels : cancelPc[c] = "abort" /\ cancelRun[c] = r
       \/ workerPc'[r] = workerPc[r] /\ work'[r] = work[r]

\* The processing of a run moves it as OwnStep says.
LEMMA OwnProgress ==
  ASSUME TypeOK, NEW r \in Runs, Process(r) \/ TryFault(r) \/ CatchFault(r)
  PROVE  OwnStep(r)
<1> USE GotoEffect DEF storeVars, runVars, At, OwnStep
<1>0. work \in [Runs -> Work] /\ workerPc \in [Runs -> WorkerPc] /\ work[r] \in Work
  BY DEF TypeOK, WorkerTypeOK
<1>1. CASE LoadProject(r)
  <2>1. work'[r].killed = work[r].killed /\ UNCHANGED merged /\ Goto(r, "prepare")
    BY <1>0, <1>1 DEF LoadProject, Work
  <2> QED BY <2>1 DEF IsMerged
<1>2. CASE Prepare(r)
  <2>1. \/ work' = work
        \/ \E c \in BOOLEAN : work' = [work EXCEPT ![r] =
                             [work[r] EXCEPT !.base = merged[work[r].target], !.changes = c]]
    BY <1>2 DEF Prepare
  <2>2. work'[r].killed = work[r].killed
    <3>1. CASE work' = work
      BY <3>1
    <3>2. ASSUME NEW c \in BOOLEAN,
                 work' = [work EXCEPT ![r] = [work[r] EXCEPT !.base = merged[work[r].target],
                                                             !.changes = c]]
          PROVE  work'[r].killed = work[r].killed
      <4>1. work'[r] = [work[r] EXCEPT !.base = merged[work[r].target], !.changes = c]
        BY <1>0, <3>2
      <4> QED BY <1>0, <4>1 DEF Work
    <3> QED BY <2>1, <3>1, <3>2
  <2>3. \E pc \in {"precheck", "conflict", "catch"} : Goto(r, pc)
    BY <1>2 DEF Prepare
  <2> QED BY <1>2, <2>2, <2>3 DEF Prepare, IsMerged
<1>3. CASE CheckBeforeTests(r) \/ CheckBeforeAttempt(r) \/ SpawnTests(r) \/ Catch(r)
  <2>1. UNCHANGED <<work, merged, status>>
    BY <1>3 DEF CheckBeforeTests, CheckBeforeAttempt, SpawnTests, Catch
  <2>2. \/ \E pc \in {"cancel", "check", "catch", "catchCancel", "catchFail"} : Goto(r, pc)
        \/ workerPc[r] = "spawn" /\ Goto(r, "testing")
        \/ workerPc[r] = "check" /\ ~CancelSeen(r) /\ Goto(r, "spawn")
    BY <1>3 DEF CheckBeforeTests, CheckBeforeAttempt, SpawnTests, Catch, AfterCatch
  <2> QED BY <2>1, <2>2 DEF IsMerged
<1>4. CASE TestsClose(r)
  <2>1. PICK c \in BOOLEAN : /\ c => ~work[r].killed
                             /\ work' = [work EXCEPT ![r] = [work[r] EXCEPT !.passed = c]]
    BY <1>4 DEF TestsClose
  <2>2. work'[r].killed = work[r].killed /\ work'[r].passed = c
    BY <1>0, <2>1 DEF Work
  <2>3. UNCHANGED merged /\ Goto(r, "record") /\ workerPc[r] = "testing"
    BY <1>4 DEF TestsClose
  <2> QED BY <2>1, <2>2, <2>3 DEF IsMerged
<1>5. CASE RecordAttempt(r)
  <2>1. \/ Goto(r, "check")
        \/ work[r].passed /\ Goto(r, "publish")
        \/ Goto(r, "decide")
    BY <1>5 DEF RecordAttempt
  <2>2. work'[r].killed = work[r].killed
    BY <1>0, <1>5 DEF RecordAttempt, Work
  <2>3. UNCHANGED merged /\ workerPc[r] = "record"
    BY <1>5 DEF RecordAttempt
  <2> QED BY <2>1, <2>2, <2>3 DEF IsMerged
<1>6. CASE Publish(r)
  <2>1. work'[r].killed = work[r].killed
    BY <1>0, <1>6 DEF Publish, Work
  <2>2. workerPc[r] = "publish" /\ \E pc \in {"decide", "catch"} : Goto(r, pc)
    BY <1>6 DEF Publish
  <2> QED BY <2>1, <2>2
<1>7. CASE FinalizeConflict(r) \/ FinalizeCancelled(r) \/ FinalizeError(r) \/ FinalizeDecided(r)
  <2>1. \E pc \in {"notifyConflict", "notifyFailure", "cleanup"} : Goto(r, pc)
    BY <1>7 DEF FinalizeConflict, FinalizeCancelled, FinalizeError, FinalizeDecided
  <2>2. UNCHANGED <<merged, work>>
    BY <1>7 DEF FinalizeConflict, FinalizeCancelled, FinalizeError, FinalizeDecided, Finalize
  <2> QED BY <2>1, <2>2 DEF IsMerged
<1>8. CASE NotifyConflict(r) \/ NotifyFailure(r) \/ TryFault(r) \/ CatchFault(r)
  <2>1. \E pc \in {"cleanup", "catch", "rethrow"} : Goto(r, pc)
    BY <1>8 DEF NotifyConflict, NotifyFailure, TryFault, CatchFault
  <2>2. UNCHANGED <<merged, work>>
    BY <1>8 DEF NotifyConflict, NotifyFailure, TryFault, CatchFault
  <2> QED BY <2>1, <2>2 DEF IsMerged
<1>9. CASE Cleanup(r)
  <2>1. work'[r].killed = FALSE /\ UNCHANGED merged /\ Goto(r, "none")
    BY <1>0, <1>9 DEF Cleanup, NoWork
  <2> QED BY <2>1 DEF IsMerged
<1> QED BY <1>1, <1>2, <1>3, <1>4, <1>5, <1>6, <1>7, <1>8, <1>9 DEF Process

\* The processing of one run does not touch the local variables of another.
LEMMA ActivityWork ==
  ASSUME TypeOK, NEW s \in Runs, Process(s) \/ TryFault(s) \/ CatchFault(s), NEW r \in Runs \ {s}
  PROVE  work'[r] = work[r]
<1> USE DEF storeVars, runVars
<1>0. work \in [Runs -> Work]
  BY DEF TypeOK, WorkerTypeOK
<1>1. CASE Prepare(s)
  <2>1. \/ work' = work
        \/ \E c \in BOOLEAN : work' = [work EXCEPT ![s] =
                             [work[s] EXCEPT !.base = merged[work[s].target], !.changes = c]]
    BY <1>1 DEF Prepare
  <2> QED BY <1>0, <2>1
<1>2. CASE LoadProject(s) \/ TestsClose(s) \/ RecordAttempt(s) \/ Publish(s) \/ Cleanup(s)
  BY <1>0, <1>2 DEF LoadProject, TestsClose, RecordAttempt, Publish, Cleanup
<1>3. CASE \/ FinalizeConflict(s) \/ NotifyConflict(s) \/ CheckBeforeTests(s)
           \/ CheckBeforeAttempt(s) \/ SpawnTests(s) \/ FinalizeDecided(s) \/ NotifyFailure(s)
           \/ FinalizeCancelled(s) \/ Catch(s) \/ FinalizeError(s) \/ TryFault(s) \/ CatchFault(s)
  BY <1>3 DEF FinalizeConflict, NotifyConflict, CheckBeforeTests, CheckBeforeAttempt, SpawnTests,
     FinalizeDecided, NotifyFailure, FinalizeCancelled, Catch, FinalizeError, TryFault, CatchFault
<1> QED BY <1>1, <1>2, <1>3 DEF Process

\* Every other step affects a run as OtherStep says.
LEMMA OtherProgress ==
  ASSUME TypeOK, [Next]_vars, NEW r \in Runs, ~(Process(r) \/ TryFault(r) \/ CatchFault(r))
  PROVE  OtherStep(r)
<1> USE DEF storeVars, runVars, OtherStep
<1>0. work \in [Runs -> Work] /\ workerPc \in [Runs -> WorkerPc]
  BY DEF TypeOK, WorkerTypeOK
<1>1. CASE UNCHANGED <<merged, workerPc, work>>
  BY <1>1 DEF IsMerged
<1>2. CASE QueueStep /\ UNCHANGED <<workerVars, cancelVars>>
  <2>1. UNCHANGED merged
    BY <1>2 DEF QueueStep, CallEnqueue, Dedupe, CountQueued, DrawSequence, InsertRun,
       EnqueueFault, PruneFind, PruneDelete
  <2> QED BY <1>1, <1>2, <2>1 DEF workerVars
<1>3. CASE ClaimStep \/ ClaimFault
  <2>1. CASE ClaimRun
    <3>1. PICK s \in Runs : status[s] = "QUEUED" /\ workerPc' = [workerPc EXCEPT ![s] = "claimed"]
      BY <2>1 DEF ClaimRun, Claimable, Queued, Having
    <3>2. UNCHANGED <<merged, work>>
      BY <2>1 DEF ClaimRun
    <3> QED BY <1>0, <3>1, <3>2 DEF IsMerged
  <2>2. CASE StartProcessing
    <3>1. workerPc'[r] = IF workerPc[r] = "claimed" THEN "load" ELSE workerPc[r]
      BY <2>2 DEF StartProcessing
    <3> QED BY <2>2, <3>1 DEF StartProcessing, IsMerged
  <2>3. CASE Tick \/ CountRunning \/ StopClaiming \/ ClaimFault
    BY <1>1, <2>3 DEF Tick, CountRunning, StopClaiming, ClaimFault, unclaimed
  <2> QED BY <1>3, <2>1, <2>2, <2>3 DEF ClaimStep
<1>4. ASSUME NEW s \in Runs, Process(s) \/ TryFault(s) \/ CatchFault(s) PROVE OtherStep(r)
  BY <1>4, ActivityFrame, ActivityWork DEF LeavesAlone
<1>5. CASE ControlStep /\ UNCHANGED queueVars
  <2>1. ASSUME NEW c \in Cancels, Abort(c) PROVE OtherStep(r)
    <3>1. UNCHANGED <<merged, workerPc>> /\ cancelPc[c] = "abort"
      BY <2>1 DEF Abort
    <3>2. CASE work' = work
      BY <1>1, <3>1, <3>2
    <3>3. CASE /\ workerPc[cancelRun[c]] = "testing"
               /\ work' = [work EXCEPT ![cancelRun[c]].killed = TRUE]
      <4>1. CASE cancelRun[c] = r
        <5>1. work'[r] = [work[r] EXCEPT !.killed = TRUE] /\ work[r] \in Work
          BY <1>0, <3>3, <4>1
        <5>2. work'[r].passed = work[r].passed /\ work'[r].killed
          BY <5>1 DEF Work
        <5> QED BY <3>1, <3>3, <4>1, <5>2 DEF IsMerged
      <4>2. CASE cancelRun[c] # r
        BY <1>0, <3>1, <3>3, <4>2 DEF IsMerged
      <4> QED BY <4>1, <4>2
    <3> QED BY <2>1, <3>2, <3>3 DEF Abort
  <2>2. ASSUME NEW c \in Cancels,
               (\E s \in Runs : ReadForCancel(c, s)) \/ SaveCancelled(c) \/ SaveRequest(c)
                 \/ CancelFault(c)
        PROVE  OtherStep(r)
    BY <1>1, <2>2 DEF ReadForCancel, SaveCancelled, SaveRequest, CancelFault, workerVars
  <2> QED BY <1>5, <2>1, <2>2 DEF ControlStep
<1>6. CASE Crash \/ UnhandledRejection
  BY <1>6 DEF Crash, UnhandledRejection, ExitAndRestart, WorkerReset, NoWork, IsMerged
<1>7. CASE UNCHANGED vars \/ \E p \in Projects, b \in Branches : UpdateProject(p, b)
  BY <1>1, <1>7 DEF UpdateProject, vars, workerVars
<1> QED BY <1>2, <1>3, <1>4, <1>5, <1>6, <1>7 DEF Next, WorkerStep

\* A flag that was saved stays.
LEMMA FlagStays ==
  ASSUME TypeOK, [Next]_vars, NEW r \in Runs, cancelRequested[r]
  PROVE  cancelRequested'[r]
<1> USE DEF storeVars, runVars
<1>1. CASE UNCHANGED cancelRequested
  BY <1>1
<1>2. ASSUME NEW c \in Cancels, SaveRequest(c) PROVE cancelRequested'[r]
  BY <1>2 DEF SaveRequest, TypeOK, StoreTypeOK
<1>3. CASE QueueStep
  BY <1>1, <1>3 DEF QueueStep, CallEnqueue, Dedupe, CountQueued, DrawSequence, InsertRun,
     EnqueueFault, PruneFind, PruneDelete
<1>4. CASE ClaimStep \/ ClaimFault
  BY <1>1, <1>4 DEF ClaimStep, Tick, CountRunning, ClaimRun, StopClaiming, StartProcessing, ClaimFault
<1>5. ASSUME NEW s \in Runs, Process(s) \/ TryFault(s) \/ CatchFault(s) PROVE cancelRequested'[r]
  BY <1>1, <1>5 DEF Process, LoadProject, Prepare, FinalizeConflict, NotifyConflict,
     CheckBeforeTests, CheckBeforeAttempt, SpawnTests, TestsClose, RecordAttempt, Publish,
     FinalizeDecided, NotifyFailure, FinalizeCancelled, Catch, FinalizeError, Cleanup, Finalize,
     TryFault, CatchFault
<1>6. CASE ControlStep
  BY <1>1, <1>2, <1>6 DEF ControlStep, ReadForCancel, SaveCancelled, Abort, CancelFault
<1>7. CASE \/ Crash \/ UnhandledRejection \/ UNCHANGED vars
           \/ \E p \in Projects, b \in Branches : UpdateProject(p, b)
  BY <1>1, <1>7 DEF Crash, UnhandledRejection, ExitAndRestart, UpdateProject, vars
<1> QED BY <1>3, <1>4, <1>5, <1>6, <1>7 DEF Next, WorkerStep

\* A step changes what a cancel call read and where it is only by an action of the call, or
\* by an exit that ends it.
LEMMA AbortStep ==
  ASSUME TypeOK, AbortInv, [Next]_vars
  PROVE  AbortInv'
<1> USE DEF storeVars, runVars
<1>0. /\ cancelRequested \in [Runs -> BOOLEAN]
      /\ cancelPc \in [Cancels -> {"idle", "saveCancelled", "saveRequest", "abort", "done"}]
      /\ cancelRun \in [Cancels -> 0..MaxSeq]
  BY DEF TypeOK, StoreTypeOK, ControlTypeOK
<1>1. ASSUME \A c \in Cancels :
               \/ cancelPc'[c] = cancelPc[c] /\ cancelRun'[c] = cancelRun[c]
               \/ cancelPc'[c] = "saveRequest" /\ cancelRun'[c] \in Runs
               \/ /\ cancelPc[c] = "saveRequest" /\ cancelPc'[c] = "abort"
                  /\ cancelRun'[c] = cancelRun[c] /\ cancelRequested'[cancelRun[c]]
               \/ cancelPc'[c] \in {"idle", "saveCancelled", "done"}
      PROVE  AbortInv'
  BY <1>1, FlagStays DEF AbortInv
<1>2. CASE ControlStep /\ UNCHANGED queueVars
  <2>1. ASSUME NEW c \in Cancels, NEW r \in Runs, ReadForCancel(c, r) PROVE AbortInv'
    <3>1. \A d \in Cancels \ {c} : cancelPc'[d] = cancelPc[d] /\ cancelRun'[d] = cancelRun[d]
      BY <1>0, <2>1 DEF ReadForCancel, CancelGoto
    <3>2. cancelPc'[c] \in {"saveCancelled", "saveRequest"} /\ cancelRun'[c] = r
      BY <1>0, <2>1 DEF ReadForCancel, CancelGoto
    <3> QED BY <1>1, <3>1, <3>2
  <2>2. ASSUME NEW c \in Cancels, SaveRequest(c) PROVE AbortInv'
    <3>1. \A d \in Cancels \ {c} : cancelPc'[d] = cancelPc[d] /\ cancelRun'[d] = cancelRun[d]
      BY <1>0, <2>2 DEF SaveRequest, CancelGoto, CancelReturn
    <3>2. cancelRun[c] \in Runs /\ cancelPc[c] = "saveRequest"
      BY <2>2 DEF SaveRequest, AbortInv
    <3>3. \/ cancelPc'[c] = "done"
          \/ cancelPc'[c] = "abort" /\ cancelRun'[c] = cancelRun[c] /\ cancelRequested'[cancelRun[c]]
      BY <1>0, <2>2, <3>2 DEF SaveRequest, CancelGoto, CancelReturn
    <3> QED BY <1>1, <3>1, <3>2, <3>3
  <2>3. ASSUME NEW c \in Cancels, SaveCancelled(c) \/ Abort(c) \/ CancelFault(c) PROVE AbortInv'
    <3>1. CancelReturn(c)
      BY <2>3 DEF SaveCancelled, Abort, CancelFault
    <3>2. \A d \in Cancels \ {c} : cancelPc'[d] = cancelPc[d] /\ cancelRun'[d] = cancelRun[d]
      BY <1>0, <3>1 DEF CancelGoto, CancelReturn
    <3>3. cancelPc'[c] = "done"
      BY <1>0, <3>1 DEF CancelGoto, CancelReturn
    <3> QED BY <1>1, <3>2, <3>3
  <2> QED BY <1>2, <2>1, <2>2, <2>3 DEF ControlStep
<1>3. CASE Crash \/ UnhandledRejection
  BY <1>1, <1>3 DEF Crash, UnhandledRejection, ExitAndRestart, ControlReset
<1>4. CASE UNCHANGED cancelVars
  BY <1>1, <1>4 DEF cancelVars
<1>5. CASE UNCHANGED vars \/ \E p \in Projects, b \in Branches : UpdateProject(p, b)
  BY <1>4, <1>5 DEF UpdateProject, vars
<1> QED BY <1>2, <1>3, <1>4, <1>5 DEF Next

\* The tests that were killed stay killed for the merge.
LEMMA KilledStep ==
  ASSUME TypeOK, TypeOK', OutcomeInv, CancelInv, LStep, [Next]_vars
  PROVE  KilledInv'
<1> SUFFICES ASSUME NEW r \in Runs, work'[r].killed
             PROVE  /\ cancelRequested'[r]
                    /\ workerPc'[r] \notin {"none", "publish"}
                    /\ workerPc'[r] = "record" => ~work'[r].passed
                    /\ Present(r)' => workerPc'[r] # "spawn"
  BY DEF KilledInv
<1>1. CASE Process(r) \/ TryFault(r) \/ CatchFault(r)
  <2>1. OwnStep(r)
    BY <1>1, OwnProgress
  <2>2. work[r].killed /\ workerPc'[r] # "none"
    BY <2>1 DEF OwnStep
  <2>3. cancelRequested[r] /\ cancelRequested'[r]
    BY <2>2, FlagStays DEF CancelInv, KilledInv
  <2> QED BY <2>1, <2>2, <2>3 DEF OwnStep, CancelInv, KilledInv, CancelSeen, Present
<1>2. CASE OtherStep(r)
  <2>1. CASE status[r] = "QUEUED" /\ workerPc'[r] = "claimed" /\ work'[r] = work[r]
    BY <2>1 DEF CancelInv, KilledInv, OutcomeInv, LifeOf, Life
  <2>2. CASE /\ workerPc'[r] = workerPc[r] /\ workerPc[r] = "testing"
             /\ \E c \in Cancels : cancelPc[c] = "abort" /\ cancelRun[c] = r
    BY <2>2, FlagStays DEF CancelInv, AbortInv
  <2>3. CASE workerPc[r] = "claimed" /\ workerPc'[r] = "load" /\ work'[r] = work[r]
    BY <2>3, FlagStays DEF CancelInv, KilledInv
  <2>4. CASE workerPc'[r] = workerPc[r] /\ work'[r] = work[r]
    <3>1. cancelRequested[r] /\ cancelRequested'[r] /\ workerPc[r] \notin {"none", "publish"}
      BY <2>4, FlagStays DEF CancelInv, KilledInv
    <3>2. Present(r)' => Present(r)
      BY <3>1, PresenceStep, PresentSpent DEF Fresh
    <3> QED BY <2>4, <3>1, <3>2 DEF CancelInv, KilledInv
  <2> QED BY <1>2, <2>1, <2>2, <2>3, <2>4 DEF OtherStep
<1> QED BY <1>1, <1>2, OtherProgress

\* What the processing of a run that a cancel has hold of comes to.
LEMMA HeldStep ==
  ASSUME TypeOK, TypeOK', OutcomeInv, LStep, [Next]_vars, NEW r \in Runs, Held(r)
  PROVE  Held(r)'
<1>1. r \in Spent' /\ (Present(r)' => Present(r))
  BY PresenceStep DEF Held
<1>2. SUFFICES ASSUME Present(r), Present(r)'
               PROVE  /\ cancelRequested'[r] /\ status'[r] # "QUEUED" /\ ~IsMerged(r)'
                      /\ workerPc'[r] \notin {"spawn", "publish"}
                      /\ workerPc'[r] = "testing" => work'[r].killed
                      /\ workerPc'[r] = "record" => ~work'[r].passed
  BY <1>1 DEF Held
<1>3. cancelRequested[r] /\ cancelRequested'[r]
  BY <1>2, FlagStays DEF Held
<1>4. status'[r] # "QUEUED"
  BY <1>2, PresenceStep DEF Held, Present
<1>5. CASE Process(r) \/ TryFault(r) \/ CatchFault(r)
  <2>1. OwnStep(r)
    BY <1>5, OwnProgress
  <2> QED BY <1>2, <1>3, <1>4, <2>1 DEF OwnStep, Held, CancelSeen
<1>6. CASE OtherStep(r)
  BY <1>2, <1>3, <1>4, <1>6 DEF OtherStep, Held
<1> QED BY <1>5, <1>6, OtherProgress

\* CancelInv is an invariant.
LEMMA CancelInvariant == Spec => []CancelInv
<1>1. Init => CancelInv
  BY DEF Init, WorkerInit, ControlInit, NoWork, CancelInv, KilledInv, AbortInv
<1>2. TypeOK /\ TypeOK' /\ OutcomeInv /\ ClaimBudget /\ CancelInv /\ [Next]_vars => CancelInv'
  BY LifecycleStep, AbortStep, KilledStep DEF CancelInv
<1> QED BY <1>1, <1>2, TypeCorrect, OutcomeInvariant, ClaimBudgetInvariant, PTL DEF Spec

\* A cancel that was saved before the attempt's check, or that killed the tests, keeps the
\* run off the target branch as long as its document exists, whatever fails, exits or is
\* deleted meanwhile (worker.ts:147-164, :202-215).
THEOREM CancelKept == Spec => CancelledStaysUnmerged
<1> SUFFICES ASSUME NEW r \in Runs
             PROVE  Spec => [](CancelTookHold(r) /\ ~IsMerged(r) =>
                                 [](Present(r) => ~IsMerged(r)))
  BY DEF CancelledStaysUnmerged
<1>1. TypeOK /\ OutcomeInv /\ CancelInv /\ CancelTookHold(r) /\ ~IsMerged(r) => Held(r)
  <2> SUFFICES ASSUME TypeOK, OutcomeInv, CancelInv, CancelTookHold(r), ~IsMerged(r)
               PROVE  Held(r)
    OBVIOUS
  <2>1. workerPc[r] # "none"
    BY DEF CancelTookHold, BeforeSpawn, CancelInv, KilledInv
  <2>2. r \in Spent
    BY <2>1, PresentSpent DEF Fresh
  <2>3. status[r] # "QUEUED"
    BY <2>1 DEF OutcomeInv, LifeOf, Life
  <2> QED BY <2>2, <2>3 DEF Held, CancelTookHold, BeforeSpawn, CancelInv, KilledInv
<1>2. Held(r) => (Present(r) => ~IsMerged(r))
  BY DEF Held
<1>3. TypeOK /\ TypeOK' /\ OutcomeInv /\ ClaimBudget /\ Held(r) /\ [Next]_vars => Held(r)'
  BY LifecycleStep, HeldStep
<1> QED
  BY <1>1, <1>2, <1>3, TypeCorrect, OutcomeInvariant, ClaimBudgetInvariant, CancelInvariant, PTL
     DEF Spec

-----------------------------------------------------------------------------
(* Retention.                                                              *)

\* The runs of the same project that come after run s.
Newer(s) == {t \in RunsOf(details[s].project) : t > s}

\* The ids a job has read are not reused, and what it is about to delete is outdated
\* whatever other jobs delete and other calls insert before it does.
SoonGone == \A j \in Runs : \A s \in pruneIds[j] :
    s \in Spent /\ (Present(s) => ~Newest(s, Retention))

\* A set of runs has a greatest one.
LEMMA GreatestRun ==
  ASSUME NEW S \in SUBSET Runs, S # {}
  PROVE  \E m \in S : \A k \in S : k <= m
<1> DEFINE Above(x) == {y \in S : y > x}
           T == {Above(x) : x \in S}
<1>1. T \subseteq FiniteSubsetsOf(Runs) /\ T # {}
  <2>1. \A x \in S : IsFiniteSet(Above(x)) /\ Above(x) \subseteq Runs
    BY RunsFinite, FS_Subset
  <2>2. \A x \in S : Above(x) \in FiniteSubsetsOf(Runs)
    <3> HIDE DEF Above
    <3> QED BY <2>1 DEF FiniteSubsetsOf
  <2>3. PICK x \in S : TRUE
    OBVIOUS
  <2>4. Above(x) \in T
    BY <2>3
  <2> HIDE DEF Above
  <2> QED BY <2>2, <2>4
<1>2. PICK D \in T : \A E \in T : <<E, D>> \notin StrictSubsetOrdering(Runs)
  BY <1>1, FS_StrictSubsetOrderingWellFounded, WFMin
<1>3. PICK m \in S : D = Above(m)
  BY <1>2
<1>4. ASSUME NEW k \in S, k > m PROVE FALSE
  <2>1. Above(k) \subseteq Above(m) /\ Above(k) # Above(m)
    <3>1. k \in Above(m) /\ k \notin Above(k)
      BY <1>4 DEF Runs
    <3>2. \A y \in S : y > k => y > m
      BY <1>4 DEF Runs
    <3> QED BY <3>1, <3>2
  <2>2. Above(k) \in T /\ Above(m) \subseteq Runs /\ Above(k) \subseteq Runs
    OBVIOUS
  <2>3. <<Above(k), D>> \in StrictSubsetOrdering(Runs)
    BY <1>3, <2>1, <2>2 DEF StrictSubsetOrdering
  <2> QED BY <1>2, <2>2, <2>3
<1> QED BY <1>4 DEF Runs

\* The count of newer runs is a number that grows with the set.
LEMMA NewerCard ==
  ASSUME NEW s \in Runs
  PROVE  /\ Newer(s) \in SUBSET Runs /\ IsFiniteSet(Newer(s)) /\ Cardinality(Newer(s)) \in Nat
         /\ ~Newest(s, Retention) <=> Cardinality(Newer(s)) >= Retention
         /\ \A S \in SUBSET Newer(s) : Cardinality(S) >= Retention => ~Newest(s, Retention)
<1>1. Newer(s) \in SUBSET Runs
  BY DEF Newer, RunsOf
<1>2. IsFiniteSet(Newer(s)) /\ Cardinality(Newer(s)) \in Nat
  BY <1>1, RunsFinite, SubsetCard
<1>3. ~Newest(s, Retention) <=> Cardinality(Newer(s)) >= Retention
  BY <1>2 DEF Newest, Newer
<1>4. \A S \in SUBSET Newer(s) : Cardinality(S) \in Nat /\ Cardinality(S) <= Cardinality(Newer(s))
  BY <1>2, SubsetCard
<1> QED BY <1>1, <1>2, <1>3, <1>4

\* The details of a document are written once.
LEMMA DetailsStay ==
  ASSUME TypeOK, OutcomeInv, [Next]_vars, NEW r \in Runs, Present(r)
  PROVE  details'[r] = details[r]
<1> USE DEF storeVars, runVars
<1>1. ASSUME NEW q \in Callers, InsertRun(q) PROVE details'[r] = details[r]
  <2>1. callSeq[q] # r /\ details' = [details EXCEPT ![callSeq[q]] = call[q]]
    BY <1>1 DEF InsertRun, OutcomeInv, NumbersFresh, FreshRuns, Fresh, Present
  <2> QED BY <2>1 DEF TypeOK, StoreTypeOK
<1>2. CASE QueueStep
  BY <1>1, <1>2 DEF QueueStep, CallEnqueue, Dedupe, CountQueued, DrawSequence,
     EnqueueFault, PruneFind, PruneDelete
<1>3. CASE ClaimStep \/ ClaimFault
  BY <1>3 DEF ClaimStep, Tick, CountRunning, ClaimRun, StopClaiming, StartProcessing, ClaimFault
<1>4. ASSUME NEW s \in Runs, Process(s) \/ TryFault(s) \/ CatchFault(s) PROVE UNCHANGED details
  BY <1>4 DEF Process, LoadProject, Prepare, FinalizeConflict, NotifyConflict,
     CheckBeforeTests, CheckBeforeAttempt, SpawnTests, TestsClose, RecordAttempt, Publish,
     FinalizeDecided, NotifyFailure, FinalizeCancelled, Catch, FinalizeError, Cleanup, Finalize,
     TryFault, CatchFault
<1>5. CASE ControlStep
  BY <1>5 DEF ControlStep, ReadForCancel, SaveCancelled, SaveRequest, Abort, CancelFault
<1>6. CASE \/ Crash \/ UnhandledRejection \/ UNCHANGED vars
           \/ \E p \in Projects, b \in Branches : UpdateProject(p, b)
  BY <1>6 DEF Crash, UnhandledRejection, ExitAndRestart, UpdateProject, vars
<1> QED BY <1>2, <1>3, <1>4, <1>5, <1>6 DEF Next, WorkerStep

\* Only the retention job deletes.
LEMMA OnlyRetentionDeletes ==
  ASSUME TypeOK, [Next]_vars, ~(\E j \in Runs : PruneDelete(j)), NEW r \in Runs, Present(r)
  PROVE  Present(r)'
<1> USE DEF storeVars, runVars, Present
<1>0. status \in [Runs -> Status \cup {"ABSENT"}]
  BY DEF TypeOK, StoreTypeOK
<1>1. CASE UNCHANGED status
  BY <1>1
<1>2. CASE QueueStep
  <2>1. ASSUME NEW q \in Callers, InsertRun(q) PROVE Present(r)'
    BY <1>0, <2>1 DEF InsertRun
  <2> QED BY <1>1, <1>2, <2>1 DEF QueueStep, CallEnqueue, Dedupe, CountQueued, DrawSequence,
             EnqueueFault, PruneFind
<1>3. CASE ClaimStep \/ ClaimFault
  <2>1. CASE ClaimRun
    BY <1>0, <2>1 DEF ClaimRun, Claimable, Queued, Having
  <2> QED BY <1>1, <1>3, <2>1 DEF ClaimStep, Tick, CountRunning, StopClaiming, StartProcessing,
             ClaimFault
<1>4. ASSUME NEW s \in Runs, Process(s) \/ TryFault(s) \/ CatchFault(s) PROVE Present(r)'
  <2>1. CASE FinalizeConflict(s) \/ FinalizeCancelled(s) \/ FinalizeError(s) \/ FinalizeDecided(s)
    <3>1. \E outcome \in Terminal : Finalize(s, outcome)
      BY <2>1 DEF FinalizeConflict, FinalizeCancelled, FinalizeError, FinalizeDecided,
         FinalStatus, Terminal
    <3> QED BY <3>1, FinalizeEffect DEF Terminal
  <2>2. CASE \/ LoadProject(s) \/ Prepare(s) \/ NotifyConflict(s) \/ CheckBeforeTests(s)
             \/ CheckBeforeAttempt(s) \/ SpawnTests(s) \/ TestsClose(s) \/ RecordAttempt(s)
             \/ Publish(s) \/ NotifyFailure(s) \/ Catch(s) \/ Cleanup(s)
             \/ TryFault(s) \/ CatchFault(s)
    BY <1>1, <2>2 DEF LoadProject, Prepare, NotifyConflict, CheckBeforeTests, CheckBeforeAttempt,
       SpawnTests, TestsClose, RecordAttempt, Publish, NotifyFailure, Catch, Cleanup, TryFault,
       CatchFault
  <2> QED BY <1>4, <2>1, <2>2 DEF Process
<1>5. CASE ControlStep
  <2>1. ASSUME NEW c \in Cancels, SaveCancelled(c) PROVE Present(r)'
    BY <1>0, <2>1 DEF SaveCancelled, StatusSet
  <2> QED BY <1>1, <1>5, <2>1 DEF ControlStep, ReadForCancel, SaveRequest, Abort, CancelFault
<1>6. CASE \/ Crash \/ UnhandledRejection \/ UNCHANGED vars
           \/ \E p \in Projects, b \in Branches : UpdateProject(p, b)
  BY <1>1, <1>6 DEF Crash, UnhandledRejection, ExitAndRestart, UpdateProject, vars
<1> QED BY <1>2, <1>3, <1>4, <1>5, <1>6 DEF Next, WorkerStep

\* A run that enough newer ones outrank stays outranked: of the newer ones a job deletes,
\* the newest was itself outranked by runs that the job leaves.
LEMMA OutrankedStays ==
  ASSUME TypeOK, TypeOK', OutcomeInv, SoonGone, [Next]_vars,
         NEW s \in Runs, Present(s), Present(s)', ~Newest(s, Retention)
  PROVE  ~Newest(s, Retention)'
<1>0. details'[s] = details[s]
  BY DetailsStay
<1>1. ASSUME NEW S \in SUBSET Newer(s), Cardinality(S) >= Retention,
             \A t \in S : Present(t)'
      PROVE  ~Newest(s, Retention)'
  <2>1. S \subseteq Newer(s)'
    <3> SUFFICES ASSUME NEW t \in S PROVE t \in Newer(s)'
      OBVIOUS
    <3>1. t \in Runs /\ Present(t) /\ details[t].project = details[s].project /\ t > s
      BY DEF Newer, RunsOf
    <3>2. details'[t] = details[t]
      BY <3>1, DetailsStay
    <3> QED BY <1>0, <1>1, <3>1, <3>2 DEF Newer, RunsOf
  <2>2. Newer(s)' \in SUBSET Runs /\ IsFiniteSet(Newer(s)')
    BY RunsFinite, SubsetCard DEF Newer, RunsOf
  <2>3. Cardinality(S) \in Nat /\ Cardinality(Newer(s)') \in Nat
        /\ Cardinality(S) <= Cardinality(Newer(s)')
    BY <2>1, <2>2, SubsetCard
  <2> QED BY <1>1, <2>3 DEF Newest, Newer
<1>2. Cardinality(Newer(s)) >= Retention /\ Newer(s) \in SUBSET Runs
  BY NewerCard
<1>3. CASE ~(\E j \in Runs : PruneDelete(j))
  <2>1. \A t \in Newer(s) : Present(t)'
    BY <1>3, OnlyRetentionDeletes DEF Newer, RunsOf
  <2> QED BY <1>1, <1>2, <2>1
<1>4. ASSUME NEW j \in Runs, PruneDelete(j) PROVE ~Newest(s, Retention)'
  <2>1. \A t \in Runs \ pruneIds[j] : Present(t) => Present(t)'
    BY <1>4 DEF PruneDelete, Present
  <2>2. \A t \in Newer(s) : t \in Runs /\ Present(t)
    BY DEF Newer, RunsOf
  <2>3. CASE Newer(s) \cap pruneIds[j] = {}
    BY <1>1, <1>2, <2>1, <2>2, <2>3
  <2>4. CASE Newer(s) \cap pruneIds[j] # {}
    <3>1. PICK m \in Newer(s) \cap pruneIds[j] : \A k \in Newer(s) \cap pruneIds[j] : k <= m
      BY <1>2, <2>4, GreatestRun
    <3>2. m \in Runs /\ Present(m) /\ details[m].project = details[s].project /\ m > s
      BY <3>1 DEF Newer, RunsOf
    <3>3. Cardinality(Newer(m)) >= Retention
      BY <3>1, <3>2, NewerCard DEF SoonGone
    <3>4. ASSUME NEW t \in Newer(m) PROVE t \in Newer(s) /\ t \notin pruneIds[j]
      <4>1. t \in Runs /\ Present(t) /\ details[t].project = details[m].project /\ t > m
        BY DEF Newer, RunsOf
      <4>2. t \in Newer(s)
        BY <3>2, <4>1 DEF Newer, RunsOf, Runs
      <4> QED BY <3>1, <3>2, <4>1, <4>2 DEF Runs
    <3>5. \A t \in Newer(m) : Present(t)'
      BY <2>1, <2>2, <3>4
    <3> QED BY <1>1, <3>3, <3>4, <3>5
  <2> QED BY <2>3, <2>4
<1> QED BY <1>3, <1>4

\* A step adds to the ids a job will delete only by reading them.
LEMMA PruneIdsEffect ==
  ASSUME TypeOK, [Next]_vars, NEW j \in Runs
  PROVE  pruneIds'[j] \subseteq pruneIds[j] \/ PruneFind(j)
<1> USE DEF queueVars
<1>0. pruneIds \in [Runs -> SUBSET Runs]
  BY DEF TypeOK, QueueTypeOK
<1>1. CASE QueueStep
  <2>1. ASSUME NEW r \in Runs, PruneFind(r) \/ PruneDelete(r)
        PROVE  pruneIds'[j] \subseteq pruneIds[j] \/ PruneFind(j)
    BY <1>0, <2>1 DEF PruneFind, PruneDelete
  <2> QED BY <1>1, <2>1 DEF QueueStep, CallEnqueue, Dedupe, CountQueued, DrawSequence, InsertRun,
             EnqueueFault
<1>2. CASE Crash \/ UnhandledRejection
  BY <1>2 DEF Crash, UnhandledRejection, ExitAndRestart, QueueReset
<1>3. CASE UNCHANGED queueVars
  BY <1>3
<1> QED BY <1>1, <1>2, <1>3 DEF Next, UpdateProject, vars

\* What the jobs are about to delete stays outdated.
LEMMA SoonGoneStep ==
  ASSUME TypeOK, TypeOK', OutcomeInv, LStep, SoonGone, [Next]_vars
  PROVE  SoonGone'
<1> SUFFICES ASSUME NEW j \in Runs, NEW s \in pruneIds'[j]
             PROVE  s \in Spent' /\ (Present(s)' => ~Newest(s, Retention)')
  BY DEF SoonGone
<1>0. s \in Runs /\ pruneIds[j] \subseteq Runs
  BY DEF TypeOK, QueueTypeOK
<1>1. CASE pruneIds'[j] \subseteq pruneIds[j]
  <2>1. s \in Spent /\ (Present(s) => ~Newest(s, Retention))
    BY <1>1 DEF SoonGone
  <2>2. s \in Spent' /\ (Present(s)' => Present(s))
    BY <1>0, <2>1, PresenceStep
  <2> QED BY <1>0, <2>1, <2>2, OutrankedStays
<1>2. CASE PruneFind(j)
  <2>1. s \in Outdated(details[j].project)
    BY <1>2 DEF PruneFind, TypeOK, QueueTypeOK
  <2>2. Present(s) /\ ~Newest(s, Retention)
    BY <2>1 DEF Outdated, RunsOf
  <2>3. s \in Spent
    BY <1>0, <2>2, PresentSpent DEF Fresh, Present
  <2> QED BY <1>0, <2>2, <2>3, PresenceStep, OutrankedStays
<1> QED BY <1>1, <1>2, PruneIdsEffect

\* SoonGone is an invariant.
LEMMA SoonGoneInvariant == Spec => []SoonGone
<1>1. Init => SoonGone
  BY DEF Init, QueueInit, SoonGone
<1>2. TypeOK /\ TypeOK' /\ OutcomeInv /\ ClaimBudget /\ SoonGone /\ [Next]_vars => SoonGone'
  BY LifecycleStep, SoonGoneStep
<1> QED BY <1>1, <1>2, TypeCorrect, OutcomeInvariant, ClaimBudgetInvariant, PTL DEF Spec

\* No retention job deletes one of the newest Retention runs of a project, although it works
\* on ids it read earlier and overlaps inserts and other jobs (retention.ts:4-16).
THEOREM NewestRunsKept == Spec => PruneKeepsNewest
<1>1. TypeOK /\ SoonGone /\ [Next]_vars =>
        [\A r \in Runs : Present(r) /\ Newest(r, Retention) => Present(r)']_vars
  <2> SUFFICES ASSUME TypeOK, SoonGone, [Next]_vars, NEW r \in Runs, Present(r),
                      Newest(r, Retention)
               PROVE  Present(r)'
    OBVIOUS
  <2>1. ASSUME NEW j \in Runs, PruneDelete(j) PROVE Present(r)'
    BY <2>1 DEF PruneDelete, SoonGone, Present
  <2> QED BY <2>1, OnlyRetentionDeletes
<1> QED BY <1>1, TypeCorrect, SoonGoneInvariant, PTL DEF Spec, PruneKeepsNewest

-----------------------------------------------------------------------------
(* Active runs of one commit.                                              *)

\* Finitely many runs and calls are counted.
LEMMA DuplicatesFinite ==
  ASSUME NEW d
  PROVE  /\ Duplicates(d) \in SUBSET Runs /\ IsFiniteSet(Duplicates(d))
         /\ Cardinality(Duplicates(d)) \in Nat
         /\ Cleared(d) \in SUBSET Callers /\ IsFiniteSet(Cleared(d))
         /\ Cardinality(Cleared(d)) \in Nat /\ Cardinality(Cleared(d)) <= Cardinality(Callers)
         /\ Cardinality(Callers) \in Nat
<1>1. Duplicates(d) \in SUBSET Runs /\ Cleared(d) \in SUBSET Callers
  BY DEF Duplicates, Queued, Running, Having, Cleared
<1> QED BY <1>1, RunsFinite, SubsetCard

\* Only an insertion makes a run active.
LEMMA ActiveStep ==
  ASSUME TypeOK, OutcomeInv, [Next]_vars, ~(\E q \in Callers : InsertRun(q))
  PROVE  \A r \in Active' : r \in Active /\ details'[r] = details[r]
<1>1. \A r \in Active' : r \in Active /\ r \in Runs
  <2>1. CASE NoNewRunning /\ NoNewQueued
    BY <2>1 DEF NoNewRunning, NoNewQueued, Active, Queued, Running, Having
  <2>2. CASE ClaimRun
    BY <2>2 DEF ClaimRun, Claimable, Active, Queued, Running, Having, TypeOK, StoreTypeOK
  <2> QED BY <2>1, <2>2, StatusEffect
<1>2. \A r \in Active : Present(r)
  BY DEF Active, Queued, Running, Having, Present
<1> QED BY <1>1, <1>2, DetailsStay

\* A call for a commit gets past the search for duplicates only by finding none.
LEMMA ClearedStep ==
  ASSUME TypeOK, [Next]_vars, NEW d, d.commit # NoCommit
  PROVE  Cleared(d)' \subseteq Cleared(d) \/ Duplicates(d) = {}
<1> USE DEF queueVars
<1>0. callPc \in [Callers -> CallPc] /\ call \in [Callers -> RunDetails]
  BY DEF TypeOK, QueueTypeOK
<1>1. ASSUME NEW q \in Callers, Dedupe(q) PROVE Cleared(d)' \subseteq Cleared(d) \/ Duplicates(d) = {}
  <2>1. CASE Return(q)
    BY <1>0, <2>1 DEF Return, Cleared
  <2>2. CASE /\ ~(\E r \in Active : SameSource(r, call[q]))
             /\ callPc' = [callPc EXCEPT ![q] = "count"] /\ UNCHANGED <<call, callSeq>>
    <3>1. CASE call[q].project = d.project /\ call[q].commit = d.commit
      BY <2>2, <3>1 DEF Duplicates, Active, SameSource
    <3>2. CASE ~(call[q].project = d.project /\ call[q].commit = d.commit)
      BY <1>0, <2>2, <3>2 DEF Cleared
    <3> QED BY <3>1, <3>2
  <2> QED BY <1>1, <2>1, <2>2 DEF Dedupe
<1>2. ASSUME NEW q \in Callers, NEW p \in Projects, NEW c \in Sources, CallEnqueue(q, p, c)
      PROVE  Cleared(d)' \subseteq Cleared(d)
  <2>1. \A o \in Callers \ {q} : callPc'[o] = callPc[o] /\ call'[o] = call[o]
    BY <1>0, <1>2 DEF CallEnqueue
  <2>2. q \notin Cleared(d)'
    <3>1. call'[q].commit = c /\ callPc'[q] = IF c = NoCommit THEN "count" ELSE "dedupe"
      BY <1>0, <1>2 DEF CallEnqueue
    <3> QED BY <3>1 DEF Cleared
  <2> QED BY <2>1, <2>2 DEF Cleared
<1>3. ASSUME NEW q \in Callers, CountQueued(q) \/ DrawSequence(q) \/ InsertRun(q) \/ EnqueueFault(q)
      PROVE  Cleared(d)' \subseteq Cleared(d)
  <2>1. \A o \in Callers \ {q} : callPc'[o] = callPc[o] /\ call'[o] = call[o]
    BY <1>0, <1>3 DEF CountQueued, DrawSequence, InsertRun, EnqueueFault, Return
  <2>2. \/ callPc'[q] = "idle"
        \/ callPc[q] \in {"count", "seq"} /\ call'[q] = call[q]
    BY <1>0, <1>3 DEF CountQueued, DrawSequence, InsertRun, EnqueueFault, Return
  <2> QED BY <2>1, <2>2 DEF Cleared
<1>4. CASE UNCHANGED <<callPc, call>>
  BY <1>4 DEF Cleared
<1>5. ASSUME NEW r \in Runs, PruneFind(r) \/ PruneDelete(r) PROVE UNCHANGED <<callPc, call>>
  BY <1>5 DEF PruneFind, PruneDelete
<1>6. CASE Crash \/ UnhandledRejection
  BY <1>6 DEF Crash, UnhandledRejection, ExitAndRestart, QueueReset, Cleared
<1> QED BY <1>1, <1>2, <1>3, <1>4, <1>5, <1>6 DEF Next, QueueStep, UpdateProject, vars

\* An insertion adds the run of a call that is done with it.
LEMMA InsertDuplicate ==
  ASSUME TypeOK, OutcomeInv, DuplicateBound, NEW q \in Callers, InsertRun(q),
         NEW d \in RunDetails, d.commit # NoCommit
  PROVE  (Cardinality(Duplicates(d)) + Cardinality(Cleared(d)) <= Cardinality(Callers))'
<1> DEFINE r == callSeq[q]
<1>0. /\ callPc \in [Callers -> CallPc] /\ call \in [Callers -> RunDetails]
      /\ status \in [Runs -> Status \cup {"ABSENT"}] /\ details \in [Runs -> RunDetails]
  BY DEF TypeOK, StoreTypeOK, QueueTypeOK
<1>1. r \in Runs
  BY DEF InsertRun, OutcomeInv, NumbersFresh, FreshRuns
<1>2. \A s \in Runs \ {r} : status'[s] = status[s] /\ details'[s] = details[s]
  BY <1>0 DEF InsertRun
<1>3. details'[r] = call[q]
  BY <1>0, <1>1 DEF InsertRun
<1>4. Cleared(d)' \subseteq Cleared(d) \ {q}
  <2>1. callPc'[q] = "idle"
    BY <1>0 DEF InsertRun, Return
  <2>2. \A o \in Callers \ {q} : callPc'[o] = callPc[o] /\ call'[o] = call[o]
    BY <1>0 DEF InsertRun, Return
  <2> QED BY <2>1, <2>2 DEF Cleared
<1>5. Duplicates(d)' \subseteq Duplicates(d) \cup {r}
  BY <1>2 DEF Duplicates, Queued, Running, Having, SameSource
<1>6. Cardinality(Duplicates(d)) + Cardinality(Cleared(d)) <= Cardinality(Callers)
  BY DEF DuplicateBound
<1>7. CASE q \in Cleared(d)
  <2>1. Cardinality(Duplicates(d)') \in Nat /\ Cardinality(Duplicates(d)') <= Cardinality(Duplicates(d)) + 1
    BY <1>5, DuplicatesFinite, AddCard
  <2>2. Cardinality(Cleared(d)') \in Nat /\ Cardinality(Cleared(d)') <= Cardinality(Cleared(d)) - 1
    BY <1>4, <1>7, DuplicatesFinite, DropCard
  <2> QED BY <1>6, <2>1, <2>2, DuplicatesFinite
<1>8. CASE q \notin Cleared(d)
  <2>1. ~(call[q].project = d.project /\ call[q].commit = d.commit)
    BY <1>8 DEF Cleared, InsertRun
  <2>2. Duplicates(d)' \subseteq Duplicates(d)
    BY <1>3, <1>5, <2>1 DEF Duplicates, SameSource
  <2>3. Cardinality(Duplicates(d)') \in Nat /\ Cardinality(Duplicates(d)') <= Cardinality(Duplicates(d))
    BY <2>2, DuplicatesFinite, SubsetCard
  <2>4. Cardinality(Cleared(d)') \in Nat /\ Cardinality(Cleared(d)') <= Cardinality(Cleared(d))
    BY <1>4, DuplicatesFinite, SubsetCard
  <2> QED BY <1>6, <2>3, <2>4, DuplicatesFinite
<1> QED BY <1>7, <1>8

\* Every step keeps the bound.
LEMMA DuplicateStep ==
  ASSUME TypeOK, OutcomeInv, DuplicateBound, [Next]_vars
  PROVE  DuplicateBound'
<1> SUFFICES ASSUME NEW d \in RunDetails, d.commit # NoCommit
             PROVE  (Cardinality(Duplicates(d)) + Cardinality(Cleared(d)) <= Cardinality(Callers))'
  BY DEF DuplicateBound, RunDetails
<1>1. ASSUME NEW q \in Callers, InsertRun(q)
      PROVE  (Cardinality(Duplicates(d)) + Cardinality(Cleared(d)) <= Cardinality(Callers))'
  BY <1>1, InsertDuplicate
<1>2. CASE ~(\E q \in Callers : InsertRun(q))
  <2>1. Duplicates(d)' \subseteq Duplicates(d)
    BY <1>2, ActiveStep DEF Duplicates, Active, SameSource
  <2>2. Cardinality(Duplicates(d)') \in Nat /\ Cardinality(Duplicates(d)') <= Cardinality(Duplicates(d))
    BY <2>1, DuplicatesFinite, SubsetCard
  <2>3. CASE Cleared(d)' \subseteq Cleared(d)
    <3>1. Cardinality(Cleared(d)') \in Nat /\ Cardinality(Cleared(d)') <= Cardinality(Cleared(d))
      BY <2>3, DuplicatesFinite, SubsetCard
    <3> QED BY <2>2, <3>1, DuplicatesFinite DEF DuplicateBound
  <2>4. CASE Duplicates(d) = {}
    <3>1. Cardinality(Duplicates(d)) = 0
      BY <2>4, FS_EmptySet
    <3>2. Cleared(d)' \in SUBSET Callers
      BY DEF Cleared
    <3>3. Cardinality(Cleared(d)') \in Nat /\ Cardinality(Cleared(d)') <= Cardinality(Callers)
      BY <3>2, RunsFinite, SubsetCard
    <3> QED BY <2>2, <3>1, <3>3, DuplicatesFinite
  <2> QED BY <2>3, <2>4, ClearedStep
<1> QED BY <1>1, <1>2

\* However many calls of enqueueRun overlap, no more runs of one commit are active than there
\* were calls under way together (queue.ts:21-37).
THEOREM DuplicatesBounded == Spec => []DuplicateBound
<1>1. Init => DuplicateBound
  <2> SUFFICES ASSUME Init, NEW d \in RunDetails
               PROVE  Cardinality(Duplicates(d)) + Cardinality(Cleared(d)) <= Cardinality(Callers)
    BY DEF DuplicateBound
  <2>1. Duplicates(d) = {} /\ Cleared(d) = {}
    BY DEF Init, StoreInit, QueueInit, Duplicates, Active, Queued, Running, Having, Cleared
  <2> QED BY <2>1, FS_EmptySet, DuplicatesFinite
<1>2. TypeOK /\ OutcomeInv /\ DuplicateBound /\ [Next]_vars => DuplicateBound'
  BY DuplicateStep
<1> QED BY <1>1, <1>2, TypeCorrect, OutcomeInvariant, PTL DEF Spec
=============================================================================
