----------------------------- MODULE RunControl -----------------------------
(***************************************************************************)
(* cancelRunHandler() (pipeline/pipelineController.ts) and cancelRun()     *)
(* (pipeline/worker.ts).  The handler reads the run, decides on the status *)
(* it read, and saves the fields it changed; mongoose's save() sets those  *)
(* fields whatever the document holds by then.                             *)
(***************************************************************************)
EXTENDS Worker

CONSTANT Cancels        \* calls of the cancel endpoint

VARIABLES
    cancelPc,    \* cancelPc[c]: the await the call is at
    cancelRun    \* cancelRun[c]: the run it read, 0 when none

cancelVars == <<cancelPc, cancelRun>>

ControlTypeOK ==
    /\ cancelPc \in [Cancels -> {"idle", "saveCancelled", "saveRequest", "abort", "done"}]
    /\ cancelRun \in [Cancels -> 0..MaxSeq]

ControlInit ==
    /\ cancelPc = [c \in Cancels |-> "idle"]
    /\ cancelRun = [c \in Cancels |-> 0]

CancelGoto(c, pc) == cancelPc' = [cancelPc EXCEPT ![c] = pc]

CancelReturn(c) ==
    /\ CancelGoto(c, "done")
    /\ cancelRun' = [cancelRun EXCEPT ![c] = 0]

\* Mutant: a RUNNING run is set CANCELLED at once, as a QUEUED one is.
CancelsAtOnce(c, r) ==
    /\ cancelPc[c] = "idle"
    /\ status[r] \in {"QUEUED", "RUNNING"}
    /\ CancelGoto(c, "saveCancelled")
    /\ cancelRun' = [cancelRun EXCEPT ![c] = r]
    /\ UNCHANGED <<storeVars, workerVars>>

\* PipelineRun.findOne and the choice by its status; a missing run is answered
\* 404 and a terminal one 409, without a change.
ReadForCancel(c, r) ==
    /\ cancelPc[c] = "idle"
    /\ status[r] \in {"QUEUED", "RUNNING"}
    /\ CancelGoto(c, IF status[r] = "QUEUED" THEN "saveCancelled" ELSE "saveRequest")
    /\ cancelRun' = [cancelRun EXCEPT ![c] = r]
    /\ UNCHANGED <<storeVars, workerVars>>

\* run.status = CANCELLED; run.save().  Saving a deleted document rejects.
SaveCancelled(c) ==
    /\ cancelPc[c] = "saveCancelled"
    /\ status' = StatusSet(cancelRun[c], "CANCELLED")
    /\ CancelReturn(c)
    /\ UNCHANGED <<cancelRequested, attemptCount, mergeSha, details, lastSeq,
                   targetBranch, merged, faults, crashes, workerVars>>

\* run.cancelRequested = true; run.save()
SaveRequest(c) ==
    /\ cancelPc[c] = "saveRequest"
    /\ IF Present(cancelRun[c])
       THEN /\ cancelRequested' = [cancelRequested EXCEPT ![cancelRun[c]] = TRUE]
            /\ CancelGoto(c, "abort")
            /\ UNCHANGED cancelRun
       ELSE CancelReturn(c) /\ UNCHANGED cancelRequested
    /\ UNCHANGED <<status, attemptCount, mergeSha, details, lastSeq, targetBranch,
                   merged, faults, crashes, workerVars>>

\* cancelRun(runId): the abort kills the test process that listens to the
\* signal; before the listener exists, or after the run's end, it is lost.  A controller
\* fires once, so that a second abort of a run is always lost: here it may kill as well.
Abort(c) ==
    /\ cancelPc[c] = "abort"
    /\ work' = IF workerPc[cancelRun[c]] = "testing"
               THEN [work EXCEPT ![cancelRun[c]].killed = TRUE]
               ELSE work
    /\ CancelReturn(c)
    /\ UNCHANGED <<storeVars, claimPc, slots, workerPc, notified>>

\* A database call of the handler rejects: it answers with the error.
CancelFault(c) ==
    /\ cancelPc[c] \in {"saveCancelled", "saveRequest"}
    /\ DatabaseFault
    /\ CancelReturn(c)
    /\ UNCHANGED <<runVars, lastSeq, targetBranch, merged, crashes, workerVars>>

ControlStep ==
    \E c \in Cancels :
      \/ \E r \in Runs : ReadForCancel(c, r)
      \/ SaveCancelled(c) \/ SaveRequest(c) \/ Abort(c) \/ CancelFault(c)

ControlReset ==
    /\ cancelPc' = [c \in Cancels |-> IF cancelPc[c] = "idle" THEN "idle" ELSE "done"]
    /\ cancelRun' = [c \in Cancels |-> 0]
=============================================================================
