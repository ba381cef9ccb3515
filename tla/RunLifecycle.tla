---------------------------- MODULE RunLifecycle ----------------------------
(***************************************************************************)
(* What the pipeline promises about the status of a run, without the       *)
(* calls, activities and faults that bring the changes about: a sequence   *)
(* number is used for one document at most; documents are claimed in the   *)
(* order of their numbers and only while a slot is free; a claimed run is  *)
(* never queued again; FAILED and CONFLICT never turn into PASSED.         *)
(*                                                                         *)
(* CANCELLED is not final: a cancel that read the run before it was        *)
(* claimed is saved while the worker runs it, and the worker writes its    *)
(* outcome over it.  Nor is any other outcome safe from such a late save.  *)
(***************************************************************************)
EXTENDS Integers, FiniteSets

CONSTANTS MaxSeq, MaxConcurrent

VARIABLES
    status,     \* status[r], "ABSENT" without a document
    spent       \* sequence numbers that no new document may carry

lifecycleVars == <<status, spent>>

Runs == 1..MaxSeq
Outcomes == {"PASSED", "FAILED", "CONFLICT", "CANCELLED"}
Having(s) == {r \in Runs : status[r] = s}

Init ==
    /\ status = [r \in Runs |-> "ABSENT"]
    /\ spent = {}

Insert(r) ==
    /\ r \notin spent
    /\ status[r] = "ABSENT"
    /\ status' = [status EXCEPT ![r] = "QUEUED"]
    /\ spent' = spent \cup {r}

\* Numbers drawn by calls that fail before the insert.
Discard ==
    /\ \E lost \in SUBSET (Runs \ spent) : spent' = spent \cup lost
    /\ UNCHANGED status

\* First in, first out by sequence number, below the concurrency cap.
Claim(r) ==
    /\ status[r] = "QUEUED"
    /\ \A s \in Having("QUEUED") : r <= s
    /\ Cardinality(Having("RUNNING")) < MaxConcurrent
    /\ status' = [status EXCEPT ![r] = "RUNNING"]
    /\ UNCHANGED spent

\* The worker writes an outcome: of a run it holds, over a late cancel, or FAILED
\* after an error that follows an outcome of its own.
Decide(r, outcome) ==
    /\ \/ status[r] \in {"RUNNING", "CANCELLED"}
       \/ status[r] \in {"FAILED", "CONFLICT"} /\ outcome = "FAILED"
    /\ status' = [status EXCEPT ![r] = outcome]
    /\ UNCHANGED spent

Cancel(r) ==
    /\ status[r] # "ABSENT"
    /\ status' = [status EXCEPT ![r] = "CANCELLED"]
    /\ UNCHANGED spent

\* Retention removes documents.
Remove ==
    /\ \E gone \in SUBSET Runs :
         status' = [r \in Runs |-> IF r \in gone THEN "ABSENT" ELSE status[r]]
    /\ UNCHANGED spent

Next ==
    \/ \E r \in Runs : \/ Insert(r) \/ Claim(r) \/ Cancel(r)
                       \/ \E outcome \in Outcomes : Decide(r, outcome)
    \/ Discard \/ Remove

Spec == Init /\ [][Next]_lifecycleVars
=============================================================================
