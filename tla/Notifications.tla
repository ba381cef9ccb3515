---------------------------- MODULE Notifications ----------------------------
(***************************************************************************)
(* The notifications of one user: createNotification() with the retention  *)
(* job behind it (notificationsService.ts, prune.ts), which                *)
(* scripts/prune-retention.ts also starts, and reading and marking         *)
(* (notificationsController.ts).                                           *)
(*                                                                         *)
(* One step per database call; several runs end at a time, so that jobs    *)
(* overlap.  createdAt is set when the document is made, before the insert.*)
(***************************************************************************)
EXTENDS Clock, FiniteSets

CONSTANTS
    Notes,              \* documents, in all
    NoNote,
    Jobs,               \* createNotification() and scripts at one time
    Retention,          \* notifications.retentionPerUser
    MaxFaults           \* bound: failing database calls

ASSUME NotificationsAssumption ==
    /\ IsFiniteSet(Notes) /\ NoNote \notin Notes
    /\ Retention \in Nat \ {0} /\ MaxFaults \in Nat

VARIABLES
    state,              \* state[n]: the document
    createdAt,
    job,                \* job[j]: the call it is at, and what it read
    marking,            \* the document markRead has read, to save it
    noteFaults

noteVars == <<state, createdAt, job, marking, noteFaults>>

Job == [pc : {"idle", "insert", "find", "delete"},
        note : Notes \cup {NoNote}, ids : SUBSET Notes]
IdleJob == [pc |-> "idle", note |-> NoNote, ids |-> {}]

NotesTypeOK ==
    /\ state \in [Notes -> {"new", "made", "unread", "read", "pruned"}]
    /\ createdAt \in [Notes -> Nat]
    /\ job \in [Jobs -> Job]
    /\ \A j \in Jobs : job[j].pc = "insert" =>
            job[j].note \in Notes /\ state[job[j].note] = "made"
    /\ marking \in Notes \cup {NoNote}
    /\ noteFaults \in 0..MaxFaults

NotesInit ==
    /\ state = [n \in Notes |-> "new"] /\ createdAt = [n \in Notes |-> 0]
    /\ job = [j \in Jobs |-> IdleJob] /\ marking = NoNote /\ noteFaults = 0
-----------------------------------------------------------------------------
Present == {n \in Notes : state[n] \in {"unread", "read"}}
JobAt(j, pc) == job[j].pc = pc

CreateNotification(j, n) ==
    /\ JobAt(j, "idle") /\ state[n] = "new"
    /\ state' = [state EXCEPT ![n] = "made"]
    /\ createdAt' = [createdAt EXCEPT ![n] = now]
    /\ job' = [job EXCEPT ![j] = [@ EXCEPT !.pc = "insert", !.note = n]]
    /\ UNCHANGED <<now, marking, noteFaults>>

\* Mutant: the insert is tried again.
AfterInsertAgain(j) == job[j]
AfterInsert(j) == [IdleJob EXCEPT !.pc = "find"]

Insert(j) ==
    /\ JobAt(j, "insert")
    /\ state' = [state EXCEPT ![job[j].note] = "unread"]
    /\ job' = [job EXCEPT ![j] = AfterInsert(j)]
    /\ UNCHANGED <<now, createdAt, marking, noteFaults>>

\* prune-retention.ts
StartScript(j) ==
    /\ JobAt(j, "idle")
    /\ job' = [job EXCEPT ![j].pc = "find"]
    /\ UNCHANGED <<now, state, createdAt, marking, noteFaults>>

\* Mutant: one too many is kept.
SkippedMore == Retention + 1
Skipped == Retention

\* Mutant: sorted by createdAt, the oldest first.
SortedAscending(kept, excess) ==
    \A x \in kept, y \in excess : createdAt[x] <= createdAt[y]
\* Documents of one millisecond come in any order.
Sorted(kept, excess) == \A x \in kept, y \in excess : createdAt[x] >= createdAt[y]

FindExcess(j) ==
    /\ JobAt(j, "find")
    /\ \E excess \in SUBSET Present :
        /\ Sorted(Present \ excess, excess)
        /\ IF Cardinality(Present) <= Skipped THEN excess = {}
           ELSE Cardinality(Present \ excess) = Skipped
        /\ job' = [job EXCEPT ![j] = IF excess = {} THEN IdleJob
                        ELSE [@ EXCEPT !.pc = "delete", !.ids = excess]]
    /\ UNCHANGED <<now, state, createdAt, marking, noteFaults>>

DeleteExcess(j) ==
    /\ JobAt(j, "delete")
    /\ state' = [n \in Notes |-> IF n \in job[j].ids THEN "pruned" ELSE state[n]]
    /\ job' = [job EXCEPT ![j] = IdleJob]
    /\ UNCHANGED <<now, createdAt, marking, noteFaults>>

JobFails(j) ==
    /\ ~JobAt(j, "idle")
    /\ noteFaults < MaxFaults /\ noteFaults' = noteFaults + 1
    /\ job' = [job EXCEPT ![j] = IdleJob]
    /\ UNCHANGED <<now, state, createdAt, marking>>
-----------------------------------------------------------------------------
\* markReadHandler
FindToMark(n) ==
    /\ marking = NoNote /\ n \in Present
    /\ marking' = n
    /\ UNCHANGED <<now, state, createdAt, job, noteFaults>>

\* Mutant: the document is written whether it is still there or not.
MarkedUpsert(s) == "read"
\* save() updates the document it read, or rejects if that is gone.
Marked(s) == IF s = "pruned" THEN s ELSE "read"

SaveMarked ==
    /\ marking # NoNote
    /\ state' = [state EXCEPT ![marking] = Marked(@)]
    /\ marking' = NoNote
    /\ UNCHANGED <<now, createdAt, job, noteFaults>>

MarkAllRead ==
    /\ \E n \in Present : state[n] = "unread"
    /\ state' = [n \in Notes |-> IF n \in Present THEN "read" ELSE state[n]]
    /\ UNCHANGED <<now, createdAt, job, marking, noteFaults>>

NotificationsPage == (\E n \in Notes : FindToMark(n)) \/ MarkAllRead

NotesNext ==
    \/ \E j \in Jobs :
        \/ \E n \in Notes : CreateNotification(j, n)
        \/ StartScript(j) \/ Insert(j) \/ FindExcess(j) \/ DeleteExcess(j) \/ JobFails(j)
    \/ NotificationsPage \/ SaveMarked

NotesSpec ==
    now = 0 /\ NotesInit /\ [][NotesNext \/ (Tick /\ UNCHANGED noteVars)]_<<now, noteVars>>
-----------------------------------------------------------------------------
\* Whenever no job is under way and none failed, a user has no more notifications
\* than are retained, whatever the overlap of the jobs (prune.ts:5-16).
RetentionHolds ==
    noteFaults = 0 /\ (\A j \in Jobs : JobAt(j, "idle")) =>
        Cardinality(Present) <= Retention

\* The job deletes what it found earlier: still, a notification is only pruned when
\* as many as are retained were created no earlier than it (prune.ts:8-14).
PruneSparesNewest ==
    [][\A n \in Notes : state[n] # "pruned" /\ state'[n] = "pruned" =>
            Cardinality({m \in Notes \ {n} : state[m] \in {"unread", "read", "pruned"}
                            /\ createdAt[m] >= createdAt[n]}) >= Retention]_state

\* A notification that was read or pruned never comes back, although markRead saves
\* a document that a job may have deleted meanwhile (notificationsController.ts:38-46).
NeverBack ==
    [][\A n \in Notes :
        /\ state[n] = "pruned" => state'[n] = "pruned"
        /\ state[n] = "read" => state'[n] \in {"read", "pruned"}]_state
=============================================================================
