----------------------------- MODULE Scheduler -----------------------------
(***************************************************************************)
(* The scheduler of one project (pipeline/scheduler.ts): its timer in      *)
(* projectTimers, the polls the timer starts, and updateProjectHandler     *)
(* (projects/projectsController.ts), which sets and clears the timer.      *)
(*                                                                         *)
(* The timer does not wait for a poll to end, so polls overlap; handlers   *)
(* overlap as well.  Every database call, and git ls-remote, is one step.  *)
(* enqueueRun is reduced to its search for a duplicate and its insert,     *)
(* each a step: module RunQueue has its details.  The commits of a branch  *)
(* are numbered in the order they are pushed, 0 standing for none.         *)
(***************************************************************************)
EXTENDS Integers, FiniteSets

CONSTANTS
    Branches,       \* documents of the project's tracked branches
    MaxHead,        \* bound: commits pushed to a branch
    Polls,          \* bound: polls in flight
    Edits,          \* calls of updateProjectHandler in flight
    MaxFaults       \* bound: failing database calls and git commands, and exits

ASSUME SchedulerAssumption == MaxHead \in Nat /\ MaxFaults \in Nat

VARIABLES
    active,         \* the project's isActive
    timer,          \* projectTimers has an entry for the project
    bootPc,         \* where bootstrapScheduler is
    head,           \* head[b]: newest commit of the branch in the bare repository
    tracked,        \* tracked[b]: the branch document, "on" or "off" by its isActive
    lastSeen,       \* lastSeen[b]: lastSeenCommitSha
    runs,           \* runs[b]: commits a run was inserted for
    live,           \* live[b]: those of runs[b] that are QUEUED or RUNNING
    pollPc,         \* pollPc[i]: the await poll i is at
    pollRefs,       \* pollRefs[i]: the answer of ls-remote
    pollTodo,       \* pollTodo[i]: branches its loop has left
    editPc,         \* editPc[e]: the await the update is at
    edit,           \* edit[e]: isActive of the handler's document, and if it is to be saved
    faults          \* failed calls and exits so far

pollVars == <<pollPc, pollRefs, pollTodo>>
editVars == <<editPc, edit>>
timerVars == <<active, timer, bootPc>>
runVars == <<lastSeen, runs, live>>
vars == <<timerVars, head, tracked, runVars, pollVars, editVars, faults>>

Shas == 0..MaxHead
NoRefs == [b \in Branches |-> 0]
NoEdit == [active |-> FALSE, modified |-> FALSE]

TypeOK ==
    /\ active \in BOOLEAN /\ timer \in BOOLEAN
    /\ bootPc \in {"find", "done", "failed"}
    /\ head \in [Branches -> Shas] /\ lastSeen \in [Branches -> Shas]
    /\ tracked \in [Branches -> {"on", "off", "deleted"}]
    /\ runs \in [Branches -> SUBSET Shas] /\ live \in [Branches -> SUBSET Shas]
    /\ pollPc \in [Polls -> {"idle", "project", "refs", "branches", "search",
                             "insert", "update"}]
    /\ pollRefs \in [Polls -> [Branches -> Shas]]
    /\ pollTodo \in [Polls -> SUBSET Branches]
    /\ \A i \in Polls : pollPc[i] \in {"search", "insert", "update"} => pollTodo[i] # {}
    /\ editPc \in [Edits -> {"idle", "save"}]
    /\ edit \in [Edits -> [active : BOOLEAN, modified : BOOLEAN]]
    /\ faults \in 0..MaxFaults

Init ==
    /\ active \in BOOLEAN /\ timer = FALSE /\ bootPc = "find"
    /\ head = NoRefs /\ lastSeen = NoRefs
    /\ tracked = [b \in Branches |-> "on"]
    /\ runs = [b \in Branches |-> {}] /\ live = [b \in Branches |-> {}]
    /\ pollPc = [i \in Polls |-> "idle"]
    /\ pollRefs = [i \in Polls |-> NoRefs] /\ pollTodo = [i \in Polls |-> {}]
    /\ editPc = [e \in Edits |-> "idle"] /\ edit = [e \in Edits |-> NoEdit]
    /\ faults = 0

Fault == faults < MaxFaults /\ faults' = faults + 1
-----------------------------------------------------------------------------
(* bootstrapScheduler() and the timer.                                     *)

\* Project.find({ isActive: true }), then scheduleProject for each.
Boot ==
    /\ bootPc = "find"
    /\ bootPc' = "done"
    /\ timer' = (timer \/ active)
    /\ UNCHANGED <<active, head, tracked, runVars, pollVars, editVars, faults>>

\* The find rejects: logged, and no timer is set.
BootFault ==
    /\ bootPc = "find" /\ Fault
    /\ bootPc' = "failed"
    /\ UNCHANGED <<active, timer, head, tracked, runVars, pollVars, editVars>>

TimerFires(i) ==
    /\ timer
    /\ pollPc[i] = "idle"
    /\ pollPc' = [pollPc EXCEPT ![i] = "project"]
    /\ UNCHANGED <<timerVars, head, tracked, runVars, pollRefs, pollTodo, editVars,
                   faults>>
-----------------------------------------------------------------------------
(* pollProject()                                                           *)

PollGoto(i, pc) == pollPc' = [pollPc EXCEPT ![i] = pc]
EndPoll(i) ==
    /\ PollGoto(i, "idle")
    /\ pollRefs' = [pollRefs EXCEPT ![i] = NoRefs]
    /\ pollTodo' = [pollTodo EXCEPT ![i] = {}]
outsidePoll == <<active, bootPc, head, tracked, editVars>>

\* A poll that finds the project inactive unschedules it.
ReadProject(i) ==
    /\ pollPc[i] = "project"
    /\ IF active
       THEN PollGoto(i, "refs") /\ UNCHANGED <<timer, pollRefs, pollTodo>>
       ELSE timer' = FALSE /\ EndPoll(i)
    /\ UNCHANGED <<outsidePoll, runVars, faults>>

ListRefs(i) ==
    /\ pollPc[i] = "refs"
    /\ pollRefs' = [pollRefs EXCEPT ![i] = head]
    /\ PollGoto(i, "branches")
    /\ UNCHANGED <<outsidePoll, timer, runVars, pollTodo, faults>>

\* The active branches with a remote commit other than the one last seen.
Changed(i) ==
    {b \in Branches : tracked[b] = "on" /\ pollRefs[i][b] \notin {0, lastSeen[b]}}

FindBranches(i) ==
    /\ pollPc[i] = "branches"
    /\ IF Changed(i) = {}
       THEN EndPoll(i)
       ELSE /\ PollGoto(i, "search")
            /\ pollTodo' = [pollTodo EXCEPT ![i] = Changed(i)]
            /\ UNCHANGED pollRefs
    /\ UNCHANGED <<outsidePoll, timer, runVars, faults>>

\* The loop's branch: find() lists the branches in one order.
Current(i) == CHOOSE b \in pollTodo[i] : TRUE
Commit(i) == pollRefs[i][Current(i)]

\* Mutant: the loop does not test whether it is at its end.
NextBranchRunsOn(i) ==
    /\ PollGoto(i, "search")
    /\ pollTodo' = [pollTodo EXCEPT ![i] = @ \ {Current(i)}]
    /\ UNCHANGED pollRefs

\* The loop goes on with the next branch.
NextBranch(i) ==
    IF pollTodo[i] = {Current(i)}
    THEN EndPoll(i)
    ELSE /\ PollGoto(i, "search")
         /\ pollTodo' = [pollTodo EXCEPT ![i] = @ \ {Current(i)}]
         /\ UNCHANGED pollRefs

\* Mutant: a run that exists already counts as a refusal.
AfterDuplicateSkips(i) == NextBranch(i)

\* enqueueRun returned a run that exists already: no AppError, the commit is seen.
AfterDuplicate(i) == PollGoto(i, "update") /\ UNCHANGED <<pollRefs, pollTodo>>

\* enqueueRun: the search for a QUEUED or RUNNING run of the commit.
SearchDuplicate(i) ==
    /\ pollPc[i] = "search"
    /\ IF Commit(i) \in live[Current(i)]
       THEN AfterDuplicate(i)
       ELSE PollGoto(i, "insert") /\ UNCHANGED <<pollRefs, pollTodo>>
    /\ UNCHANGED <<outsidePoll, timer, runVars, faults>>

\* enqueueRun: the queue has room, the run is inserted.
InsertRun(i) ==
    /\ pollPc[i] = "insert"
    /\ runs' = [runs EXCEPT ![Current(i)] = @ \cup {Commit(i)}]
    /\ live' = [live EXCEPT ![Current(i)] = @ \cup {Commit(i)}]
    /\ PollGoto(i, "update")
    /\ UNCHANGED <<outsidePoll, timer, lastSeen, pollRefs, pollTodo, faults>>

\* Mutant: the AppError that enqueueRun returns is taken for a run.
AfterRefusalUpdates(i) ==
    PollGoto(i, "update") /\ UNCHANGED <<pollRefs, pollTodo>>

\* The result is an AppError: lastSeenCommitSha stays, the next poll tries again.
AfterRefusal(i) == NextBranch(i)

\* enqueueRun: the queue is full.
Refuse(i) ==
    /\ pollPc[i] = "insert"
    /\ AfterRefusal(i)
    /\ UNCHANGED <<outsidePoll, timer, runVars, faults>>

\* TrackedBranch.updateOne: nothing when the document was deleted meanwhile.
UpdateSeen(i) ==
    /\ pollPc[i] = "update"
    /\ lastSeen' = IF tracked[Current(i)] = "deleted" THEN lastSeen
                   ELSE [lastSeen EXCEPT ![Current(i)] = Commit(i)]
    /\ NextBranch(i)
    /\ UNCHANGED <<outsidePoll, timer, runs, live, faults>>

\* A call rejects: the poll ends, its other branches wait for the next one.
PollFault(i) ==
    /\ pollPc[i] # "idle" /\ Fault
    /\ EndPoll(i)
    /\ UNCHANGED <<outsidePoll, timer, runVars>>

\* A poll that makes progress.
PollStep(i) ==
    \/ ReadProject(i) \/ ListRefs(i) \/ FindBranches(i) \/ SearchDuplicate(i)
    \/ UpdateSeen(i)
-----------------------------------------------------------------------------
(* updateProjectHandler()                                                  *)

\* Project.findById, then the assignments of the body; isActive may not be in it.
\* mongoose saves a field only if the assignment changed it.
ReadForEdit(e, wanted) ==
    /\ editPc[e] = "idle"
    /\ editPc' = [editPc EXCEPT ![e] = "save"]
    /\ edit' = [edit EXCEPT ![e] = [active |-> wanted, modified |-> wanted # active]]
    /\ UNCHANGED <<timerVars, head, tracked, runVars, pollVars, faults>>

EndEdit(e) ==
    /\ editPc' = [editPc EXCEPT ![e] = "idle"]
    /\ edit' = [edit EXCEPT ![e] = NoEdit]

\* project.save(), then (un)scheduleProject by the handler's own document.
SaveEdit(e) ==
    /\ editPc[e] = "save"
    /\ active' = IF edit[e].modified THEN edit[e].active ELSE active
    /\ timer' = edit[e].active
    /\ EndEdit(e)
    /\ UNCHANGED <<bootPc, head, tracked, runVars, pollVars, faults>>

EditFault(e) ==
    /\ editPc[e] = "save" /\ Fault
    /\ EndEdit(e)
    /\ UNCHANGED <<timerVars, head, tracked, runVars, pollVars>>
-----------------------------------------------------------------------------
(* The environment: developers, the other handlers, the worker, exits.     *)

Push(b) ==
    /\ head[b] < MaxHead
    /\ head' = [head EXCEPT ![b] = @ + 1]
    /\ UNCHANGED <<timerVars, tracked, runVars, pollVars, editVars, faults>>

\* updateTrackedBranchHandler and deleteTrackedBranchHandler.
SetTracked(b, s) ==
    /\ tracked[b] \notin {s, "deleted"}
    /\ tracked' = [tracked EXCEPT ![b] = s]
    /\ UNCHANGED <<timerVars, head, runVars, pollVars, editVars, faults>>

\* The worker decides the run of a commit.
RunEnds(b, c) ==
    /\ c \in live[b]
    /\ live' = [live EXCEPT ![b] = @ \ {c}]
    /\ UNCHANGED <<timerVars, head, tracked, lastSeen, runs, pollVars, editVars,
                   faults>>

\* The process exits and starts again: timers, polls and handlers are gone.
Exit ==
    /\ Fault
    /\ timer' = FALSE
    /\ bootPc' = "find"
    /\ pollPc' = [i \in Polls |-> "idle"]
    /\ pollRefs' = [i \in Polls |-> NoRefs]
    /\ pollTodo' = [i \in Polls |-> {}]
    /\ editPc' = [e \in Edits |-> "idle"]
    /\ edit' = [e \in Edits |-> NoEdit]
    /\ UNCHANGED <<active, head, tracked, runVars>>

Next ==
    \/ Boot \/ BootFault \/ Exit
    \/ \E i \in Polls : \/ TimerFires(i) \/ PollStep(i) \/ PollFault(i)
                        \/ InsertRun(i) \/ Refuse(i)
    \/ \E e \in Edits : \/ \E wanted \in BOOLEAN : ReadForEdit(e, wanted)
                        \/ SaveEdit(e) \/ EditFault(e)
    \/ \E b \in Branches : \/ Push(b)
                           \/ \E s \in {"on", "off", "deleted"} : SetTracked(b, s)
                           \/ \E c \in Shas : RunEnds(b, c)

Spec == Init /\ [][Next]_vars

(***************************************************************************)
(* Timers fire, calls return, and a queue that is full is not full at      *)
(* every try: the worker empties it (EveryRunEnds of module Pipeline).     *)
(***************************************************************************)
Fairness ==
    /\ WF_vars(Boot)
    /\ \A i \in Polls : WF_vars(TimerFires(i)) /\ WF_vars(PollStep(i)) /\ SF_vars(InsertRun(i))

FairSpec == Spec /\ Fairness
-----------------------------------------------------------------------------
(* Properties.                                                             *)

\* A commit marked as seen has got a run: refusals, faults, exits and overlapping
\* polls never lose a commit (scheduler.ts:74-87).
SeenHasRun == \A b \in Branches : lastSeen[b] # 0 => lastSeen[b] \in runs[b]

\* While the project is polled, the newest commit of a tracked branch is eventually
\* seen, whatever was refused, failed or written back by a slower poll
\* (scheduler.ts:54-93).  It holds of every commit, not only of the first.
HeadIsSeen ==
    \A b \in Branches, c \in Shas \ {0} :
        head[b] = c ~> \/ lastSeen[b] = c \/ head[b] # c
                       \/ tracked[b] # "on" \/ ~active \/ ~timer
=============================================================================
