-------------------------- MODULE Scheduler_proofs --------------------------
(***************************************************************************)
(* Theorems about the scheduler of a project for every set of branches,    *)
(* polls and updates and every number of commits and failures.             *)
(***************************************************************************)
EXTENDS Scheduler, TLAPS

USE SchedulerAssumption DEF SchedulerAssumption

\* A poll inside its loop has a branch in hand, and a commit for it.
LEMMA CurrentType ==
  ASSUME TypeOK, NEW i \in Polls
  PROVE  /\ pollTodo[i] # {} => Current(i) \in pollTodo[i] /\ Current(i) \in Branches
         /\ pollTodo[i] # {} => Commit(i) \in Shas
         /\ pollPc[i] \in {"search", "insert", "update"} => pollTodo[i] # {}
         /\ NoRefs \in [Branches -> Shas]
<1>1. pollTodo[i] \in SUBSET Branches /\ pollRefs[i] \in [Branches -> Shas]
  BY DEF TypeOK
<1>2. ASSUME pollTodo[i] # {} PROVE Current(i) \in pollTodo[i]
  BY <1>2 DEF Current
<1> QED BY <1>1, <1>2 DEF Commit, TypeOK, NoRefs, Shas

\* The variables of the polls.
PollsOK ==
    /\ pollPc \in [Polls -> {"idle", "project", "refs", "branches", "search",
                             "insert", "update"}]
    /\ pollRefs \in [Polls -> [Branches -> Shas]]
    /\ pollTodo \in [Polls -> SUBSET Branches]
    /\ \A i \in Polls : pollPc[i] \in {"search", "insert", "update"} => pollTodo[i] # {}

\* The variables of the updates.
EditsOK ==
    /\ editPc \in [Edits -> {"idle", "save"}]
    /\ edit \in [Edits -> [active : BOOLEAN, modified : BOOLEAN]]

\* Ending the poll, or going on with the next branch.
LEMMA EndPollType ==
  ASSUME TypeOK, NEW i \in Polls, EndPoll(i) \/ (NextBranch(i) /\ pollTodo[i] # {})
  PROVE  PollsOK'
<1> USE DEF TypeOK, PollsOK
<1>1. CASE EndPoll(i)
  BY <1>1, CurrentType DEF EndPoll, PollGoto
<1>2. CASE NextBranch(i) /\ pollTodo[i] # {} /\ ~EndPoll(i)
  <2>1. pollTodo[i] # {Current(i)} /\ PollGoto(i, "search") /\ UNCHANGED pollRefs
        /\ pollTodo' = [pollTodo EXCEPT ![i] = pollTodo[i] \ {Current(i)}]
    BY <1>2 DEF NextBranch
  <2>2. pollTodo[i] \ {Current(i)} \in (SUBSET Branches) \ {{}}
    BY <1>2, <2>1, CurrentType
  <2> QED BY <2>1, <2>2 DEF PollGoto
<1> QED BY <1>1, <1>2

\* Every step of a poll keeps the polls typed; of the rest it writes the timer, the
\* documents of the branch in hand and the count of faults.
LEMMA PollType ==
  ASSUME TypeOK, NEW i \in Polls,
         TimerFires(i) \/ PollStep(i) \/ PollFault(i) \/ InsertRun(i) \/ Refuse(i)
  PROVE  TypeOK'
<1> USE CurrentType
<1>1. PollsOK'
  <2>1. CASE TimerFires(i) \/ ListRefs(i)
    BY <2>1 DEF TimerFires, ListRefs, PollGoto, TypeOK, PollsOK
  <2>2. CASE ReadProject(i)
    BY <2>2, EndPollType DEF ReadProject, PollGoto, TypeOK, PollsOK
  <2>3. CASE FindBranches(i)
    <3>1. Changed(i) \subseteq Branches
      BY DEF Changed
    <3> QED BY <2>3, <3>1, EndPollType DEF FindBranches, PollGoto, TypeOK, PollsOK
  <2>4. CASE SearchDuplicate(i)
    BY <2>4 DEF SearchDuplicate, AfterDuplicate, PollGoto, TypeOK, PollsOK
  <2>5. CASE InsertRun(i)
    BY <2>5 DEF InsertRun, PollGoto, TypeOK, PollsOK
  <2>6. CASE Refuse(i) \/ UpdateSeen(i) \/ PollFault(i)
    BY <2>6, EndPollType DEF Refuse, AfterRefusal, UpdateSeen, PollFault
  <2> QED BY <2>1, <2>2, <2>3, <2>4, <2>5, <2>6 DEF PollStep
<1>2. lastSeen' \in [Branches -> Shas]
  BY DEF TimerFires, PollStep, ReadProject, ListRefs, FindBranches, SearchDuplicate,
     UpdateSeen, PollFault, InsertRun, Refuse, runVars, TypeOK
<1>3. runs' \in [Branches -> SUBSET Shas] /\ live' \in [Branches -> SUBSET Shas]
  <2>1. \/ UNCHANGED <<runs, live>>
        \/ /\ pollTodo[i] # {}
           /\ runs' = [runs EXCEPT ![Current(i)] = @ \cup {Commit(i)}]
           /\ live' = [live EXCEPT ![Current(i)] = @ \cup {Commit(i)}]
    BY DEF TimerFires, PollStep, ReadProject, ListRefs, FindBranches, SearchDuplicate,
       UpdateSeen, PollFault, InsertRun, Refuse, runVars
  <2>2. pollTodo[i] # {} => Current(i) \in Branches /\ Commit(i) \in Shas
    OBVIOUS
  <2>3. runs \in [Branches -> SUBSET Shas] /\ live \in [Branches -> SUBSET Shas]
    BY DEF TypeOK
  <2>4. ASSUME NEW b \in Branches, NEW c \in Shas, NEW f \in [Branches -> SUBSET Shas]
        PROVE  [f EXCEPT ![b] = @ \cup {c}] \in [Branches -> SUBSET Shas]
    BY Zenon
  <2> QED BY <2>1, <2>2, <2>3, <2>4
<1>4. timer' \in BOOLEAN /\ faults' \in 0..MaxFaults
  <2>1. timer' \in {timer, FALSE} /\ (faults' = faults \/ Fault)
    BY DEF TimerFires, PollStep, ReadProject, ListRefs, FindBranches, SearchDuplicate,
       UpdateSeen, PollFault, InsertRun, Refuse, timerVars
  <2>2. timer \in BOOLEAN
    BY DEF TypeOK
  <2>3. faults' \in 0..MaxFaults
    BY <2>1 DEF Fault, TypeOK
  <2> QED BY <2>1, <2>2, <2>3
<1>5. UNCHANGED <<active, bootPc, head, tracked, editVars>>
  BY DEF TimerFires, PollStep, ReadProject, ListRefs, FindBranches, SearchDuplicate,
     UpdateSeen, PollFault, InsertRun, Refuse, timerVars, outsidePoll
<1> QED BY <1>1, <1>2, <1>3, <1>4, <1>5 DEF TypeOK, PollsOK, editVars

\* Every reachable state is type correct; in particular no poll goes on with a branch
\* when its loop has none left.
THEOREM SchedulerTypeCorrect == Spec => []TypeOK
<1>1. Init => TypeOK
  <2> SUFFICES ASSUME Init PROVE TypeOK
    OBVIOUS
  <2>1. head \in [Branches -> Shas] /\ lastSeen \in [Branches -> Shas]
        /\ tracked \in [Branches -> {"on", "off", "deleted"}]
    BY DEF Init, NoRefs, Shas
  <2>2. runs \in [Branches -> SUBSET Shas] /\ live \in [Branches -> SUBSET Shas]
    BY DEF Init
  <2>3. PollsOK
    BY DEF Init, PollsOK, NoRefs, Shas
  <2>4. EditsOK
    BY DEF Init, EditsOK, NoEdit
  <2>5. faults \in 0..MaxFaults /\ bootPc \in {"find", "done", "failed"}
    BY DEF Init
  <2>6. active \in BOOLEAN /\ timer \in BOOLEAN
    BY Zenon DEF Init
  <2> QED BY <2>1, <2>2, <2>3, <2>4, <2>5, <2>6 DEF PollsOK, EditsOK, TypeOK
<1>2. TypeOK /\ [Next]_vars => TypeOK'
  <2> SUFFICES ASSUME TypeOK, [Next]_vars PROVE TypeOK'
    OBVIOUS
  <2>1. CASE Boot \/ BootFault
    BY <2>1 DEF Boot, BootFault, Fault, TypeOK, runVars, pollVars, editVars
  <2>2. CASE Exit
    <3>1. PollsOK' /\ EditsOK'
      BY <2>2 DEF Exit, PollsOK, EditsOK, NoRefs, NoEdit, Shas
    <3>2. faults' \in 0..MaxFaults
      BY <2>2 DEF Exit, Fault, TypeOK
    <3> QED BY <2>2, <3>1, <3>2 DEF Exit, TypeOK, PollsOK, EditsOK, runVars
  <2>3. ASSUME NEW e \in Edits,
               (\E wanted \in BOOLEAN : ReadForEdit(e, wanted)) \/ SaveEdit(e) \/ EditFault(e)
        PROVE  TypeOK'
    <3>1. EditsOK'
      <4>1. CASE EndEdit(e)
        BY <4>1 DEF EndEdit, NoEdit, EditsOK, TypeOK
      <4>2. ASSUME NEW wanted \in BOOLEAN, ReadForEdit(e, wanted) PROVE EditsOK'
        BY <4>2 DEF ReadForEdit, EditsOK, TypeOK
      <4> QED BY <2>3, <4>1, <4>2 DEF SaveEdit, EditFault
    <3>2. active' \in BOOLEAN /\ timer' \in BOOLEAN
      <4>1. edit[e].active \in BOOLEAN
        BY DEF TypeOK
      <4> QED BY <2>3, <4>1 DEF ReadForEdit, SaveEdit, EditFault, timerVars, TypeOK
    <3>3. faults' \in 0..MaxFaults
      <4>1. faults' = faults \/ Fault
        BY <2>3 DEF ReadForEdit, SaveEdit, EditFault
      <4> QED BY <4>1 DEF Fault, TypeOK
    <3>4. UNCHANGED <<bootPc, head, tracked, runVars, pollVars>>
      BY <2>3 DEF ReadForEdit, SaveEdit, EditFault, timerVars
    <3> QED BY <3>1, <3>2, <3>3, <3>4 DEF TypeOK, EditsOK, runVars, pollVars
  <2>4. ASSUME NEW b \in Branches,
               \/ Push(b) \/ \E s \in {"on", "off", "deleted"} : SetTracked(b, s)
               \/ \E c \in Shas : RunEnds(b, c)
        PROVE  TypeOK'
    <3>1. head' \in [Branches -> Shas]
      BY <2>4 DEF Push, SetTracked, RunEnds, TypeOK, Shas
    <3>2. tracked' \in [Branches -> {"on", "off", "deleted"}]
      BY <2>4 DEF Push, SetTracked, RunEnds, TypeOK
    <3>3. live' \in [Branches -> SUBSET Shas] /\ UNCHANGED <<lastSeen, runs>>
      BY <2>4 DEF Push, SetTracked, RunEnds, TypeOK, runVars
    <3>4. UNCHANGED <<timerVars, pollVars, editVars, faults>>
      BY <2>4 DEF Push, SetTracked, RunEnds
    <3> QED BY <3>1, <3>2, <3>3, <3>4 DEF TypeOK, timerVars, pollVars, editVars
  <2>5. CASE UNCHANGED vars
    BY <2>5 DEF vars, timerVars, runVars, pollVars, editVars, TypeOK
  <2> QED BY <2>1, <2>2, <2>3, <2>4, <2>5, PollType DEF Next
<1> QED BY <1>1, <1>2, PTL DEF Spec

-----------------------------------------------------------------------------
(* No commit is lost.  SeenHasRun is not inductive: UpdateSeen marks the   *)
(* commit the poll has in hand, so that commit has got its run before the  *)
(* poll reaches "update"; and a poll that finds a run in live gets there   *)
(* too, so every run that is live has been inserted.                       *)

LiveWasInserted == \A b \in Branches : live[b] \subseteq runs[b]
UpdateHasRun == \A i \in Polls : pollPc[i] = "update" => Commit(i) \in runs[Current(i)]
SeenInv == SeenHasRun /\ LiveWasInserted /\ UpdateHasRun

\* A step that adds runs only, leaves lastSeen alone, and takes no poll to "update".
LEMMA SeenKept ==
  ASSUME TypeOK, SeenInv, lastSeen' = lastSeen,
         \A b \in Branches : runs[b] \subseteq runs'[b] /\ live'[b] \subseteq live[b],
         \A i \in Polls : pollPc'[i] = "update" =>
           pollPc[i] = "update" /\ pollRefs'[i] = pollRefs[i] /\ pollTodo'[i] = pollTodo[i]
  PROVE  SeenInv'
<1>1. SeenHasRun' /\ LiveWasInserted'
  BY DEF SeenInv, SeenHasRun, LiveWasInserted
<1>2. ASSUME NEW i \in Polls, pollPc'[i] = "update" PROVE (Commit(i) \in runs[Current(i)])'
  <2>1. pollPc[i] = "update" /\ Current(i)' = Current(i) /\ Commit(i)' = Commit(i)
    BY <1>2 DEF Current, Commit
  <2>2. Current(i) \in Branches
    BY <2>1, CurrentType
  <2> QED BY <2>1, <2>2 DEF SeenInv, UpdateHasRun
<1> QED BY <1>1, <1>2 DEF SeenInv, UpdateHasRun

\* A commit that is marked as seen has a run: refusals, failures, exits, untracked
\* branches and overlapping polls lose no commit.
THEOREM NoCommitLost == Spec => []SeenHasRun
<1>1. Init => SeenInv
  BY DEF Init, SeenInv, SeenHasRun, LiveWasInserted, UpdateHasRun, NoRefs
<1>2. TypeOK /\ TypeOK' /\ SeenInv /\ [Next]_vars => SeenInv'
  <2> SUFFICES ASSUME TypeOK, TypeOK', SeenInv, [Next]_vars PROVE SeenInv'
    OBVIOUS
  <2> USE DEF TypeOK
  <2>1. ASSUME NEW i \in Polls, SearchDuplicate(i) PROVE SeenInv'
    <3>1. UNCHANGED <<lastSeen, runs, live, pollRefs, pollTodo>>
      BY <2>1 DEF SearchDuplicate, AfterDuplicate, runVars
    <3>2. CASE Commit(i) \in live[Current(i)]
      <4>1. Commit(i) \in runs[Current(i)]
        BY <2>1, <3>2, CurrentType DEF SearchDuplicate, SeenInv, LiveWasInserted
      <4>2. \A j \in Polls : pollPc'[j] = "update" => j = i \/ pollPc[j] = "update"
        BY <2>1, <3>2 DEF SearchDuplicate, AfterDuplicate, PollGoto
      <4>3. \A j \in Polls : Current(j)' = Current(j) /\ Commit(j)' = Commit(j)
        BY <3>1 DEF Current, Commit
      <4> QED BY <3>1, <4>1, <4>2, <4>3 DEF SeenInv, SeenHasRun, LiveWasInserted, UpdateHasRun
    <3>3. CASE Commit(i) \notin live[Current(i)]
      BY <2>1, <3>1, <3>3, SeenKept DEF SearchDuplicate, PollGoto
    <3> QED BY <3>2, <3>3
  <2>2. ASSUME NEW i \in Polls, InsertRun(i) PROVE SeenInv'
    <3>1. pollPc[i] = "insert" /\ Current(i) \in Branches
      BY <2>2, CurrentType DEF InsertRun
    <3>2. UNCHANGED <<lastSeen, pollRefs, pollTodo>>
      BY <2>2 DEF InsertRun
    <3>3. \A j \in Polls : Current(j)' = Current(j) /\ Commit(j)' = Commit(j)
      BY <3>2 DEF Current, Commit
    <3>4. /\ \A b \in Branches : runs[b] \subseteq runs'[b]
          /\ Commit(i) \in runs'[Current(i)]
      BY <2>2, <3>1 DEF InsertRun
    <3>5. SeenHasRun'
      BY <3>2, <3>4 DEF SeenInv, SeenHasRun
    <3>6. LiveWasInserted'
      BY <2>2 DEF InsertRun, SeenInv, LiveWasInserted
    <3>7. UpdateHasRun'
      <4>1. ASSUME NEW j \in Polls, j # i, pollPc'[j] = "update"
            PROVE  Commit(j) \in runs'[Current(j)]
        <5>1. pollPc[j] = "update"
          BY <2>2, <4>1 DEF InsertRun, PollGoto
        <5> QED BY <3>4, <5>1, CurrentType DEF SeenInv, UpdateHasRun
      <4> QED BY <3>3, <3>4, <4>1 DEF UpdateHasRun
    <3> QED BY <3>5, <3>6, <3>7 DEF SeenInv
  <2>3. ASSUME NEW i \in Polls, UpdateSeen(i) PROVE SeenInv'
    <3>1. pollPc[i] = "update" /\ Current(i) \in Branches /\ Commit(i) \in runs[Current(i)]
      BY <2>3, CurrentType DEF UpdateSeen, SeenInv, UpdateHasRun
    <3>2. UNCHANGED <<runs, live>>
      BY <2>3 DEF UpdateSeen
    <3>3. SeenHasRun'
      BY <2>3, <3>1, <3>2 DEF UpdateSeen, SeenInv, SeenHasRun
    <3>4. \A j \in Polls : pollPc'[j] = "update" =>
            pollPc[j] = "update" /\ pollRefs'[j] = pollRefs[j] /\ pollTodo'[j] = pollTodo[j]
      BY <2>3 DEF UpdateSeen, NextBranch, EndPoll, PollGoto
    <3>5. \A j \in Polls : pollPc'[j] = "update" =>
            Current(j)' = Current(j) /\ Commit(j)' = Commit(j)
      BY <3>4 DEF Current, Commit
    <3>6. UpdateHasRun'
      BY <3>2, <3>4, <3>5 DEF SeenInv, UpdateHasRun
    <3> QED BY <3>2, <3>3, <3>6 DEF SeenInv, LiveWasInserted
  <2>4. ASSUME NEW i \in Polls,
               \/ TimerFires(i) \/ ReadProject(i) \/ ListRefs(i) \/ FindBranches(i)
               \/ PollFault(i) \/ Refuse(i)
        PROVE  SeenInv'
    <3>1. UNCHANGED <<lastSeen, runs, live>>
      BY <2>4 DEF TimerFires, ReadProject, ListRefs, FindBranches, PollFault, Refuse, runVars
    <3>2. \A j \in Polls : pollPc'[j] = "update" =>
            pollPc[j] = "update" /\ pollRefs'[j] = pollRefs[j] /\ pollTodo'[j] = pollTodo[j]
      BY <2>4 DEF TimerFires, ReadProject, ListRefs, FindBranches, PollFault, Refuse,
         AfterRefusal, NextBranch, EndPoll, PollGoto
    <3> QED BY <3>1, <3>2, SeenKept
  <2>5. CASE UNCHANGED <<runVars, pollVars>>
    BY <2>5, SeenKept DEF runVars, pollVars
  <2>6. CASE Exit
    BY <2>6, SeenKept DEF Exit, runVars
  <2>7. ASSUME NEW b \in Branches, NEW c \in Shas, RunEnds(b, c) PROVE SeenInv'
    BY <2>7, SeenKept DEF RunEnds, pollVars
  <2>8. CASE (\E i \in Polls : TimerFires(i) \/ PollStep(i) \/ PollFault(i)
                               \/ InsertRun(i) \/ Refuse(i))
    BY <2>1, <2>2, <2>3, <2>4, <2>8 DEF PollStep
  <2>9. ASSUME NEW e \in Edits,
               (\E wanted \in BOOLEAN : ReadForEdit(e, wanted)) \/ SaveEdit(e) \/ EditFault(e)
        PROVE  UNCHANGED <<runVars, pollVars>>
    BY <2>9 DEF ReadForEdit, SaveEdit, EditFault
  <2>10. ASSUME NEW b \in Branches, Push(b) \/ \E s \in {"on", "off", "deleted"} : SetTracked(b, s)
         PROVE  UNCHANGED <<runVars, pollVars>>
    BY <2>10 DEF Push, SetTracked
  <2>11. CASE Boot \/ BootFault \/ UNCHANGED vars
    BY <2>5, <2>11 DEF Boot, BootFault, vars
  <2> QED BY <2>5, <2>6, <2>7, <2>8, <2>9, <2>10, <2>11 DEF Next
<1>3. SeenInv => SeenHasRun
  BY DEF SeenInv
<1> QED BY <1>1, <1>2, <1>3, SchedulerTypeCorrect, PTL DEF Spec
=============================================================================
