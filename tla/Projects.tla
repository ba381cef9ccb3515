------------------------------ MODULE Projects ------------------------------
(***************************************************************************)
(* A project and its tracked branches (projects/projectsController.ts),    *)
(* and the page on which several people edit them (client                  *)
(* features/projects/).  What an update does to the timer of the project   *)
(* is in module Scheduler.                                                 *)
(*                                                                         *)
(* Every handler is a call with one step per database call that touches    *)
(* these documents; the first one starts the call, and a call it refuses   *)
(* leaves no trace.  A body is a function on the fields it carries;        *)
(* save() writes those whose value differs from the one the handler read.  *)
(***************************************************************************)
EXTENDS Integers, FiniteSets

CONSTANTS
    Users,              \* accounts; deleting one keeps its document
    Ids,                \* ids a body may name
    Settings,           \* values of the fields that are neither key nor list
    Keep,               \* a field of a branch that is not sent
    Docs,               \* documents of tracked branches, in all
    NoDoc,
    Names,              \* names of branches
    Pages,              \* pages of the project that are open
    Calls,              \* requests in flight
    MaxCalls            \* bound: requests after the creation

ASSUME ProjectsAssumption ==
    /\ Users \subseteq Ids /\ IsFiniteSet(Ids) /\ Ids # {} /\ Names # {}
    /\ Settings # {} /\ NoDoc \notin Docs
    /\ Keep \notin Ids
    /\ MaxCalls \in Nat

VARIABLES
    project,            \* the document; version 0: not created yet
    branch,             \* branch[b]: the document
    page,               \* page[p]: the project as its form was first filled
    call,               \* call[c]: the await the request is at, and what it has read
    members,            \* history: everybody who was in a list of the project
    parted,             \* history: an update carried one of the lists without the other
    touched,            \* history: touched[p]: fields saved since page p filled its form
    calls               \* requests after the creation so far

documents == <<project, branch>>
history == <<members, parted, touched>>
vars == <<project, branch, page, call, history, calls>>

Lists == {"maintainers", "developers"}
Fields == Lists \cup {"settings"}
Values(f) == IF f = "settings" THEN Settings ELSE SUBSET Ids

Contents == [maintainers : SUBSET Ids, developers : SUBSET Ids, settings : Settings]
IsBody(body) == DOMAIN body \subseteq Fields /\ \A f \in DOMAIN body : body[f] \in Values(f)
NoBody == [f \in {} |-> {}]

Pcs == {"idle", "create", "save", "name", "insert", "owner", "branchSave"}

Call ==
    [pc : Pcs, body : {NoBody}, version : 0..MaxCalls + 1,
     asked : SUBSET Fields,         \* the fields the sender meant to change
     since : SUBSET Fields,         \* the fields saved since its form was filled
     doc : Docs \cup {NoDoc}, name : Names,
     owner : Ids \cup {Keep}, was : Ids \cup {Keep},     \* sent, and read
     active : BOOLEAN \cup {Keep}]

BranchDoc == [name : Names, life : {"none", "live", "deleted"}, owner : Ids, active : BOOLEAN]

TypeOK ==
    /\ project \in [version : 0..MaxCalls + 1, is : Contents]
    /\ branch \in [Docs -> BranchDoc]
    /\ DOMAIN page = Pages /\ \A p \in Pages : IsBody(page[p])
    /\ DOMAIN call = Calls
    /\ \A c \in Calls : IsBody(call[c].body) /\ [call[c] EXCEPT !.body = NoBody] \in Call
    /\ members \subseteq Ids /\ parted \in BOOLEAN /\ touched \in [Pages -> SUBSET Fields]
    /\ calls \in 0..MaxCalls

AnId == CHOOSE i \in Ids : TRUE
AName == CHOOSE n \in Names : TRUE
NoCall == [pc |-> "idle", body |-> NoBody, version |-> 0, asked |-> {}, since |-> {},
           doc |-> NoDoc, name |-> AName, owner |-> Keep, was |-> Keep, active |-> Keep]

Init ==
    /\ project = [version |-> 0, is |-> [maintainers |-> {}, developers |-> {},
                                         settings |-> CHOOSE s \in Settings : TRUE]]
    /\ branch = [b \in Docs |-> [name |-> AName, life |-> "none", owner |-> AnId,
                                 active |-> TRUE]]
    /\ page = [p \in Pages |-> NoBody]
    /\ call = [c \in Calls |-> NoCall]
    /\ members = {} /\ parted = FALSE /\ touched = [p \in Pages |-> {}] /\ calls = 0
-----------------------------------------------------------------------------
Created == project.version > 0
Live == {b \in Docs : branch[b].life = "live"}
Member(u) == u \in project.is.maintainers \cup project.is.developers

At(c, pc) == call[c].pc = pc
Goto(c, pc) == call' = [call EXCEPT ![c].pc = pc]
EndCall(c) == call' = [call EXCEPT ![c] = NoCall]

Begin(c, new) ==
    /\ At(c, "idle")
    /\ call' = [call EXCEPT ![c] = new]
    /\ UNCHANGED <<documents, members>>
Start(c, new) == calls < MaxCalls /\ calls' = calls + 1 /\ Begin(c, new)

ListsOf(body) == Lists \cap DOMAIN body
Sent(body, f) == IF f \in DOMAIN body THEN body[f] ELSE {}

\* Mutant: an id may be in both lists.
UsersExistInAny(body) == Sent(body, "maintainers") \cup Sent(body, "developers") \subseteq Users
\* assertUsersExist counts documents of users: an id in both lists is one too few.
UsersExist(body) ==
    LET m == Sent(body, "maintainers") d == Sent(body, "developers")
    IN  Cardinality((m \cup d) \cap Users) = Cardinality(m) + Cardinality(d)
-----------------------------------------------------------------------------
(* The project.                                                            *)

\* The form of ProjectsPage sends isActive, which the strict schema of the creation
\* refuses: the creations here are those of other clients.
FindSlug(c) ==
    /\ ~Created
    /\ \E body \in Contents :
        UsersExist(body) /\ Begin(c, [NoCall EXCEPT !.pc = "create", !.body = body])
    /\ UNCHANGED <<page, parted, touched, calls>>

\* The index on the slug is unique: a second project is rejected.
CreateProject(c) ==
    /\ At(c, "create")
    /\ IF Created THEN UNCHANGED <<project, members>>
       ELSE /\ project' = [version |-> 1, is |-> call[c].body]
            /\ members' = members \cup call[c].body.maintainers \cup call[c].body.developers
    /\ EndCall(c)
    /\ UNCHANGED <<branch, page, parted, touched, calls>>

\* ProjectConfigForm takes its state from the first answer it is given, and keeps it.
OpenPage(p) ==
    /\ Created
    /\ page' = [page EXCEPT ![p] = project.is]
    /\ touched' = [touched EXCEPT ![p] = {}]
    /\ UNCHANGED <<project, branch, call, members, parted, calls>>

\* Mutant: fields that were not sent are cleared.
OverNothing(is, body) == [f \in Fields |-> IF f \in DOMAIN body THEN body[f] ELSE {}]
Over(is, body) == [f \in Fields |-> IF f \in DOMAIN body THEN body[f] ELSE is[f]]

Changed(body) == {f \in DOMAIN body : body[f] # project.is[f]}

\* Mutant: the settings are written even if they were not sent.
DeltaSettings(body) ==
    [f \in Changed(body) \cup {"settings"} |-> Over(project.is, body)[f]]
\* What save() will write; __v is checked, and moved on, with a list.
Delta(body) == [f \in Changed(body) |-> body[f]]

\* findById; the users of the body are counted, too, but users do not change.
ReadProject(c, body, asked, since) ==
    /\ Created /\ UsersExist(body)
    /\ Start(c, [NoCall EXCEPT !.pc = "save", !.version = project.version,
            !.body = Delta(body), !.asked = asked, !.since = since])
    /\ parted' = (parted \/ Cardinality(ListsOf(body)) = 1)
    /\ UNCHANGED <<page, touched>>

\* A member box flips what is selected, and offers the existing users.
Toggled(selected) ==
    {(selected \ flipped) \cup (flipped \ selected) : flipped \in SUBSET Users}

Form(filled) ==
    [maintainers : Toggled(filled.maintainers), developers : Toggled(filled.developers),
     settings : Settings]

\* "Save Changes" sends the whole form, whatever the person changed in it.
SavePage(c, p) ==
    /\ page[p] # NoBody
    /\ \E body \in Form(page[p]) :
        ReadProject(c, body, {f \in Fields : body[f] # page[p][f]}, touched[p])

\* A PATCH of one field, without the page.
PatchProject(c) ==
    \E f \in Fields : \E value \in Values(f) :
        ReadProject(c, [g \in {f} |-> value], {f}, {})

\* Mutant: a list is written whatever the version.
CurrentAlways(c) == TRUE
Current(c) == ListsOf(call[c].body) = {} \/ call[c].version = project.version

Written(body) ==
    [version |-> project.version + (IF ListsOf(body) = {} THEN 0 ELSE 1),
     is |-> Over(project.is, body)]

SaveProject(c) ==
    /\ At(c, "save")
    /\ IF Current(c) THEN project' = Written(call[c].body) ELSE UNCHANGED project
    /\ members' = members \cup project'.is.maintainers \cup project'.is.developers
    /\ touched' = [p \in Pages |-> touched[p] \cup {f \in Fields : project'.is[f] # project.is[f]}]
    /\ EndCall(c)
    /\ UNCHANGED <<branch, page, parted, calls>>
-----------------------------------------------------------------------------
(* Tracked branches.                                                       *)

CheckOwner(c) ==
    /\ \E n \in Names, u \in Ids :
        Member(u) /\ Start(c, [NoCall EXCEPT !.pc = "name", !.name = n, !.owner = u])
    /\ UNCHANGED <<page, parted, touched>>

Tracked(n) == \E b \in Live : branch[b].name = n

FindName(c) ==
    /\ At(c, "name")
    /\ IF Tracked(call[c].name) THEN EndCall(c) ELSE Goto(c, "insert")
    /\ UNCHANGED <<documents, page, history, calls>>

\* Mutant: there is no unique index on project and name.
DuplicateNever(n) == FALSE
Duplicate(n) == Tracked(n)

InsertBranch(c) ==
    /\ At(c, "insert")
    /\ IF Duplicate(call[c].name) THEN UNCHANGED branch
       ELSE \E b \in Docs :
            /\ branch[b].life = "none"
            /\ branch' = [branch EXCEPT ![b] = [name |-> call[c].name, life |-> "live",
                                                owner |-> call[c].owner, active |-> TRUE]]
    /\ EndCall(c)
    /\ UNCHANGED <<project, page, history, calls>>

\* "Pause" and "Resume" send isActive; a PATCH may carry an owner, too.
ReadBranch(c) ==
    /\ \E b \in Live, u \in Ids \cup {Keep}, a \in BOOLEAN \cup {Keep} :
        Start(c, [NoCall EXCEPT !.pc = IF u = Keep THEN "branchSave" ELSE "owner",
            !.doc = b, !.owner = u, !.was = branch[b].owner, !.active = IF a = branch[b].active THEN Keep ELSE a])
    /\ UNCHANGED <<page, parted, touched>>

\* Mutant: the new owner is not looked up.
MayOwnAny(u) == TRUE
MayOwn(u) == Member(u)

CheckNewOwner(c) ==
    /\ At(c, "owner")
    /\ IF MayOwn(call[c].owner) THEN Goto(c, "branchSave") ELSE EndCall(c)
    /\ UNCHANGED <<documents, page, history, calls>>

\* save() of a document that is gone rejects.
SaveBranch(c) ==
    /\ At(c, "branchSave")
    /\ LET b == call[c].doc IN
        IF branch[b].life = "deleted" THEN UNCHANGED branch
        ELSE branch' = [branch EXCEPT
                ![b].owner = IF call[c].owner \in {Keep, call[c].was} THEN @ ELSE call[c].owner,
                ![b].active = IF call[c].active = Keep THEN @ ELSE call[c].active]
    /\ EndCall(c)
    /\ UNCHANGED <<project, page, history, calls>>

\* findOneAndDelete
DeleteBranch(b) ==
    /\ b \in Live
    /\ branch' = [branch EXCEPT ![b].life = "deleted"]
    /\ UNCHANGED <<project, page, call, history, calls>>
-----------------------------------------------------------------------------
\* A database call rejects: the request is answered with an error.
CallFails(c) ==
    /\ ~At(c, "idle") /\ EndCall(c)
    /\ UNCHANGED <<documents, page, history, calls>>

\* What BranchesSection offers; of an update it only sends isActive.
BranchesSection(c) == CheckOwner(c) \/ ReadBranch(c) \/ \E b \in Docs : DeleteBranch(b)

CallStep(c) ==
    \/ FindSlug(c) \/ CreateProject(c)
    \/ (\E p \in Pages : SavePage(c, p)) \/ PatchProject(c) \/ SaveProject(c)
    \/ BranchesSection(c)
    \/ FindName(c) \/ InsertBranch(c) \/ CheckNewOwner(c) \/ SaveBranch(c)
    \/ CallFails(c)

Next ==
    \/ \E c \in Calls : CallStep(c)
    \/ \E p \in Pages : OpenPage(p)

Spec == Init /\ [][Next]_vars
-----------------------------------------------------------------------------
\* What the handlers check before they write holds of what is written, however many
\* calls overlap (projectsController.ts:14-20, :206-214, :246-251): the lists name
\* existing users, and none twice as long as both are sent, a name is tracked once, and
\* an owner is or was a member.
ChecksHold ==
    /\ project.is.maintainers \cup project.is.developers \subseteq Users
    /\ ~parted => project.is.maintainers \cap project.is.developers = {}
    /\ \A b, o \in Live : branch[b].name = branch[o].name => b = o
    /\ \A b \in Live : branch[b].owner \in members

\* A save changes only what its sender meant to change, but for the fields that were
\* saved between the time its form was filled and the time the handler read the project:
\* these it takes back.  A request without the page changes nothing but its field
\* (ProjectDetailPage.tsx:52-75, projectsController.ts:131-148).
OnlyWhatWasAsked ==
    [][Created => \A f \in Fields : project'.is[f] # project.is[f] =>
         \E c \in Calls : /\ At(c, "save") /\ ~At(c, "save")'
                         /\ f \in call[c].asked \cup call[c].since]_vars
=============================================================================
