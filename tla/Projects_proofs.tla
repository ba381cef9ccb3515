--------------------------- MODULE Projects_proofs ---------------------------
(***************************************************************************)
(* Theorems about the documents of a project and its tracked branches, for *)
(* every number of users, branches, pages and overlapping requests.        *)
(***************************************************************************)
EXTENDS Projects, FiniteSetTheorems, TLAPS

USE ProjectsAssumption DEF ProjectsAssumption
-----------------------------------------------------------------------------
(* The inductive invariant.                                                *)

Both(is) == is.maintainers \cup is.developers
Apart(is) == is.maintainers \cap is.developers = {}

WellCall(r) == IsBody(r.body) /\ [r EXCEPT !.body = NoBody] \in Call

\* What a request has checked and read so far, and what may still be relied on of it: of the
\* lists, only as long as the version is the one it read.
CallFits(r, doc, were, apart) ==
    /\ r.pc = "create" => r.body \in Contents /\ Both(r.body) \subseteq Users /\ Apart(r.body)
    /\ r.pc = "save" =>
        /\ \A f \in ListsOf(r.body) : r.body[f] \subseteq Users
        /\ r.version <= doc.version
        /\ DOMAIN r.body \subseteq r.asked \cup r.since
        /\ ~apart /\ r.version = doc.version => Apart(Over(doc.is, r.body))
    /\ r.pc \in {"name", "insert"} => r.owner \in were
    /\ r.pc \in {"owner", "branchSave"} => r.doc \in Docs
    /\ r.pc = "branchSave" => r.owner \in were \cup {Keep}

CallsOK ==
    /\ DOMAIN call = Calls
    /\ \A c \in Calls : WellCall(call[c]) /\ CallFits(call[c], project, members, parted)

ProjectOK ==
    /\ project \in [version : Nat, is : Contents]
    /\ Both(project.is) \subseteq Users \cap members
    /\ ~parted => Apart(project.is)
    /\ members \subseteq Ids /\ parted \in BOOLEAN

BranchOK ==
    /\ branch \in [Docs -> BranchDoc]
    /\ \A b, o \in Live : branch[b].name = branch[o].name => b = o
    /\ \A b \in Live : branch[b].owner \in members

\* A form agrees with the document on every field that was not saved since it was filled.
Agrees(p) == \A f \in Fields \ touched[p] : page[p][f] = project.is[f]

PagesOK ==
    /\ DOMAIN page = Pages /\ \A p \in Pages : page[p] \in {NoBody} \cup Contents
    /\ touched \in [Pages -> SUBSET Fields]
    /\ \A p \in Pages : page[p] # NoBody => Created /\ Agrees(p)

\* The version counts saves, of which there are no more than requests.
Saving == {c \in Calls : At(c, "save")}
CountOK ==
    /\ calls \in 0..MaxCalls
    /\ IsFiniteSet(Saving) /\ project.version + Cardinality(Saving) <= calls + 1
    /\ ~Created => Saving = {}

ProjectsInv == CallsOK /\ ProjectOK /\ BranchOK /\ PagesOK /\ CountOK
-----------------------------------------------------------------------------
(* The pieces of a state.                                                  *)

LEMMA ContentsAreBodies ==
  ASSUME NEW is \in Contents
  PROVE  IsBody(is) /\ DOMAIN is = Fields /\ ListsOf(is) = Lists
BY DEF Contents, IsBody, Fields, Lists, Values, ListsOf

LEMMA NoBodyIsBody == IsBody(NoBody) /\ DOMAIN NoBody = {}
BY DEF IsBody, NoBody, Fields, Values

LEMMA NamesAndIds == AnId \in Ids /\ AName \in Names
BY DEF AnId, AName

LEMMA CallParts ==
  /\ {"idle", "create", "name", "owner", "branchSave"} \subseteq Pcs
  /\ 0 \in 0..MaxCalls + 1 /\ {} \subseteq Fields
BY DEF Pcs

LEMMA NoCallWell == WellCall(NoCall)
<1>1. [NoCall EXCEPT !.body = NoBody] \in Call
  BY NamesAndIds, CallParts DEF NoCall, Call
<1>2. NoCall.body = NoBody
  BY DEF NoCall
<1> QED BY <1>1, <1>2, NoBodyIsBody DEF WellCall

LEMMA NoCallFits ==
  ASSUME NEW doc, NEW were, NEW apart
  PROVE  WellCall(NoCall) /\ CallFits(NoCall, doc, were, apart)
BY NoCallWell DEF CallFits, NoCall

\* What a request is made of.
LEMMA CallFields ==
  ASSUME NEW r, WellCall(r)
  PROVE  /\ r.pc \in Pcs /\ IsBody(r.body) /\ r.version \in 0..MaxCalls + 1
         /\ r.asked \subseteq Fields /\ r.since \subseteq Fields
         /\ r.doc \in Docs \cup {NoDoc} /\ r.name \in Names
         /\ r.owner \in Ids \cup {Keep} /\ r.was \in Ids \cup {Keep}
         /\ r.active \in BOOLEAN \cup {Keep}
BY DEF WellCall, Call

LEMMA GotoWell ==
  ASSUME NEW r, WellCall(r), NEW pc \in Pcs
  PROVE  WellCall([r EXCEPT !.pc = pc])
BY DEF WellCall, Call

\* The body of an update that is written over the lists.
LEMMA OverContents ==
  ASSUME NEW is \in Contents, NEW body, IsBody(body)
  PROVE  /\ Over(is, body) \in Contents
         /\ \A f \in Fields : Over(is, body)[f] = IF f \in DOMAIN body THEN body[f] ELSE is[f]
BY DEF Over, Contents, IsBody, Fields, Lists, Values
-----------------------------------------------------------------------------
(* How the parts of the invariant are kept.                                *)

\* A request moves on while the project only gains members and loses no version.
LEMMA CallMoves ==
  ASSUME CallsOK, NEW c \in Calls, NEW r, call' = [call EXCEPT ![c] = r],
         WellCall(r), CallFits(r, project, members, parted'),
         project' = project, members \subseteq members', parted => parted'
  PROVE  CallsOK'
<1>1. DOMAIN call' = Calls /\ \A d \in Calls : call'[d] = IF d = c THEN r ELSE call[d]
  BY DEF CallsOK
<1>2. ASSUME NEW d \in Calls
      PROVE  WellCall(call'[d]) /\ CallFits(call'[d], project', members', parted')
  <2>1. /\ WellCall(call'[d])
        /\ CallFits(call'[d], project, members, parted) \/ CallFits(call'[d], project, members, parted')
    BY <1>1 DEF CallsOK
  <2> QED BY <2>1 DEF CallFits
<1> QED BY <1>1, <1>2 DEF CallsOK

LEMMA SavingMoves ==
  ASSUME CallsOK, NEW c \in Calls, NEW r, call' = [call EXCEPT ![c] = r]
  PROVE  Saving' = IF r.pc = "save" THEN Saving \cup {c} ELSE Saving \ {c}
<1>1. \A d \in Calls : call'[d] = IF d = c THEN r ELSE call[d]
  BY DEF CallsOK
<1> QED BY <1>1 DEF Saving, At

\* No request starts to save.
LEMMA CountKept ==
  ASSUME ProjectOK, CountOK, Saving' \subseteq Saving, project' = project,
         calls' \in {calls, calls + 1}, calls' <= MaxCalls
  PROVE  CountOK'
<1>1. IsFiniteSet(Saving') /\ Cardinality(Saving') <= Cardinality(Saving)
  BY FS_Subset DEF CountOK
<1>2. Cardinality(Saving) \in Nat /\ Cardinality(Saving') \in Nat
  BY <1>1, FS_CardinalityType DEF CountOK
<1>3. calls' \in 0..MaxCalls
  BY DEF CountOK
<1>4. project.version + Cardinality(Saving') <= calls' + 1
  BY <1>1, <1>2 DEF ProjectOK, CountOK
<1>5. ~Created' => Saving' = {}
  BY DEF CountOK, Created
<1> QED BY <1>1, <1>3, <1>4, <1>5 DEF CountOK

\* A step of a request that writes nothing and does not start a save.
LEMMA QuietStep ==
  ASSUME ProjectsInv, NEW c \in Calls, NEW r, call' = [call EXCEPT ![c] = r],
         WellCall(r), CallFits(r, project, members, parted), r.pc # "save",
         UNCHANGED <<project, branch, page, members, parted, touched>>,
         calls' \in {calls, calls + 1}, calls' <= MaxCalls
  PROVE  ProjectsInv'
<1>1. CallsOK'
  BY CallMoves DEF ProjectsInv
<1>2. Saving' \subseteq Saving
  BY SavingMoves DEF ProjectsInv
<1>3. CountOK'
  BY <1>2, CountKept DEF ProjectsInv
<1>4. ProjectOK' /\ BranchOK' /\ PagesOK'
  BY DEF ProjectsInv, ProjectOK, BranchOK, Live, PagesOK, Agrees, Created
<1> QED BY <1>1, <1>3, <1>4 DEF ProjectsInv

\* assertUsersExist: what passes it names existing users, and none twice.
LEMMA UsersExistMeans ==
  ASSUME NEW body, IsBody(body), UsersExist(body)
  PROVE  /\ Sent(body, "maintainers") \cup Sent(body, "developers") \subseteq Users
         /\ Sent(body, "maintainers") \cap Sent(body, "developers") = {}
<1> DEFINE m == Sent(body, "maintainers")
           d == Sent(body, "developers")
<1>1. m \subseteq Ids /\ d \subseteq Ids
  BY DEF IsBody, Sent, Values, Fields, Lists
<1>2. Cardinality((m \cup d) \cap Users) = Cardinality(m) + Cardinality(d)
  BY DEF UsersExist
<1> HIDE DEF m, d
<1>3. IsFiniteSet(m) /\ IsFiniteSet(d)
  BY <1>1, FS_Subset
<1>4. /\ IsFiniteSet(m \cup d) /\ IsFiniteSet(m \cap d)
      /\ Cardinality(m \cup d) = Cardinality(m) + Cardinality(d) - Cardinality(m \cap d)
  BY <1>3, FS_Union, FS_Intersection
<1>5. /\ Cardinality(m) \in Nat /\ Cardinality(d) \in Nat
      /\ Cardinality(m \cup d) \in Nat /\ Cardinality(m \cap d) \in Nat
  BY <1>3, <1>4, FS_CardinalityType
<1>6. /\ (m \cup d) \cap Users \subseteq m \cup d
      /\ Cardinality((m \cup d) \cap Users) <= Cardinality(m \cup d)
  BY <1>4, FS_Subset
<1>7. Cardinality(m \cap d) = 0 /\ Cardinality((m \cup d) \cap Users) = Cardinality(m \cup d)
  BY <1>2, <1>4, <1>5, <1>6
<1>8. m \cap d = {}
  BY <1>4, <1>7, FS_EmptySet
<1>9. (m \cup d) \cap Users = m \cup d
  BY <1>4, <1>6, <1>7, FS_Subset
<1> QED BY <1>8, <1>9 DEF m, d
-----------------------------------------------------------------------------
(* The steps.                                                              *)

LEMMA InvInit == Init => ProjectsInv
<1> SUFFICES ASSUME Init PROVE ProjectsInv
  OBVIOUS
<1>1. project.version = 0 /\ project.is.maintainers = {} /\ project.is.developers = {}
      /\ project \in [version : Nat, is : Contents]
  <2> DEFINE first == CHOOSE s \in Settings : TRUE
  <2>1. first \in Settings
    OBVIOUS
  <2> HIDE DEF first
  <2>2. project = [version |-> 0, is |-> [maintainers |-> {}, developers |-> {},
                                          settings |-> first]]
    BY DEF Init, first
  <2> QED BY <2>1, <2>2 DEF Contents
<1>2. CallsOK
  BY NoCallFits DEF Init, CallsOK
<1>3. \A c \in Calls : call[c].pc = "idle"
  BY DEF Init, NoCall
<1>4. Saving = {}
  BY <1>3 DEF Saving, At
<1>5. CountOK
  BY <1>1, <1>4, FS_EmptySet DEF Init, CountOK
<1>6. ProjectOK /\ PagesOK
  BY <1>1 DEF Init, ProjectOK, PagesOK, Both, Apart
<1>7. BranchOK
  BY NamesAndIds DEF Init, BranchOK, BranchDoc, Live
<1> QED BY <1>2, <1>5, <1>6, <1>7 DEF ProjectsInv

\* The first steps of requests that only read.
LEMMA StartSteps ==
  ASSUME ProjectsInv, NEW c \in Calls, FindSlug(c) \/ CheckOwner(c) \/ ReadBranch(c)
  PROVE  ProjectsInv'
<1>0. calls \in Nat /\ calls <= MaxCalls
  BY DEF ProjectsInv, CountOK
<1>1. CASE FindSlug(c)
  <2>1. PICK body \in Contents :
            UsersExist(body) /\ Begin(c, [NoCall EXCEPT !.pc = "create", !.body = body])
    BY <1>1 DEF FindSlug
  <2> DEFINE r == [NoCall EXCEPT !.pc = "create", !.body = body]
  <2>2. IsBody(body) /\ Sent(body, "maintainers") = body.maintainers
                     /\ Sent(body, "developers") = body.developers
    BY ContentsAreBodies DEF Sent, Fields, Lists
  <2>3. r.pc = "create" /\ r.body = body
    BY DEF NoCall
  <2>4. WellCall(r)
    <3>1. [r EXCEPT !.body = NoBody] \in Call
      BY NamesAndIds, CallParts DEF NoCall, Call
    <3> QED BY <2>2, <2>3, <3>1 DEF WellCall
  <2>5. Both(body) \subseteq Users /\ Apart(body)
    BY <2>1, <2>2, UsersExistMeans DEF Both, Apart
  <2>6. call' = [call EXCEPT ![c] = r]
        /\ UNCHANGED <<project, branch, page, members, parted, touched, calls>>
    BY <1>1, <2>1 DEF FindSlug, Begin, documents
  <2> HIDE DEF r
  <2>7. CallFits(r, project, members, parted)
    BY <2>3, <2>5 DEF CallFits
  <2> QED BY <2>3, <2>4, <2>6, <2>7, <1>0, QuietStep
<1>2. CASE CheckOwner(c)
  <2>1. PICK n \in Names, u \in Ids :
            Member(u) /\ Start(c, [NoCall EXCEPT !.pc = "name", !.name = n, !.owner = u])
    BY <1>2 DEF CheckOwner
  <2> DEFINE r == [NoCall EXCEPT !.pc = "name", !.name = n, !.owner = u]
  <2>2. r.pc = "name" /\ r.owner = u /\ r.body = NoBody
    BY DEF NoCall
  <2>3. WellCall(r)
    <3>1. [r EXCEPT !.body = NoBody] \in Call
      BY NamesAndIds, CallParts DEF NoCall, Call
    <3> QED BY <2>2, <3>1, NoBodyIsBody DEF WellCall
  <2>4. /\ call' = [call EXCEPT ![c] = r] /\ calls < MaxCalls /\ calls' = calls + 1
        /\ UNCHANGED <<project, branch, page, members, parted, touched>>
    BY <1>2, <2>1 DEF CheckOwner, Start, Begin, documents
  <2>5. u \in members
    BY <2>1 DEF Member, ProjectsInv, ProjectOK, Both
  <2> HIDE DEF r
  <2>6. CallFits(r, project, members, parted)
    BY <2>2, <2>5 DEF CallFits
  <2>7. calls' \in {calls, calls + 1} /\ calls' <= MaxCalls
    BY <1>0, <2>4
  <2> QED BY <2>2, <2>3, <2>4, <2>6, <2>7, QuietStep
<1>3. CASE ReadBranch(c)
  <2>1. PICK b \in Live, u \in Ids \cup {Keep}, a \in BOOLEAN \cup {Keep} :
            Start(c, [NoCall EXCEPT !.pc = IF u = Keep THEN "branchSave" ELSE "owner",
                !.doc = b, !.owner = u, !.was = branch[b].owner,
                !.active = IF a = branch[b].active THEN Keep ELSE a])
    BY <1>3 DEF ReadBranch
  <2> DEFINE sent == IF a = branch[b].active THEN Keep ELSE a
             was == branch[b].owner
             pc == IF u = Keep THEN "branchSave" ELSE "owner"
             r == [NoCall EXCEPT !.pc = pc, !.doc = b, !.owner = u, !.was = was,
                           !.active = sent]
  <2>2. sent \in BOOLEAN \cup {Keep} /\ pc \in {"branchSave", "owner"}
    OBVIOUS
  <2>3. b \in Docs /\ was \in Ids
    BY DEF Live, BranchDoc, ProjectsInv, BranchOK
  <2>4. pc = "branchSave" => u = Keep
    OBVIOUS
  <2>5. /\ call' = [call EXCEPT ![c] = r] /\ calls < MaxCalls /\ calls' = calls + 1
        /\ UNCHANGED <<project, branch, page, members, parted, touched>>
    BY <1>3, <2>1 DEF ReadBranch, Start, Begin, documents
  <2> HIDE DEF sent, pc, was
  <2>6. r.pc = pc /\ r.doc = b /\ r.owner = u /\ r.body = NoBody
    BY DEF NoCall
  <2>7. WellCall(r)
    <3>1. [r EXCEPT !.body = NoBody] \in Call
      BY <2>2, <2>3, NamesAndIds, CallParts DEF NoCall, Call
    <3> QED BY <2>6, <3>1, NoBodyIsBody DEF WellCall
  <2> HIDE DEF r
  <2>8. CallFits(r, project, members, parted)
    BY <2>2, <2>3, <2>4, <2>6 DEF CallFits
  <2>9. calls' \in {calls, calls + 1} /\ calls' <= MaxCalls
    BY <1>0, <2>5
  <2> QED BY <2>2, <2>5, <2>6, <2>7, <2>8, <2>9, QuietStep
<1> QED BY <1>1, <1>2, <1>3

\* A request that goes on to its next check, or ends.
LEMMA CheckSteps ==
  ASSUME ProjectsInv, NEW c \in Calls, FindName(c) \/ CheckNewOwner(c) \/ CallFails(c)
  PROVE  ProjectsInv'
<1>1. UNCHANGED <<project, branch, page, members, parted, touched, calls>>
  BY DEF FindName, CheckNewOwner, CallFails, documents, history
<1>2. WellCall(call[c]) /\ CallFits(call[c], project, members, parted)
      /\ calls \in Int /\ calls <= MaxCalls
  BY DEF ProjectsInv, CallsOK, CountOK
<1>3. CASE EndCall(c)
  <2>1. NoCall.pc # "save"
    BY DEF NoCall
  <2> QED BY <1>1, <1>2, <1>3, <2>1, NoCallFits, QuietStep DEF EndCall
<1>4. ASSUME NEW pc \in {"insert", "branchSave"}, Goto(c, pc),
             pc = "insert" => At(c, "name"),
             pc = "branchSave" => At(c, "owner") /\ Member(call[c].owner)
      PROVE  ProjectsInv'
  <2> DEFINE r == [call[c] EXCEPT !.pc = pc]
  <2>1. call' = [call EXCEPT ![c] = r]
    BY <1>4, Zenon DEF Goto
  <2>2. WellCall(r)
    BY <1>2, <1>4, GotoWell DEF Pcs
  <2>3. r.pc = pc /\ r.owner = call[c].owner /\ r.doc = call[c].doc
    BY <1>2 DEF WellCall, Call
  <2>4. pc = "branchSave" => r.owner \in members
    BY <1>4, <2>3 DEF Member, ProjectsInv, ProjectOK, Both
  <2> HIDE DEF r
  <2>5. CallFits(r, project, members, parted)
    BY <1>2, <1>4, <2>3, <2>4 DEF CallFits, At
  <2> QED BY <1>1, <1>2, <1>4, <2>1, <2>2, <2>3, <2>5, QuietStep
<1> QED BY <1>3, <1>4 DEF FindName, CheckNewOwner, CallFails, MayOwn

\* updateProjectHandler reads the project and checks its body.
LEMMA ReadStep ==
  ASSUME ProjectsInv, NEW c \in Calls, NEW body, NEW asked \in SUBSET Fields,
         NEW since \in SUBSET Fields, IsBody(body), Changed(body) \subseteq asked \cup since,
         ReadProject(c, body, asked, since)
  PROVE  ProjectsInv'
<1> DEFINE new == Delta(body)
           r == [NoCall EXCEPT !.pc = "save", !.version = project.version, !.body = new,
                               !.asked = asked, !.since = since]
<1>1. /\ Created /\ UsersExist(body) /\ calls < MaxCalls /\ calls' = calls + 1
      /\ call' = [call EXCEPT ![c] = r] /\ At(c, "idle")
      /\ UNCHANGED <<project, branch, members, page, touched>>
      /\ parted' = (parted \/ Cardinality(ListsOf(body)) = 1)
  BY Zenon DEF ReadProject, Start, Begin, documents
<1>2. /\ DOMAIN new = Changed(body) /\ Changed(body) \subseteq DOMAIN body
      /\ \A f \in Changed(body) : new[f] = body[f]
      /\ \A f \in DOMAIN body \ Changed(body) : body[f] = project.is[f]
  BY DEF Delta, Changed
<1>3. IsBody(new)
  BY <1>2 DEF IsBody
<1>4. DOMAIN new \subseteq asked \cup since
  BY <1>2
<1>5. project.version \in 0..MaxCalls /\ project.is \in Contents /\ calls \in Nat
  <2>1. Cardinality(Saving) \in Nat
    BY FS_CardinalityType DEF ProjectsInv, CountOK
  <2>2. Saving' = Saving \cup {c} /\ c \notin Saving
    <3>1. r.pc = "save"
      BY DEF NoCall
    <3> HIDE DEF r
    <3> QED BY <1>1, <3>1, SavingMoves DEF ProjectsInv, Saving, At
  <2> QED BY <1>1, <2>1 DEF ProjectsInv, CountOK, ProjectOK
<1> HIDE DEF new
<1>6. /\ r.pc = "save" /\ r.version = project.version /\ r.body = new
      /\ r.asked = asked /\ r.since = since
  BY DEF NoCall
<1>7. WellCall(r)
  <2>1. "save" \in Pcs /\ project.version \in 0..MaxCalls + 1
    BY <1>5 DEF Pcs
  <2>2. [r EXCEPT !.body = NoBody] \in Call
    BY <1>4, <2>1, NamesAndIds DEF NoCall, Call
  <2> QED BY <1>3, <1>6, <2>2 DEF WellCall
<1> HIDE DEF r
<1>8. CallFits(r, project, members, parted')
  <2>1. \A f \in ListsOf(new) : new[f] \subseteq Users
    BY <1>1, <1>2, UsersExistMeans DEF ListsOf, Lists, Sent
  <2>2. ASSUME ~parted' PROVE Apart(Over(project.is, new))
    <3>1. Cardinality(ListsOf(body)) # 1 /\ Apart(project.is)
      BY <1>1, <2>2 DEF ProjectsInv, ProjectOK
    <3>2. ListsOf(body) = {} \/ ListsOf(body) = Lists
      <4>1. \A f \in Lists : ListsOf(body) # {f}
        BY <3>1, FS_Singleton
      <4> QED BY <4>1 DEF ListsOf, Lists
    <3>3. /\ Over(project.is, new) \in Contents
          /\ \A f \in Lists : Over(project.is, new)[f] =
                IF f \in DOMAIN body THEN body[f] ELSE project.is[f]
      BY <1>2, <1>3, <1>5, OverContents DEF Fields
    <3>4. CASE ListsOf(body) = {}
      BY <3>1, <3>3, <3>4 DEF ListsOf, Lists, Apart
    <3>5. CASE ListsOf(body) = Lists
      <4>1. body["maintainers"] \cap body["developers"] = {}
        BY <1>1, <3>5, UsersExistMeans DEF ListsOf, Lists, Sent
      <4> QED BY <3>3, <3>5, <4>1 DEF ListsOf, Lists, Apart
    <3> QED BY <3>2, <3>4, <3>5
  <2> QED BY <1>4, <1>5, <1>6, <2>1, <2>2 DEF CallFits
<1>9. CallsOK'
  BY <1>1, <1>7, <1>8, CallMoves DEF ProjectsInv
<1>10. CountOK'
  <2>1. Saving' = Saving \cup {c} /\ c \notin Saving
    BY <1>1, <1>6, SavingMoves DEF ProjectsInv, Saving, At
  <2>2. IsFiniteSet(Saving') /\ Cardinality(Saving') = Cardinality(Saving) + 1
    BY <2>1, FS_AddElement DEF ProjectsInv, CountOK
  <2>3. Cardinality(Saving) \in Nat
    BY FS_CardinalityType DEF ProjectsInv, CountOK
  <2> QED BY <1>1, <1>5, <2>2, <2>3 DEF ProjectsInv, CountOK, Created
<1>11. ProjectOK' /\ BranchOK' /\ PagesOK'
  <2>1. (~parted' => ~parted) /\ parted' \in BOOLEAN
    BY <1>1
  <2> QED BY <1>1, <2>1 DEF ProjectsInv, ProjectOK, BranchOK, Live, PagesOK, Agrees, Created
<1> QED BY <1>9, <1>10, <1>11 DEF ProjectsInv

LEMMA UpdateSteps ==
  ASSUME ProjectsInv, NEW c \in Calls,
         PatchProject(c) \/ \E p \in Pages : SavePage(c, p)
  PROVE  ProjectsInv'
<1>1. CASE PatchProject(c)
  <2>1. PICK f \in Fields :
            \E value \in Values(f) : ReadProject(c, [g \in {f} |-> value], {f}, {})
    BY <1>1 DEF PatchProject
  <2>2. PICK value \in Values(f) : ReadProject(c, [g \in {f} |-> value], {f}, {})
    BY <2>1
  <2>3. IsBody([g \in {f} |-> value]) /\ Changed([g \in {f} |-> value]) \subseteq {f}
    BY DEF IsBody, Changed
  <2> QED BY <2>2, <2>3, ReadStep
<1>2. ASSUME NEW p \in Pages, SavePage(c, p) PROVE ProjectsInv'
  <2>1. page[p] \in Contents
    BY <1>2 DEF SavePage, ProjectsInv, PagesOK
  <2>2. PICK body \in Form(page[p]) :
            ReadProject(c, body, {f \in Fields : body[f] # page[p][f]}, touched[p])
    BY <1>2 DEF SavePage
  <2>3. body \in Contents
    <3>1. ASSUME NEW S \in SUBSET Ids PROVE Toggled(S) \subseteq SUBSET Ids
      BY DEF Toggled
    <3>2. page[p].maintainers \in SUBSET Ids /\ page[p].developers \in SUBSET Ids
      BY <2>1 DEF Contents
    <3>3. Toggled(page[p].maintainers) \subseteq SUBSET Ids
          /\ Toggled(page[p].developers) \subseteq SUBSET Ids
      BY <3>1, <3>2
    <3> QED BY <3>3 DEF Form, Contents
  <2>4. IsBody(body)
    BY <2>3, ContentsAreBodies
  <2>5. touched[p] \subseteq Fields /\ Agrees(p)
    BY <1>2 DEF SavePage, ProjectsInv, PagesOK
  <2>6. Changed(body) \subseteq {f \in Fields : body[f] # page[p][f]} \cup touched[p]
    BY <2>4, <2>5 DEF Changed, Agrees, IsBody
  <2> QED BY <2>2, <2>4, <2>5, <2>6, ReadStep
<1> QED BY <1>1, <1>2

\* A request that ends: what is asked of the others is that their lists are still good when
\* theirs is the version of the project.
LEMMA EndMoves ==
  ASSUME CallsOK, NEW c \in Calls, EndCall(c), members \subseteq members', parted' = parted,
         \A d \in Calls \ {c} : CallFits(call[d], project', members, parted)
  PROVE  CallsOK' /\ Saving' = Saving \ {c}
<1>1. DOMAIN call' = Calls /\ \A d \in Calls : call'[d] = IF d = c THEN NoCall ELSE call[d]
  BY DEF CallsOK, EndCall
<1>2. ASSUME NEW d \in Calls \ {c}
      PROVE  WellCall(call'[d]) /\ CallFits(call'[d], project', members', parted')
  <2>1. WellCall(call'[d]) /\ CallFits(call'[d], project', members, parted)
    BY <1>1 DEF CallsOK
  <2> QED BY <2>1 DEF CallFits
<1>3. CallsOK'
  BY <1>1, <1>2, NoCallFits DEF CallsOK
<1>4. NoCall.pc = "idle"
  BY DEF NoCall
<1>5. Saving' = Saving \ {c}
  BY <1>4, SavingMoves DEF EndCall
<1> QED BY <1>3, <1>5

\* The unique index lets one creation through.
LEMMA CreateStep ==
  ASSUME ProjectsInv, NEW c \in Calls, CreateProject(c)
  PROVE  ProjectsInv'
<1>1. /\ EndCall(c) /\ UNCHANGED <<branch, page, parted, touched, calls>>
      /\ call[c].pc = "create"
  BY DEF CreateProject, At
<1>2. CASE Created
  <2>1. UNCHANGED <<project, members>>
    BY <1>2 DEF CreateProject
  <2>2. NoCall.pc # "save" /\ calls \in Nat /\ calls <= MaxCalls
    BY DEF NoCall, ProjectsInv, CountOK
  <2> QED BY <1>1, <2>1, <2>2, NoCallFits, QuietStep DEF EndCall
<1>3. CASE ~Created
  <2> DEFINE body == call[c].body
  <2>1. /\ project' = [version |-> 1, is |-> body]
        /\ members' = members \cup Both(body)
    BY <1>3 DEF CreateProject, Both
  <2>2. body \in Contents /\ Both(body) \subseteq Users /\ Apart(body)
    BY <1>1 DEF ProjectsInv, CallsOK, CallFits
  <2>3. Saving = {}
    BY <1>3 DEF ProjectsInv, CountOK
  <2> HIDE DEF body
  <2>4. ProjectOK'
    BY <1>1, <2>1, <2>2 DEF ProjectsInv, ProjectOK
  <2>5. \A d \in Calls \ {c} : CallFits(call[d], project', members, parted)
    BY <2>3 DEF ProjectsInv, CallsOK, CallFits, Saving, At
  <2>6. CallsOK' /\ Saving' = {}
    BY <1>1, <2>1, <2>3, <2>5, EndMoves DEF ProjectsInv
  <2>7. CountOK'
    BY <1>1, <2>1, <2>6, FS_EmptySet DEF ProjectsInv, CountOK, Created
  <2>8. BranchOK' /\ PagesOK'
    BY <1>1, <1>3, <2>1 DEF ProjectsInv, BranchOK, Live, PagesOK
  <2> QED BY <2>4, <2>6, <2>7, <2>8 DEF ProjectsInv
<1> QED BY <1>2, <1>3

\* save() writes over the document what the body carries, and a list only over the version
\* that was read.
LEMMA SaveStep ==
  ASSUME ProjectsInv, NEW c \in Calls, SaveProject(c)
  PROVE  ProjectsInv'
<1> DEFINE body == call[c].body
<1>1. /\ EndCall(c) /\ call[c].pc = "save" /\ UNCHANGED <<branch, page, parted, calls>>
      /\ members' = members \cup Both(project'.is)
      /\ touched' = [p \in Pages |->
            touched[p] \cup {f \in Fields : project'.is[f] # project.is[f]}]
  BY DEF SaveProject, At, Both
<1>2. /\ project.version \in Nat /\ project.is \in Contents /\ IsBody(body)
      /\ call[c].version \in Nat /\ call[c].version <= project.version
      /\ \A f \in ListsOf(body) : body[f] \subseteq Users
      /\ ~parted /\ call[c].version = project.version => Apart(Over(project.is, body))
  BY <1>1, CallFields DEF ProjectsInv, ProjectOK, CallsOK, CallFits
<1>3. c \in Saving /\ Cardinality(Saving) \in Nat /\ Created
  BY <1>1, FS_CardinalityType DEF Saving, At, ProjectsInv, CountOK
<1>4. IsFiniteSet(Saving \ {c}) /\ Cardinality(Saving \ {c}) = Cardinality(Saving) - 1
  BY <1>3, FS_RemoveElement DEF ProjectsInv, CountOK
<1>5. CASE ~Current(c)
  <2>1. project' = project /\ members' = members /\ touched' = touched
    BY <1>1, <1>5 DEF SaveProject, ProjectsInv, ProjectOK, PagesOK
  <2>2. NoCall.pc # "save" /\ calls \in Nat /\ calls <= MaxCalls
    BY DEF NoCall, ProjectsInv, CountOK
  <2> QED BY <1>1, <2>1, <2>2, NoCallFits, QuietStep DEF EndCall
<1>6. CASE Current(c)
  <2> DEFINE over == Over(project.is, body)
  <2>1. /\ project' = [version |-> project.version + (IF ListsOf(body) = {} THEN 0 ELSE 1),
                       is |-> over]
    BY <1>6 DEF SaveProject, Written
  <2>2. over \in Contents
        /\ \A f \in Lists : over[f] = IF f \in ListsOf(body) THEN body[f] ELSE project.is[f]
    BY <1>2, OverContents DEF Fields, ListsOf
  <2>3. ListsOf(body) # {} => call[c].version = project.version
    BY <1>6 DEF Current
  <2> HIDE DEF over
  <2>4. /\ project'.is = over
        /\ project'.version = project.version + (IF ListsOf(body) = {} THEN 0 ELSE 1)
    BY <2>1
  <2>5. Both(over) \subseteq Users
    <3>1. \A f \in Lists : project.is[f] \subseteq Users
      BY DEF ProjectsInv, ProjectOK, Both, Lists
    <3> QED BY <1>2, <2>2, <3>1 DEF Both, Lists
  <2>6. ~parted => Apart(over)
    <3>1. CASE ListsOf(body) = {}
      BY <2>2, <3>1 DEF ProjectsInv, ProjectOK, Apart, Lists
    <3>2. CASE ListsOf(body) # {}
      BY <1>2, <2>3, <3>2 DEF over
    <3> QED BY <3>1, <3>2
  <2>7. ProjectOK'
    <3>1. Both(over) \subseteq Ids
      BY <2>5
    <3> QED BY <1>1, <1>2, <2>1, <2>2, <2>4, <2>5, <2>6, <3>1 DEF ProjectsInv, ProjectOK
  <2>8. ASSUME NEW d \in Calls \ {c} PROVE CallFits(call[d], project', members, parted)
    <3>1. WellCall(call[d]) /\ CallFits(call[d], project, members, parted)
      BY DEF ProjectsInv, CallsOK
    <3>2. IsBody(call[d].body) /\ call[d].version \in Nat
      BY <3>1, CallFields
    <3>3. ASSUME call[d].pc = "save", ~parted, call[d].version = project'.version
          PROVE  Apart(Over(over, call[d].body))
      <4>1. ListsOf(body) = {} /\ call[d].version = project.version
        BY <1>2, <2>4, <3>1, <3>2, <3>3 DEF CallFits
      <4>2. \A f \in Lists : over[f] = project.is[f]
        BY <2>2, <4>1
      <4>3. Apart(Over(project.is, call[d].body))
        BY <3>1, <3>3, <4>1 DEF CallFits
      <4>4. \A f \in Lists : Over(over, call[d].body)[f] = Over(project.is, call[d].body)[f]
        BY <1>2, <2>2, <3>2, <4>2, OverContents DEF Fields
      <4> QED BY <4>3, <4>4 DEF Apart, Lists
    <3>4. call[d].pc = "save" => call[d].version <= project'.version
      BY <1>2, <2>4, <3>1, <3>2 DEF CallFits
    <3> QED BY <2>4, <3>1, <3>3, <3>4 DEF CallFits
  <2>9. CallsOK' /\ Saving' = Saving \ {c}
    <3>1. members \subseteq members'
      BY <1>1
    <3> QED BY <1>1, <2>8, <3>1, EndMoves DEF ProjectsInv
  <2>10. CountOK'
    BY <1>1, <1>2, <1>3, <1>4, <2>4, <2>9 DEF ProjectsInv, CountOK, Created
  <2>11. BranchOK'
    BY <1>1 DEF ProjectsInv, BranchOK, Live
  <2>12. PagesOK'
    <3>1. touched' \in [Pages -> SUBSET Fields]
      BY <1>1 DEF ProjectsInv, PagesOK
    <3>2. ASSUME NEW p \in Pages, page[p] # NoBody PROVE Created' /\ Agrees(p)'
      <4>1. Created'
        BY <1>2, <1>3, <2>4 DEF Created
      <4>2. \A f \in Fields \ touched'[p] : f \notin touched[p] /\ project'.is[f] = project.is[f]
        BY <1>1
      <4> QED BY <1>1, <3>2, <4>1, <4>2 DEF ProjectsInv, PagesOK, Agrees
    <3> QED BY <1>1, <3>1, <3>2 DEF ProjectsInv, PagesOK
  <2> QED BY <2>7, <2>9, <2>10, <2>11, <2>12 DEF ProjectsInv
<1> QED BY <1>5, <1>6

\* A step that leaves the project alone and ends its request, or touches none.
LEMMA BranchMoves ==
  ASSUME ProjectsInv, BranchOK', UNCHANGED <<project, page, members, parted, touched, calls>>,
         (\E c \in Calls : EndCall(c)) \/ call' = call
  PROVE  ProjectsInv'
<1>1. ProjectOK' /\ PagesOK'
  BY DEF ProjectsInv, ProjectOK, PagesOK, Agrees, Created
<1>2. CallsOK' /\ Saving' \subseteq Saving
  <2>1. CASE call' = call
    BY <2>1 DEF ProjectsInv, CallsOK, Saving, At
  <2>2. ASSUME NEW c \in Calls, EndCall(c) PROVE CallsOK' /\ Saving' \subseteq Saving
    <3>1. \A d \in Calls : CallFits(call[d], project', members, parted)
      BY DEF ProjectsInv, CallsOK
    <3> QED BY <2>2, <3>1, EndMoves DEF ProjectsInv
  <2> QED BY <2>1, <2>2
<1>3. calls \in Nat /\ calls <= MaxCalls
  BY DEF ProjectsInv, CountOK
<1>4. CountOK'
  BY <1>2, <1>3, CountKept DEF ProjectsInv
<1> QED BY <1>1, <1>2, <1>4 DEF ProjectsInv

\* The unique index on project and name lets a name in once.
LEMMA BranchSteps ==
  ASSUME ProjectsInv, NEW c \in Calls, InsertBranch(c) \/ SaveBranch(c)
  PROVE  ProjectsInv'
<1>1. EndCall(c) /\ UNCHANGED <<project, page, members, parted, touched, calls>>
  BY DEF InsertBranch, SaveBranch, history
<1>2. /\ WellCall(call[c]) /\ CallFits(call[c], project, members, parted)
      /\ branch \in [Docs -> BranchDoc]
  BY DEF ProjectsInv, CallsOK, BranchOK
<1>3. BranchOK'
  <2>1. CASE branch' = branch
    BY <1>1, <2>1 DEF ProjectsInv, BranchOK, Live
  <2>2. CASE InsertBranch(c) /\ branch' # branch
    <3>1. ~Tracked(call[c].name) /\ call[c].pc = "insert"
      BY <2>2 DEF InsertBranch, Duplicate, At
    <3>2. PICK b \in Docs :
            branch' = [branch EXCEPT ![b] = [name |-> call[c].name, life |-> "live",
                                             owner |-> call[c].owner, active |-> TRUE]]
      BY <2>2 DEF InsertBranch
    <3> DEFINE new == [name |-> call[c].name, life |-> "live", owner |-> call[c].owner,
                       active |-> TRUE]
    <3>3. call[c].name \in Names /\ call[c].owner \in members /\ members \subseteq Ids
      BY <1>2, <3>1, CallFields DEF CallFits, ProjectsInv, ProjectOK
    <3>4. new \in BranchDoc /\ new.owner \in members /\ new.name = call[c].name
      BY <3>3 DEF BranchDoc
    <3> HIDE DEF new
    <3>5. /\ branch' \in [Docs -> BranchDoc]
          /\ \A o \in Docs : branch'[o] = IF o = b THEN new ELSE branch[o]
      BY <1>2, <3>2, <3>4 DEF new
    <3>6. \A o \in Live' : o # b => o \in Live /\ branch'[o] = branch[o]
      BY <3>5 DEF Live
    <3>7. \A o \in Live : branch[o].name # new.name
      BY <3>1, <3>4 DEF Tracked
    <3>8. \A o \in Live' : o # b => branch'[o].name # new.name /\ branch'[o].owner \in members
      BY <3>6, <3>7 DEF ProjectsInv, BranchOK
    <3>9. branch'[b] = new
      BY <3>5
    <3>10. \A x, y \in Live' : branch'[x].name = branch'[y].name => x = y
      BY <3>6, <3>8, <3>9 DEF ProjectsInv, BranchOK
    <3> QED BY <1>1, <3>4, <3>5, <3>8, <3>9, <3>10 DEF BranchOK
  <2>3. CASE SaveBranch(c) /\ branch' # branch
    <3> DEFINE b == call[c].doc
               owner == IF call[c].owner \in {Keep, call[c].was} THEN branch[b].owner ELSE call[c].owner
               active == IF call[c].active = Keep THEN branch[b].active ELSE call[c].active
               new == [branch[b] EXCEPT !.owner = owner, !.active = active]
    <3>1. b \in Docs /\ call[c].owner \in members \cup {Keep}
          /\ call[c].owner \in Ids \cup {Keep} /\ call[c].active \in BOOLEAN \cup {Keep}
      BY <1>2, <2>3, CallFields DEF SaveBranch, At, CallFits
    <3>2. branch' = [branch EXCEPT ![b] = new]
      BY <1>2, <2>3, <3>1 DEF SaveBranch
    <3>3. branch[b] \in BranchDoc
      BY <1>2, <3>1
    <3>4. owner \in Ids /\ active \in BOOLEAN
      BY <3>1, <3>3 DEF BranchDoc
    <3>5. b \in Live => owner \in members
      BY <3>1 DEF ProjectsInv, BranchOK
    <3> HIDE DEF owner, active
    <3>6. new \in BranchDoc /\ new.name = branch[b].name /\ new.life = branch[b].life
          /\ new.owner = owner
      BY <3>3, <3>4 DEF BranchDoc
    <3> HIDE DEF new, b
    <3>7. /\ branch' \in [Docs -> BranchDoc]
          /\ \A o \in Docs : branch'[o] = IF o = b THEN new ELSE branch[o]
      BY <1>2, <3>1, <3>2, <3>6
    <3>8. Live' = Live /\ \A o \in Docs : branch'[o].name = branch[o].name
      BY <3>6, <3>7 DEF Live
    <3>9. \A o \in Live : branch'[o].owner \in members
      BY <3>5, <3>6, <3>7 DEF ProjectsInv, BranchOK, Live
    <3>10. \A x, y \in Live : branch'[x].name = branch'[y].name => x = y
      BY <3>8 DEF ProjectsInv, BranchOK, Live
    <3> QED BY <1>1, <3>7, <3>8, <3>9, <3>10 DEF BranchOK
  <2> QED BY <2>1, <2>2, <2>3
<1> QED BY <1>1, <1>3, BranchMoves

LEMMA DeleteStep ==
  ASSUME ProjectsInv, NEW b \in Docs, DeleteBranch(b)
  PROVE  ProjectsInv'
<1>1. /\ branch' = [branch EXCEPT ![b].life = "deleted"] /\ branch \in [Docs -> BranchDoc]
      /\ UNCHANGED <<project, page, call, members, parted, touched, calls>>
  BY DEF DeleteBranch, history, ProjectsInv, BranchOK
<1>2. branch[b] \in BranchDoc
  BY <1>1
<1>3. branch' = [branch EXCEPT ![b] = [branch[b] EXCEPT !.life = "deleted"]]
  BY <1>1
<1> DEFINE new == [branch[b] EXCEPT !.life = "deleted"]
<1>4. new \in BranchDoc /\ new.life = "deleted"
  BY <1>2 DEF BranchDoc
<1> HIDE DEF new
<1>5. /\ branch' \in [Docs -> BranchDoc]
      /\ \A o \in Docs : branch'[o] = IF o = b THEN new ELSE branch[o]
  BY <1>1, <1>3, <1>4 DEF new
<1>6. \A o \in Live' : o \in Live /\ branch'[o] = branch[o]
  BY <1>4, <1>5 DEF Live
<1>7. BranchOK'
  BY <1>1, <1>5, <1>6 DEF ProjectsInv, BranchOK
<1> QED BY <1>1, <1>7, BranchMoves

LEMMA PageStep ==
  ASSUME ProjectsInv, NEW p \in Pages, OpenPage(p)
  PROVE  ProjectsInv'
<1>1. PagesOK'
  BY DEF OpenPage, ProjectsInv, PagesOK, ProjectOK, Agrees, Created
<1>2. UNCHANGED <<project, branch, call, members, parted, calls>>
  BY DEF OpenPage, history
<1>3. CallsOK' /\ ProjectOK' /\ BranchOK' /\ CountOK'
  BY <1>2 DEF ProjectsInv, CallsOK, ProjectOK, BranchOK, Live, CountOK, Saving, At, Created
<1> QED BY <1>1, <1>3 DEF ProjectsInv
-----------------------------------------------------------------------------
(* The theorems.                                                           *)

LEMMA InvStep ==
  ASSUME ProjectsInv, [Next]_vars
  PROVE  ProjectsInv'
<1>1. ASSUME NEW c \in Calls, CallStep(c) PROVE ProjectsInv'
  BY <1>1, StartSteps, CheckSteps, UpdateSteps, CreateStep, SaveStep, BranchSteps, DeleteStep
     DEF CallStep, BranchesSection
<1>2. CASE UNCHANGED vars
  BY <1>2 DEF vars, documents, history, ProjectsInv, CallsOK, ProjectOK, BranchOK, Live,
     PagesOK, Agrees, CountOK, Saving, At, Created
<1> QED BY <1>1, <1>2, PageStep DEF Next

LEMMA ProjectsInvariant == Spec => []ProjectsInv
<1>1. ProjectsInv /\ [Next]_vars => ProjectsInv'
  BY InvStep
<1> QED BY <1>1, InvInit, PTL DEF Spec

\* Every reachable state of the project, its branches, the pages and the requests is well
\* typed; in particular the version counts no more than the saves of a list
\* (projectsController.ts:131-148).
THEOREM ProjectsTypeCorrect == Spec => []TypeOK
<1>1. ProjectsInv => TypeOK
  <2> SUFFICES ASSUME ProjectsInv PROVE TypeOK
    OBVIOUS
  <2>1. project \in [version : 0..MaxCalls + 1, is : Contents]
    <3>1. Cardinality(Saving) \in Nat
      BY FS_CardinalityType DEF ProjectsInv, CountOK
    <3>2. project.version \in 0..MaxCalls + 1
      BY <3>1 DEF ProjectsInv, CountOK, ProjectOK
    <3> QED BY <3>2 DEF ProjectsInv, ProjectOK
  <2>2. DOMAIN page = Pages /\ \A p \in Pages : IsBody(page[p])
    BY ContentsAreBodies, NoBodyIsBody DEF ProjectsInv, PagesOK
  <2>3. DOMAIN call = Calls
        /\ \A c \in Calls : IsBody(call[c].body) /\ [call[c] EXCEPT !.body = NoBody] \in Call
    BY DEF ProjectsInv, CallsOK, WellCall
  <2> QED BY <2>1, <2>2, <2>3 DEF TypeOK, ProjectsInv, ProjectOK, BranchOK, PagesOK, CountOK
<1> QED BY <1>1, ProjectsInvariant, PTL

\* What the handlers check before they write holds of what is written, for every number of
\* overlapping requests (projectsController.ts:14-20, :206-214, :246-251): the lists name
\* existing users, and none twice as long as both are sent, a name is tracked once, and an
\* owner is or was a member.
THEOREM ChecksKept == Spec => []ChecksHold
<1>1. ProjectsInv => ChecksHold
  BY DEF ProjectsInv, ProjectOK, BranchOK, ChecksHold, Both, Apart
<1> QED BY <1>1, ProjectsInvariant, PTL

\* A save changes only what its sender meant to change, but for the fields that were saved
\* between the time its form was filled and the time the handler read the project: a form
\* agrees with the document on all the others, and save() writes none that agrees
\* (ProjectDetailPage.tsx:52-75, projectsController.ts:131-148).
THEOREM OnlyWhatWasAskedKept == Spec => OnlyWhatWasAsked
<1> DEFINE Changes(f) == project'.is[f] # project.is[f]
           Asked(f) == \E c \in Calls : /\ At(c, "save") /\ ~At(c, "save")'
                                       /\ f \in call[c].asked \cup call[c].since
           Step == Created => \A f \in Fields : Changes(f) => Asked(f)
<1>1. ProjectsInv /\ [Next]_vars => [Step]_vars
  <2> SUFFICES ASSUME ProjectsInv, Next, Created, NEW f \in Fields, Changes(f) PROVE Asked(f)
    BY DEF vars, documents
  <2>1. PICK c \in Calls : SaveProject(c)
    <3>1. project' # project
      OBVIOUS
    <3> QED BY <3>1 DEF Next, CallStep, BranchesSection, FindSlug, CreateProject, SavePage,
         PatchProject, ReadProject, CheckOwner, ReadBranch, DeleteBranch, FindName, InsertBranch,
         CheckNewOwner, SaveBranch, CallFails, OpenPage, Start, Begin, documents
  <2>2. At(c, "save") /\ EndCall(c) /\ project'.is = Over(project.is, call[c].body)
    BY <2>1 DEF SaveProject, Written
  <2>3. /\ WellCall(call[c]) /\ CallFits(call[c], project, members, parted)
        /\ project.is \in Contents /\ DOMAIN call = Calls
    BY DEF ProjectsInv, CallsOK, ProjectOK
  <2>4. f \in DOMAIN call[c].body
    BY <2>2, <2>3, CallFields, OverContents
  <2>5. f \in call[c].asked \cup call[c].since
    BY <2>2, <2>3, <2>4 DEF CallFits, At
  <2>6. ~At(c, "save")'
    BY <2>2, <2>3 DEF EndCall, At, NoCall
  <2> QED BY <2>2, <2>5, <2>6
<1> QED BY <1>1, ProjectsInvariant, PTL DEF Spec, OnlyWhatWasAsked
=============================================================================
