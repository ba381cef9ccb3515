-------------------------- MODULE Accounts_proofs --------------------------
(***************************************************************************)
(* Theorems about accounts and sessions, for every number of accounts,     *)
(* sessions, requests, passwords, rotations and failures.                  *)
(***************************************************************************)
EXTENDS Accounts, FiniteSetTheorems, TLAPS

USE AccountsAssumption DEF AccountsAssumption

Pcs == {"idle"} \cup LoginPcs \cup RefreshPcs \cup RequestPcs
AdminOps == TargetOps \cup {"createUser"}

\* What a call has read fits the await it is at.  At the authentication the operation
\* is known already, for it decides where the call goes on.
CallFits(r) ==
    /\ r.pc \in LoginPcs => r.user \in Users
    /\ r.pc \in RefreshPcs => r.sid \in Sids
    /\ r.pc \in RequestPcs => r.sid \in Sids /\ r.user \in Users
    /\ r.pc \in {"findName", "insert"} => r.target \in Users
    /\ r.pc \in {"targetRead", "targetSave", "targetRevoke"} =>
          r.target \in Users /\ r.op \in TargetOps
    /\ r.pc = "authUser" => /\ r.op \in AdminOps \cup {"logout", "change"}
                            /\ r.op \in AdminOps => r.target \in Users

CallsOK ==
    /\ call \in [Calls -> Call]
    /\ \A c \in Calls : CallFits(call[c])
DocsOK ==
    /\ user \in [Users -> UserDoc]
    /\ session \in [Sids -> SessionDoc]
CountsOK == calls \in 0..MaxCalls /\ faults \in 0..MaxFaults

TypeInv == CallsOK /\ DocsOK /\ CountsOK

LEMMA TypeInvTypeOK == TypeInv => TypeOK
BY DEF TypeInv, CallsOK, DocsOK, CountsOK, TypeOK, CallFits

LEMMA CallFields ==
  ASSUME CallsOK, NEW c \in Calls
  PROVE  call[c] \in Call /\ CallFits(call[c])
BY DEF CallsOK

LEMMA CallMoves ==
  ASSUME CallsOK, NEW c \in Calls, NEW r \in Call, CallFits(r),
         call' = [call EXCEPT ![c] = r]
  PROVE  CallsOK'
BY DEF CallsOK

LEMMA NoCallType == NoCall \in Call /\ CallFits(NoCall)
BY DEF NoCall, Call, CallFits, LoginPcs, RefreshPcs, RequestPcs, SelfOps, TargetOps

LEMMA EndCallType ==
  ASSUME CallsOK, NEW c \in Calls, EndCall(c)
  PROVE  CallsOK'
BY CallMoves, NoCallType, Zenon DEF EndCall

\* A call goes on to an await that its fields fit.
LEMMA GotoType ==
  ASSUME CallsOK, NEW c \in Calls, NEW pc \in Pcs, NEW b \in BOOLEAN, pc # "authUser",
         pc \in LoginPcs => call[c].user \in Users,
         pc \in RefreshPcs => call[c].sid \in Sids,
         pc \in RequestPcs => call[c].sid \in Sids /\ call[c].user \in Users,
         pc \in {"findName", "insert"} => call[c].target \in Users,
         pc \in {"targetRead", "targetSave", "targetRevoke"} =>
            call[c].target \in Users /\ call[c].op \in TargetOps,
         \/ Goto(c, pc)
         \/ call' = [call EXCEPT ![c] = [@ EXCEPT !.pc = pc, !.same = b]]
  PROVE  CallsOK'
<1> DEFINE r1 == [call[c] EXCEPT !.pc = pc]
           r2 == [call[c] EXCEPT !.pc = pc, !.same = b]
<1>1. r1 \in Call /\ CallFits(r1)
  BY CallFields DEF Call, Pcs, CallFits
<1>2. r2 \in Call /\ CallFits(r2)
  BY CallFields DEF Call, Pcs, CallFits
<1>3. call' = [call EXCEPT ![c] = r1] \/ call' = [call EXCEPT ![c] = r2]
  BY Zenon DEF Goto
<1> HIDE DEF r1, r2
<1> QED BY <1>1, <1>2, <1>3, CallMoves

LEMMA InitType == Init => TypeInv
<1> SUFFICES ASSUME Init PROVE TypeInv
  OBVIOUS
<1>1. CallsOK
  BY NoCallType DEF Init, CallsOK
<1>2. DocsOK
  BY DEF Init, DocsOK, UserDoc, SessionDoc, Statuses, Roles
<1>3. CountsOK
  BY DEF Init, CountsOK
<1> QED BY <1>1, <1>2, <1>3 DEF TypeInv

LEMMA UnlockedType ==
  ASSUME NEW doc \in UserDoc
  PROVE  Unlocked(doc) \in UserDoc
<1>1. "ACTIVE" \in Statuses /\ 0 \in 0..MaxAttempts
  BY DEF Statuses
<1>2. Unlocked(doc) = [doc EXCEPT !.status = "ACTIVE", !.attempts = 0]
  BY DEF Unlocked
<1> QED BY <1>1, <1>2 DEF UserDoc

LEMMA RotatedType ==
  ASSUME NEW doc \in SessionDoc, doc.token < MaxTokens
  PROVE  Rotated(doc) \in SessionDoc
<1> DEFINE l == IF doc.life = "revoked" THEN doc.life ELSE "live"
           t == doc.token + 1
<1>1. l \in {"live", "expired", "revoked"} /\ t \in 0..MaxTokens
  BY DEF SessionDoc
<1>2. Rotated(doc) = [doc EXCEPT !.token = t, !.life = l]
  BY DEF Rotated
<1> HIDE DEF l, t
<1> QED BY <1>1, <1>2 DEF SessionDoc

\* What the steps write into a document keeps its type.
LEMMA UserWritten ==
  ASSUME DocsOK, NEW u \in Users, NEW st \in Statuses, NEW role \in Roles,
         NEW n \in 0..MaxAttempts, NEW p \in 0..MaxPasswords, NEW m \in BOOLEAN,
         NEW by \in Sids \cup {NoSid},
         \/ user' = user
         \/ user' = [user EXCEPT ![u] = Unlocked(@)]
         \/ user' = [user EXCEPT ![u].attempts = n]
         \/ user' = [user EXCEPT ![u].status = st]
         \/ user' = [user EXCEPT ![u].role = role]
         \/ user' = [user EXCEPT ![u] = Inserted(@, role)]
         \/ user' = [user EXCEPT ![u] = [@ EXCEPT !.password = p, !.mustChange = m, !.setBy = by]]
  PROVE  user' \in [Users -> UserDoc]
<1>1. user \in [Users -> UserDoc] /\ user[u] \in UserDoc
  BY DEF DocsOK
<1>2. /\ Unlocked(user[u]) \in UserDoc
      /\ [user[u] EXCEPT !.attempts = n] \in UserDoc
      /\ [user[u] EXCEPT !.status = st] \in UserDoc
      /\ [user[u] EXCEPT !.role = role] \in UserDoc
      /\ Inserted(user[u], role) \in UserDoc
      /\ [user[u] EXCEPT !.password = p, !.mustChange = m, !.setBy = by] \in UserDoc
  <2>1. Unlocked(user[u]) \in UserDoc
    BY <1>1, UnlockedType
  <2>2. [user[u] EXCEPT !.attempts = n] \in UserDoc
    BY <1>1 DEF UserDoc
  <2>3. [user[u] EXCEPT !.status = st] \in UserDoc
    BY <1>1 DEF UserDoc
  <2>4. [user[u] EXCEPT !.role = role] \in UserDoc
    BY <1>1 DEF UserDoc
  <2>5. [user[u] EXCEPT !.password = p, !.mustChange = m, !.setBy = by] \in UserDoc
    BY <1>1 DEF UserDoc
  <2>6. Inserted(user[u], role) \in UserDoc
    BY <1>1 DEF UserDoc, Inserted, Statuses
  <2> QED BY <2>1, <2>2, <2>3, <2>4, <2>5, <2>6
<1>3. \/ user' = user
      \/ user' = [user EXCEPT ![u] = Unlocked(user[u])]
      \/ user' = [user EXCEPT ![u] = [user[u] EXCEPT !.attempts = n]]
      \/ user' = [user EXCEPT ![u] = [user[u] EXCEPT !.status = st]]
      \/ user' = [user EXCEPT ![u] = [user[u] EXCEPT !.role = role]]
      \/ user' = [user EXCEPT ![u] = Inserted(user[u], role)]
      \/ user' = [user EXCEPT ![u] =
                    [user[u] EXCEPT !.password = p, !.mustChange = m, !.setBy = by]]
  BY Zenon
<1>4. ASSUME NEW doc \in UserDoc PROVE [user EXCEPT ![u] = doc] \in [Users -> UserDoc]
  BY <1>1
<1> QED BY <1>1, <1>2, <1>3, <1>4, Zenon

LEMMA SessionWritten ==
  ASSUME DocsOK, NEW s \in Sids, NEW S \in SUBSET Sids,
         NEW o \in Users \cup {NoUser}, NEW p \in 0..MaxPasswords, NEW b \in BOOLEAN,
         \/ session' = session
         \/ Revoke(S)
         \/ session' = [session EXCEPT ![s] = [@ EXCEPT !.owner = o, !.password = p,
                                                        !.outlives = b]]
         \/ session' = [session EXCEPT ![s].life = "expired"]
         \/ session' = [session EXCEPT ![s] = Rotated(@)] /\ session[s].token < MaxTokens
         \/ session' = [t \in Sids |-> [session[t] EXCEPT !.outlives = @ \/ t \in S]]
  PROVE  session' \in [Sids -> SessionDoc]
<1>1. session \in [Sids -> SessionDoc] /\ \A t \in Sids : session[t] \in SessionDoc
  BY DEF DocsOK
<1>2. ASSUME NEW doc \in SessionDoc PROVE [session EXCEPT ![s] = doc] \in [Sids -> SessionDoc]
  BY <1>1
<1>3. CASE Revoke(S)
  <2>1. \A t \in Sids : [session[t] EXCEPT !.life = "revoked"] \in SessionDoc
    BY <1>1 DEF SessionDoc
  <2> QED BY <1>1, <1>3, <2>1 DEF Revoke
<1>4. CASE session' = [t \in Sids |-> [session[t] EXCEPT !.outlives = @ \/ t \in S]]
  <2>1. ASSUME NEW t \in Sids PROVE [session[t] EXCEPT !.outlives = @ \/ t \in S] \in SessionDoc
    <3> DEFINE q == session[t].outlives \/ t \in S
    <3>1. q \in BOOLEAN
      BY Zenon
    <3> HIDE DEF q
    <3>2. [session[t] EXCEPT !.outlives = q] \in SessionDoc
      BY <1>1, <3>1 DEF SessionDoc
    <3> QED BY <3>2, Zenon DEF q
  <2> QED BY <1>4, <2>1
<1>5. CASE session' = [session EXCEPT ![s] = Rotated(@)] /\ session[s].token < MaxTokens
  <2>1. Rotated(session[s]) \in SessionDoc
    BY <1>1, <1>5, RotatedType
  <2> QED BY <1>2, <1>5, <2>1
<1>6. /\ [session[s] EXCEPT !.owner = o, !.password = p, !.outlives = b] \in SessionDoc
      /\ [session[s] EXCEPT !.life = "expired"] \in SessionDoc
  <2>1. [session[s] EXCEPT !.owner = o, !.password = p, !.outlives = b] \in SessionDoc
    BY <1>1 DEF SessionDoc
  <2>2. [session[s] EXCEPT !.life = "expired"] \in SessionDoc
    BY <1>1 DEF SessionDoc
  <2> QED BY <2>1, <2>2
<1>7. \/ session' = session
      \/ Revoke(S)
      \/ session' = [session EXCEPT ![s] = [session[s] EXCEPT !.owner = o, !.password = p,
                                                              !.outlives = b]]
      \/ session' = [session EXCEPT ![s] = [session[s] EXCEPT !.life = "expired"]]
      \/ session' = [session EXCEPT ![s] = Rotated(@)] /\ session[s].token < MaxTokens
      \/ session' = [t \in Sids |-> [session[t] EXCEPT !.outlives = @ \/ t \in S]]
  BY Zenon
<1> QED BY <1>1, <1>2, <1>3, <1>4, <1>5, <1>6, <1>7, Zenon

LEMMA StartType ==
  ASSUME CallsOK, CountsOK, NEW c \in Calls, NEW r \in Call, CallFits(r), Start(c, r)
  PROVE  CallsOK' /\ calls' \in 0..MaxCalls
<1>1. CallsOK'
  BY CallMoves DEF Start
<1> QED BY <1>1 DEF Start, CountsOK

LEMMA LoginType ==
  ASSUME TypeInv, NEW c \in Calls, LoginStep(c)
  PROVE  TypeInv'
<1>1. CallsOK /\ DocsOK /\ CountsOK /\ call[c] \in Call /\ CallFits(call[c])
  BY CallFields DEF TypeInv
<1>2. ASSUME NEW u \in Users, NEW guess \in 0..MaxPasswords, StartLogin(c, u, guess)
      PROVE  TypeInv'
  <2> DEFINE r == [NoCall EXCEPT !.pc = "release", !.user = u, !.guess = guess]
  <2>1. r \in Call
    BY NoCallType DEF Call, LoginPcs
  <2>2. CallFits(r)
    BY DEF CallFits, NoCall, LoginPcs, RefreshPcs, RequestPcs
  <2>3. Start(c, r) /\ UNCHANGED <<user, session, faults>>
    BY <1>2, Zenon DEF StartLogin
  <2> HIDE DEF r
  <2> QED BY <1>1, <2>1, <2>2, <2>3, StartType DEF TypeInv, DocsOK, CountsOK
<1>3. CASE ReleaseRead(c) \/ Unlock(c) \/ ReadFresh(c) \/ CountFailure(c) \/ Lock(c)
           \/ RegisterSuccess(c) \/ CreateSession(c)
  <2>1. call[c].user \in Users /\ calls' = calls /\ faults' = faults
    BY <1>1, <1>3 DEF ReleaseRead, Unlock, ReadFresh, CountFailure, Lock, RegisterSuccess,
       CreateSession, At, CallFits, LoginPcs
  <2>2. CallsOK'
    <3>1. EndCall(c) \/ \E pc \in LoginPcs : Goto(c, pc)
      BY <1>3 DEF ReleaseRead, Unlock, ReadFresh, CountFailure, Lock, RegisterSuccess,
         CreateSession, LoginPcs
    <3>2. ASSUME NEW pc \in LoginPcs
          PROVE  pc \in Pcs /\ pc # "authUser" /\ pc \notin RefreshPcs /\ pc \notin RequestPcs
                 /\ pc \notin {"findName", "insert", "targetRead", "targetSave", "targetRevoke"}
      BY DEF Pcs, LoginPcs, RefreshPcs, RequestPcs
    <3>3. ASSUME NEW pc \in LoginPcs, Goto(c, pc) PROVE CallsOK'
      BY <1>1, <2>1, <3>2, <3>3, GotoType
    <3> QED BY <1>1, <3>1, <3>3, EndCallType
  <2>3. user' \in [Users -> UserDoc]
    <3> DEFINE u == call[c].user
    <3>1. \/ user' = user
          \/ user' = [user EXCEPT ![u] = Unlocked(@)]
          \/ user' = [user EXCEPT ![u].status = "LOCKED"]
          \/ user[u].attempts < MaxAttempts /\ user' = [user EXCEPT ![u].attempts = @ + 1]
      BY <1>3 DEF ReleaseRead, Unlock, ReadFresh, CountFailure, Lock, RegisterSuccess,
         CreateSession
    <3>2. \/ user' = user
          \/ user' = [user EXCEPT ![u] = Unlocked(@)]
          \/ user' = [user EXCEPT ![u].status = "LOCKED"]
          \/ \E n \in 0..MaxAttempts : user' = [user EXCEPT ![u].attempts = n]
      <4>1. user[u] \in UserDoc
        BY <1>1, <2>1 DEF DocsOK
      <4>2. user[u].attempts < MaxAttempts => user[u].attempts + 1 \in 0..MaxAttempts
        BY <4>1 DEF UserDoc
      <4>3. CASE user[u].attempts < MaxAttempts /\ user' = [user EXCEPT ![u].attempts = @ + 1]
        BY <4>2, <4>3, Zenon
      <4> QED BY <3>1, <4>3, Zenon
    <3>3. "LOCKED" \in Statuses /\ "ADMIN" \in Roles /\ 0 \in 0..MaxAttempts
          /\ 0 \in 0..MaxPasswords /\ TRUE \in BOOLEAN /\ NoSid \in Sids \cup {NoSid}
      BY DEF Statuses, Roles
    <3> HIDE DEF u
    <3>4. u \in Users
      BY <2>1 DEF u
    <3> QED BY <1>1, <3>2, <3>3, <3>4, UserWritten, Zenon
  <2>4. session' \in [Sids -> SessionDoc]
    <3>1. CASE session' = session
      BY <1>1, <3>1 DEF DocsOK
    <3>2. CASE session' # session
      <4>1. PICK s \in Free :
              session' = [session EXCEPT ![s] = [@ EXCEPT
                !.owner = call[c].user, !.password = call[c].guess,
                !.outlives = call[c].guess # user[call[c].user].password]]
        BY <1>3, <3>2 DEF ReleaseRead, Unlock, ReadFresh, CountFailure, Lock, RegisterSuccess,
           CreateSession
      <4>2. /\ call[c].guess \in 0..MaxPasswords /\ s \in Sids /\ {} \in SUBSET Sids
            /\ (call[c].guess # user[call[c].user].password) \in BOOLEAN
        BY <1>1 DEF Call, Free
      <4> QED BY <1>1, <2>1, <4>1, <4>2, SessionWritten, Zenon
    <3> QED BY <3>1, <3>2
  <2> QED BY <1>1, <2>1, <2>2, <2>3, <2>4 DEF TypeInv, DocsOK, CountsOK
<1> QED BY <1>2, <1>3 DEF LoginStep

LEMMA RefreshType ==
  ASSUME TypeInv, NEW c \in Calls, RefreshStep(c)
  PROVE  TypeInv'
<1>1. CallsOK /\ DocsOK /\ CountsOK /\ call[c] \in Call /\ CallFits(call[c])
  BY CallFields DEF TypeInv
<1>2. ASSUME NEW s \in Sids, NEW token \in 0..MaxTokens, StartRefresh(c, s, token)
      PROVE  TypeInv'
  <2> DEFINE pc == IF token = session[s].token THEN "refreshUser" ELSE "reuse"
             r == [NoCall EXCEPT !.pc = pc, !.sid = s]
  <2>1. r \in Call
    BY NoCallType DEF Call, RefreshPcs
  <2>2. CallFits(r)
    BY DEF CallFits, NoCall, LoginPcs, RefreshPcs, RequestPcs
  <2>3. Start(c, r) /\ UNCHANGED <<user, session, faults>>
    BY <1>2, Zenon DEF StartRefresh
  <2> HIDE DEF r
  <2> QED BY <1>1, <2>1, <2>2, <2>3, StartType DEF TypeInv, DocsOK, CountsOK
<1>3. CASE RevokeReused(c) \/ RefreshUser(c) \/ RotateRead(c) \/ RotateSave(c)
  <2>1. call[c].sid \in Sids /\ calls' = calls /\ faults' = faults /\ user' = user
    BY <1>1, <1>3 DEF RevokeReused, RefreshUser, RotateRead, RotateSave, At, CallFits, RefreshPcs
  <2>2. CallsOK'
    <3>1. EndCall(c) \/ \E pc \in RefreshPcs : Goto(c, pc)
      BY <1>3 DEF RevokeReused, RefreshUser, RotateRead, RotateSave, RefreshPcs
    <3>2. ASSUME NEW pc \in RefreshPcs
          PROVE  pc \in Pcs /\ pc # "authUser" /\ pc \notin LoginPcs /\ pc \notin RequestPcs
                 /\ pc \notin {"findName", "insert", "targetRead", "targetSave", "targetRevoke"}
      BY DEF Pcs, LoginPcs, RefreshPcs, RequestPcs
    <3>3. ASSUME NEW pc \in RefreshPcs, Goto(c, pc) PROVE CallsOK'
      BY <1>1, <2>1, <3>2, <3>3, GotoType
    <3> QED BY <1>1, <3>1, <3>3, EndCallType
  <2>3. session' \in [Sids -> SessionDoc]
    <3> DEFINE s == call[c].sid
    <3>1. \/ session' = session
          \/ Revoke({s})
          \/ session' = [session EXCEPT ![s] = Rotated(@)] /\ session[s].token < MaxTokens
      BY <1>3 DEF RevokeReused, RefreshUser, RotateRead, RotateSave
    <3> HIDE DEF s
    <3>2. s \in Sids /\ {s} \in SUBSET Sids /\ TRUE \in BOOLEAN /\ 0 \in 0..MaxPasswords
          /\ NoUser \in Users \cup {NoUser}
      BY <2>1 DEF s
    <3> QED BY <1>1, <3>1, <3>2, SessionWritten, Zenon
  <2> QED BY <1>1, <2>1, <2>2, <2>3 DEF TypeInv, DocsOK, CountsOK
<1> QED BY <1>2, <1>3 DEF RefreshStep

\* What a page or another client may ask for.
Asked(c, s, op, target, guess) ==
    /\ StartRequest(c, s, op, target, guess)
    /\ op \in AdminOps \cup {"logout", "change"}
    /\ op \in AdminOps => target \in Users
    /\ target \in Users \cup {NoUser} /\ guess \in 0..MaxPasswords

RequestSteps(c) ==
    \/ AuthenticateUser(c) \/ Logout(c) \/ ChangeRead(c) \/ ChangeSave(c) \/ ChangeRevoke(c)
    \/ FindName(c) \/ InsertUser(c) \/ TargetRead(c) \/ TargetSave(c) \/ TargetRevoke(c)

LEMMA RequestCases ==
  ASSUME NEW c \in Calls, RequestStep(c)
  PROVE  \/ RequestSteps(c)
         \/ \E s \in Sids : \E op, target, guess : Asked(c, s, op, target, guess)
<1> USE DEF Asked
<1>1. 0 \in 0..MaxPasswords /\ "logout" \notin AdminOps /\ "change" \notin AdminOps
      /\ "createUser" \in AdminOps /\ TargetOps \subseteq AdminOps
  BY DEF AdminOps, TargetOps, Roles
<1>2. ASSUME NEW s \in Sids, StartRequest(c, s, "logout", NoUser, 0)
      PROVE  Asked(c, s, "logout", NoUser, 0)
  BY <1>1, <1>2
<1>3. ASSUME NEW s \in Sids, NEW t \in Users, StartRequest(c, s, "createUser", t, 0)
      PROVE  Asked(c, s, "createUser", t, 0)
  BY <1>1, <1>3
<1>4. ASSUME NEW s \in Sids, NEW t \in Users, NEW op \in TargetOps, StartRequest(c, s, op, t, 0)
      PROVE  Asked(c, s, op, t, 0)
  BY <1>1, <1>4
<1>5. ASSUME NEW s \in Sids, NEW g \in 0..MaxPasswords, StartRequest(c, s, "change", NoUser, g)
      PROVE  Asked(c, s, "change", NoUser, g)
  BY <1>1, <1>5
<1> HIDE DEF Asked
<1> QED BY <1>2, <1>3, <1>4, <1>5, Zenon
      DEF RequestStep, RequestSteps, CreateUserForm, UserRow, ChangePasswordPage

LEMMA AskedType ==
  ASSUME TypeInv, NEW c \in Calls, NEW s \in Sids, NEW op, NEW target, NEW guess,
         Asked(c, s, op, target, guess)
  PROVE  TypeInv'
<1> DEFINE r == [NoCall EXCEPT !.pc = "authUser", !.op = op, !.sid = s,
                               !.user = session[s].owner, !.target = target, !.guess = guess]
<1>1. session[s] \in SessionDoc /\ session[s].owner \in Users
  BY DEF Asked, StartRequest, Active, Present, TypeInv, DocsOK, SessionDoc
<1>2. r \in Call
  <2>1. op \in TargetOps \cup SelfOps \cup {"createUser"} /\ "authUser" \in Pcs
    BY DEF Asked, AdminOps, SelfOps, Pcs, RequestPcs
  <2> QED BY <1>1, <2>1, NoCallType DEF Asked, Call, Pcs
<1>3. CallFits(r)
  BY <1>1 DEF Asked, CallFits, NoCall, LoginPcs, RefreshPcs, RequestPcs
<1>4. Start(c, r) /\ UNCHANGED <<user, session, faults>>
  BY Zenon DEF Asked, StartRequest
<1> HIDE DEF r
<1> QED BY <1>2, <1>3, <1>4, StartType DEF TypeInv, DocsOK, CountsOK

LEMMA RequestCallType ==
  ASSUME TypeInv, NEW c \in Calls, RequestSteps(c)
  PROVE  CallsOK' /\ call[c].sid \in Sids /\ call[c].user \in Users
<1>1. CallsOK /\ DocsOK /\ call[c] \in Call /\ CallFits(call[c])
  BY CallFields DEF TypeInv
<1>2. call[c].pc \in RequestPcs
  BY DEF RequestSteps, AuthenticateUser, Logout, ChangeRead, ChangeSave, ChangeRevoke, FindName,
     InsertUser, TargetRead, TargetSave, TargetRevoke, At, RequestPcs
<1>3. call[c].sid \in Sids /\ call[c].user \in Users
  BY <1>1, <1>2 DEF CallFits
<1> SUFFICES CallsOK'
  BY <1>3
<1>4. ASSUME NEW pc \in {"logout", "changeSave", "changeRead", "changeRevoke"}
      PROVE  /\ pc \in Pcs /\ pc # "authUser" /\ pc \notin LoginPcs /\ pc \notin RefreshPcs
             /\ pc \notin {"findName", "insert", "targetRead", "targetSave", "targetRevoke"}
  BY DEF Pcs, LoginPcs, RefreshPcs, RequestPcs
<1>5. ASSUME NEW pc \in {"findName", "insert"}
      PROVE  /\ pc \in Pcs /\ pc # "authUser" /\ pc \notin LoginPcs /\ pc \notin RefreshPcs
             /\ pc \notin {"targetRead", "targetSave", "targetRevoke"}
  BY DEF Pcs, LoginPcs, RefreshPcs, RequestPcs
<1>6. ASSUME NEW pc \in {"targetRead", "targetSave", "targetRevoke"}
      PROVE  /\ pc \in Pcs /\ pc # "authUser" /\ pc \notin LoginPcs /\ pc \notin RefreshPcs
             /\ pc \notin {"findName", "insert"}
  BY DEF Pcs, LoginPcs, RefreshPcs, RequestPcs
<1>7. ASSUME NEW pc \in {"logout", "changeSave", "changeRead", "changeRevoke"}, Goto(c, pc)
      PROVE  CallsOK'
  <2>1. TRUE \in BOOLEAN
    OBVIOUS
  <2> QED BY <1>1, <1>3, <1>4, <1>7, <2>1, GotoType
<1>8. ASSUME NEW pc \in {"findName", "insert"}, call[c].target \in Users, Goto(c, pc)
      PROVE  CallsOK'
  <2>1. TRUE \in BOOLEAN
    OBVIOUS
  <2> QED BY <1>1, <1>3, <1>5, <1>8, <2>1, GotoType
<1>9. ASSUME NEW pc \in {"targetRead", "targetSave", "targetRevoke"}, Goto(c, pc),
             call[c].target \in Users, call[c].op \in TargetOps
      PROVE  CallsOK'
  <2>1. TRUE \in BOOLEAN
    OBVIOUS
  <2> QED BY <1>1, <1>3, <1>6, <1>9, <2>1, GotoType
<1>10. EndCall(c) => CallsOK'
  BY <1>1, EndCallType
<1>11. CASE AuthenticateUser(c)
  <2>1. EndCall(c) \/ Goto(c, FirstStep(call[c].op))
    BY <1>11 DEF AuthenticateUser
  <2>2. /\ call[c].op \in AdminOps \cup {"logout", "change"}
        /\ call[c].op \in AdminOps => call[c].target \in Users
    BY <1>1, <1>11 DEF AuthenticateUser, At, CallFits
  <2>3. CASE call[c].op \in {"logout", "change"}
    <3>1. FirstStep(call[c].op) \in {"logout", "changeRead"}
      BY <2>3 DEF FirstStep
    <3> QED BY <1>7, <1>10, <2>1, <3>1, Zenon
  <2>4. CASE call[c].op = "createUser"
    <3>1. FirstStep(call[c].op) = "findName" /\ call[c].target \in Users
      BY <2>2, <2>4 DEF FirstStep, AdminOps
    <3>2. "findName" \in {"findName", "insert"}
      OBVIOUS
    <3> QED BY <1>8, <1>10, <2>1, <3>1, <3>2, Zenon
  <2>5. CASE call[c].op \in TargetOps
    <3>1. FirstStep(call[c].op) = "targetRead" /\ call[c].target \in Users
      BY <2>2, <2>5 DEF FirstStep, AdminOps, TargetOps, Roles
    <3>2. "targetRead" \in {"targetRead", "targetSave", "targetRevoke"}
      OBVIOUS
    <3> QED BY <1>9, <1>10, <2>1, <2>5, <3>1, <3>2, Zenon
  <2> QED BY <2>2, <2>3, <2>4, <2>5 DEF AdminOps
<1>12. CASE Logout(c) \/ ChangeRevoke(c) \/ InsertUser(c) \/ TargetRevoke(c)
  BY <1>10, <1>12 DEF Logout, ChangeRevoke, InsertUser, TargetRevoke
<1>13. CASE ChangeRead(c)
  <2>1. user[call[c].user] \in UserDoc
    BY <1>1, <1>3 DEF DocsOK
  <2>2. \/ EndCall(c)
        \/ call' = [call EXCEPT ![c] = [@ EXCEPT !.pc = "changeSave",
                                                 !.same = ~user[call[c].user].mustChange]]
    BY <1>13, Zenon DEF ChangeRead
  <2>3. (~user[call[c].user].mustChange) \in BOOLEAN
    BY Zenon
  <2>4. ASSUME NEW b \in BOOLEAN,
               call' = [call EXCEPT ![c] = [@ EXCEPT !.pc = "changeSave", !.same = b]]
        PROVE  CallsOK'
    <3>1. "changeSave" \in {"logout", "changeSave", "changeRead", "changeRevoke"}
      OBVIOUS
    <3>2. /\ "changeSave" \in Pcs /\ "changeSave" # "authUser" /\ "changeSave" \notin LoginPcs
          /\ "changeSave" \notin RefreshPcs
          /\ "changeSave" \notin {"findName", "insert", "targetRead", "targetSave", "targetRevoke"}
      BY <1>4, <3>1
    <3> QED BY <1>1, <1>3, <2>4, <3>2, GotoType
  <2> QED BY <1>10, <2>2, <2>3, <2>4, Zenon
<1>14. CASE ChangeSave(c)
  <2>1. Goto(c, "changeRevoke")
        /\ "changeRevoke" \in {"logout", "changeSave", "changeRead", "changeRevoke"}
    BY <1>14 DEF ChangeSave
  <2> QED BY <1>7, <2>1, Zenon
<1>15. CASE FindName(c)
  <2>1. call[c].target \in Users /\ (EndCall(c) \/ Goto(c, "insert"))
    BY <1>1, <1>15 DEF FindName, CallFits, At
  <2>2. "insert" \in {"findName", "insert"}
    OBVIOUS
  <2> QED BY <1>8, <1>10, <2>1, <2>2, Zenon
<1>16. CASE TargetRead(c)
  <2>1. call[c].target \in Users /\ call[c].op \in TargetOps
    BY <1>1, <1>16 DEF TargetRead, CallFits, At
  <2>2. \/ EndCall(c)
        \/ call' = [call EXCEPT ![c] = [@ EXCEPT !.pc = "targetSave",
                                  !.same = AlreadySo(call[c].target, call[c].op)]]
    BY <1>16, Zenon DEF TargetRead
  <2>3. AlreadySo(call[c].target, call[c].op) \in BOOLEAN
    <3>1. user[call[c].target].mustChange \in BOOLEAN
      BY <1>1, <2>1 DEF DocsOK, UserDoc
    <3> QED BY <3>1 DEF AlreadySo, Roles
  <2>4. ASSUME NEW b \in BOOLEAN,
               call' = [call EXCEPT ![c] = [@ EXCEPT !.pc = "targetSave", !.same = b]]
        PROVE  CallsOK'
    <3>1. "targetSave" \in {"targetRead", "targetSave", "targetRevoke"}
      OBVIOUS
    <3>2. /\ "targetSave" \in Pcs /\ "targetSave" # "authUser" /\ "targetSave" \notin LoginPcs
          /\ "targetSave" \notin RefreshPcs /\ "targetSave" \notin {"findName", "insert"}
      BY <1>6, <3>1
    <3> QED BY <1>1, <1>3, <2>1, <2>4, <3>2, GotoType
  <2> QED BY <1>10, <2>2, <2>3, <2>4, Zenon
<1>17. CASE TargetSave(c)
  <2>1. call[c].target \in Users /\ call[c].op \in TargetOps
    BY <1>1, <1>17 DEF TargetSave, CallFits, At
  <2>2. EndCall(c) \/ Goto(c, "targetRevoke")
    BY <1>17 DEF TargetSave
  <2>3. "targetRevoke" \in {"targetRead", "targetSave", "targetRevoke"}
    OBVIOUS
  <2> QED BY <1>9, <1>10, <2>1, <2>2, <2>3, Zenon
<1> QED BY <1>11, <1>12, <1>13, <1>14, <1>15, <1>16, <1>17 DEF RequestSteps

\* What a request writes into the documents.
LEMMA RequestWrites ==
  ASSUME TypeInv, NEW c \in Calls, RequestSteps(c)
  PROVE  DocsOK' /\ UNCHANGED <<calls, faults>>
<1>1. CallsOK /\ DocsOK /\ call[c] \in Call /\ CallFits(call[c])
  BY CallFields DEF TypeInv
<1>2. call[c].sid \in Sids /\ call[c].user \in Users
  BY RequestCallType
<1>3. UNCHANGED <<calls, faults>>
  BY DEF RequestSteps, AuthenticateUser, Logout, ChangeRead, ChangeSave, ChangeRevoke, FindName,
     InsertUser, TargetRead, TargetSave, TargetRevoke
<1>4. 0 \in 0..MaxAttempts /\ 0 \in 0..MaxPasswords /\ "ADMIN" \in Roles
      /\ "ACTIVE" \in Statuses /\ TRUE \in BOOLEAN /\ NoUser \in Users \cup {NoUser}
      /\ NoSid \in Sids \cup {NoSid}
  BY DEF Statuses, Roles
<1>5. ASSUME NEW S \in SUBSET Sids, Revoke(S) PROVE session' \in [Sids -> SessionDoc]
  BY <1>1, <1>2, <1>4, <1>5, SessionWritten, Zenon
<1>6. CASE AuthenticateUser(c) \/ ChangeRead(c) \/ FindName(c) \/ TargetRead(c)
  BY <1>1, <1>3, <1>6 DEF AuthenticateUser, ChangeRead, FindName, TargetRead, DocsOK
<1>7. CASE Logout(c) \/ ChangeRevoke(c) \/ TargetRevoke(c)
  <2>1. user' = user /\ \E S \in SUBSET Sids : Revoke(S)
    BY <1>2, <1>7 DEF Logout, ChangeRevoke, TargetRevoke, SessionsOf, TargetSessions
  <2> QED BY <1>1, <1>3, <1>5, <2>1 DEF DocsOK
<1>8. CASE ChangeSave(c)
  <2> DEFINE u == call[c].user
             p == NewPassword(u)
             m == Saved(c, user[u].mustChange, FALSE)
  <2>1. p \in 0..MaxPasswords /\ m \in BOOLEAN
    <3>1. user[u] \in UserDoc
      BY <1>1, <1>2 DEF DocsOK
    <3>2. user[u].password < MaxPasswords
      BY <1>8, Zenon DEF ChangeSave
    <3>3. p \in 0..MaxPasswords
      BY <3>1, <3>2 DEF NewPassword, UserDoc
    <3>4. user[u].mustChange \in BOOLEAN
      BY <3>1 DEF UserDoc
    <3>5. m \in BOOLEAN
      BY <3>4 DEF Saved
    <3> QED BY <3>3, <3>5
  <2>2. /\ user' = [user EXCEPT ![u].password = p, ![u].mustChange = m, ![u].setBy = call[c].sid]
        /\ session' = session
    BY <1>8, Zenon DEF ChangeSave
  <2> HIDE DEF p, m
  <2>3. user' \in [Users -> UserDoc]
    BY <1>1, <1>2, <2>1, <2>2 DEF DocsOK, UserDoc
  <2> QED BY <1>1, <1>3, <2>2, <2>3 DEF DocsOK
<1>9. CASE InsertUser(c)
  <2>1. call[c].target \in Users
    BY <1>1, <1>9 DEF InsertUser, At, CallFits
  <2>2. /\ \E role \in Roles : user' = [user EXCEPT ![call[c].target] = Inserted(@, role)]
        /\ session' = session
    BY <1>9, Zenon DEF InsertUser
  <2>3. user' \in [Users -> UserDoc]
    BY <1>1, <1>4, <2>1, <2>2, UserWritten, Zenon
  <2> QED BY <1>1, <1>3, <2>2, <2>3 DEF DocsOK
<1>10. CASE TargetSave(c)
  <2> DEFINE t == call[c].target
             role == Saved(c, user[t].role, call[c].op)
             st == Saved(c, user[t].status, IF call[c].op = "delete" THEN "DELETED" ELSE "DEACTIVATED")
             p == NewPassword(t)
             m == Saved(c, user[t].mustChange, TRUE)
  <2>1. t \in Users /\ user[t] \in UserDoc
    BY <1>1, <1>10 DEF TargetSave, At, CallFits, DocsOK
  <2>2. (call[c].op \in Roles => role \in Roles) /\ st \in Statuses /\ m \in BOOLEAN
    BY <2>1 DEF Saved, UserDoc, Statuses
  <2>3. session' = session
    BY <1>10 DEF TargetSave
  <2>4. \/ call[c].op \in Roles /\ user' = [user EXCEPT ![t].role = role]
        \/ user[t].password < MaxPasswords
           /\ user' = [user EXCEPT ![t].password = p, ![t].mustChange = m, ![t].setBy = NoSid]
        \/ user' = [user EXCEPT ![t].status = st]
    BY <1>10, Zenon DEF TargetSave
  <2>5. user[t].password < MaxPasswords => p \in 0..MaxPasswords
    BY <2>1 DEF NewPassword, UserDoc
  <2> HIDE DEF t, role, st, p, m
  <2>6. user' \in [Users -> UserDoc]
    <3>1. CASE \/ call[c].op \in Roles /\ user' = [user EXCEPT ![t].role = role]
               \/ user' = [user EXCEPT ![t].status = st]
      BY <1>1, <1>4, <2>1, <2>2, <3>1, UserWritten, Zenon
    <3>2. CASE user[t].password < MaxPasswords
               /\ user' = [user EXCEPT ![t].password = p, ![t].mustChange = m, ![t].setBy = NoSid]
      BY <1>1, <2>1, <2>2, <2>5, <3>2 DEF DocsOK, UserDoc
    <3> QED BY <2>4, <3>1, <3>2
  <2> QED BY <1>1, <1>3, <2>3, <2>6 DEF DocsOK
<1> QED BY <1>6, <1>7, <1>8, <1>9, <1>10 DEF RequestSteps

LEMMA TimeType ==
  ASSUME TypeInv, \/ \E c \in Calls : CallFails(c)
                  \/ \E u \in Users : LockPasses(u)
                  \/ \E s \in Sids : SessionExpires(s)
  PROVE  TypeInv'
<1>1. CallsOK /\ DocsOK /\ CountsOK /\ 0 \in 0..MaxAttempts /\ 0 \in 0..MaxPasswords
      /\ "ADMIN" \in Roles /\ "LOCK_OVER" \in Statuses /\ TRUE \in BOOLEAN
      /\ NoUser \in Users \cup {NoUser} /\ {} \in SUBSET Sids /\ NoSid \in Sids \cup {NoSid}
  BY DEF TypeInv, Statuses, Roles
<1>2. ASSUME NEW c \in Calls, CallFails(c) PROVE TypeInv'
  <2>1. CallsOK' /\ calls' \in 0..MaxCalls /\ faults' \in 0..MaxFaults /\ user' = user
    BY <1>1, <1>2, EndCallType DEF CallFails, CountsOK
  <2>2. session' \in [Sids -> SessionDoc]
    <3>1. session' = [s \in Sids |->
                        [session[s] EXCEPT !.outlives = @ \/ s \in Revoking(c) \cap Sids]]
      BY <1>2 DEF CallFails
    <3>2. Revoking(c) \cap Sids \in SUBSET Sids
      OBVIOUS
    <3>3. \A s \in Sids : [session[s] EXCEPT !.outlives = @ \/ s \in Revoking(c) \cap Sids]
                            \in SessionDoc
      <4> SUFFICES ASSUME NEW s \in Sids
                   PROVE  [session[s] EXCEPT !.outlives = @ \/ s \in Revoking(c) \cap Sids]
                            \in SessionDoc
        OBVIOUS
      <4> DEFINE q == session[s].outlives \/ s \in Revoking(c) \cap Sids
      <4>1. q \in BOOLEAN /\ session[s] \in SessionDoc
        BY <1>1, Zenon DEF DocsOK
      <4> HIDE DEF q
      <4>2. [session[s] EXCEPT !.outlives = q] \in SessionDoc
        BY <4>1 DEF SessionDoc
      <4> QED BY <4>2, Zenon DEF q
    <3> QED BY <3>1, <3>3
  <2> QED BY <1>1, <2>1, <2>2 DEF TypeInv, DocsOK, CountsOK
<1>3. ASSUME NEW u \in Users, LockPasses(u) PROVE TypeInv'
  <2>1. user' = [user EXCEPT ![u].status = "LOCK_OVER"] /\ UNCHANGED <<session, call, calls, faults>>
    BY <1>3 DEF LockPasses
  <2>2. user' \in [Users -> UserDoc]
    BY <1>1, <2>1, UserWritten, Zenon
  <2> QED BY <1>1, <2>1, <2>2 DEF TypeInv, CallsOK, DocsOK, CountsOK
<1>4. ASSUME NEW s \in Sids, SessionExpires(s) PROVE TypeInv'
  <2>1. session' = [session EXCEPT ![s].life = "expired"] /\ UNCHANGED <<user, call, calls, faults>>
    BY <1>4 DEF SessionExpires
  <2>2. session' \in [Sids -> SessionDoc]
    BY <1>1, <2>1, SessionWritten, Zenon
  <2> QED BY <1>1, <2>1, <2>2 DEF TypeInv, CallsOK, DocsOK, CountsOK
<1> QED BY <1>2, <1>3, <1>4

LEMMA TypeInvStep ==
  ASSUME TypeInv, [Next]_vars
  PROVE  TypeInv'
<1>1. ASSUME NEW c \in Calls, CallStep(c) PROVE TypeInv'
  <2>1. CASE LoginStep(c) \/ RefreshStep(c)
    BY <2>1, LoginType, RefreshType
  <2>2. CASE RequestStep(c)
    <3>1. CASE RequestSteps(c)
      BY <3>1, RequestCallType, RequestWrites DEF TypeInv, CountsOK
    <3>2. CASE \E s \in Sids : \E op, target, guess : Asked(c, s, op, target, guess)
      BY <3>2, AskedType
    <3> QED BY <2>2, <3>1, <3>2, RequestCases
  <2>3. CASE CallFails(c)
    BY <2>3, TimeType
  <2> QED BY <1>1, <2>1, <2>2, <2>3 DEF CallStep
<1>2. CASE UNCHANGED vars
  BY <1>2 DEF vars, TypeInv, CallsOK, DocsOK, CountsOK
<1> QED BY <1>1, <1>2, TimeType DEF Next

LEMMA TypeInvariant == Spec => []TypeInv
<1>1. TypeInv /\ [Next]_vars => TypeInv'
  BY TypeInvStep
<1> QED BY <1>1, InitType, PTL DEF Spec

\* Every reachable state is type correct; in particular a handler that is about to save an
\* account or revoke its sessions has found that account (usersController.ts:53-140).
THEOREM AccountsTypeCorrect == Spec => []TypeOK
BY TypeInvariant, TypeInvTypeOK, PTL
-----------------------------------------------------------------------------
(* What a step does to the sessions and to the accounts.                   *)

LEMMA WhoWritesSessions ==
  ASSUME [Next]_vars
  PROVE  \/ session' = session
         \/ \E c \in Calls : CreateSession(c) \/ RotateSave(c) \/ CallFails(c)
         \/ \E t \in Sids : SessionExpires(t)
         \/ \E S : Revoke(S)
<1>1. ASSUME NEW c \in Calls, LoginStep(c) PROVE CreateSession(c) \/ session' = session
  BY <1>1 DEF LoginStep, StartLogin, ReleaseRead, Unlock, ReadFresh, CountFailure, Lock,
     RegisterSuccess
<1>2. ASSUME NEW c \in Calls, RefreshStep(c)
      PROVE  RotateSave(c) \/ (\E S : Revoke(S)) \/ session' = session
  BY <1>2 DEF RefreshStep, StartRefresh, RevokeReused, RefreshUser, RotateRead
<1>3. ASSUME NEW c \in Calls, RequestStep(c)
      PROVE  (\E S : Revoke(S)) \/ session' = session
  <2>1. CASE RequestSteps(c)
    BY <2>1 DEF RequestSteps, AuthenticateUser, Logout, ChangeRead, ChangeSave, ChangeRevoke,
       FindName, InsertUser, TargetRead, TargetSave, TargetRevoke
  <2>2. CASE \E t \in Sids : \E op, target, guess : Asked(c, t, op, target, guess)
    BY <2>2 DEF Asked, StartRequest
  <2> QED BY <1>3, <2>1, <2>2, RequestCases
<1>4. ASSUME NEW u \in Users, LockPasses(u) PROVE session' = session
  BY <1>4 DEF LockPasses
<1>5. CASE UNCHANGED vars
  BY <1>5 DEF vars
<1> QED BY <1>1, <1>2, <1>3, <1>4, <1>5 DEF Next, CallStep

\* The fields of a session that a step may change, and by which call.
OpenedBy(c, s) ==
    /\ CreateSession(c) /\ session[s].owner = NoUser
    /\ session'[s].owner = call[c].user
    /\ session'[s].password = call[c].guess
    /\ session'[s].outlives = (call[c].guess # user[call[c].user].password)

LEMMA SessionFields ==
  ASSUME TypeInv, [Next]_vars, NEW s \in Sids
  PROVE  \/ \E c \in Calls : OpenedBy(c, s) /\ session'[s].life = session[s].life
         \/ /\ session'[s].owner = session[s].owner
            /\ session[s].life = "revoked" => session'[s].life = "revoked"
            /\ session[s].outlives => session'[s].outlives
            /\ session'[s].password = session[s].password
<1> DEFINE Kept == /\ session'[s].owner = session[s].owner
                   /\ session[s].life = "revoked" => session'[s].life = "revoked"
                   /\ session[s].outlives => session'[s].outlives
                   /\ session'[s].password = session[s].password
<1>1. session \in [Sids -> SessionDoc] /\ session[s] \in SessionDoc
  BY DEF TypeInv, DocsOK
<1>2. ASSUME NEW S, Revoke(S) PROVE Kept
  <2>1. session'[s] = session[s] \/ session'[s] = [session[s] EXCEPT !.life = "revoked"]
    BY <1>2 DEF Revoke
  <2> QED BY <1>1, <2>1 DEF SessionDoc
<1>3. CASE session' = session
  BY <1>3
<1>4. ASSUME NEW c \in Calls, CreateSession(c)
      PROVE  Kept \/ (OpenedBy(c, s) /\ session'[s].life = session[s].life)
  <2> DEFINE o == call[c].user
             p == call[c].guess
             b == call[c].guess # user[call[c].user].password
  <2>1. PICK t \in Free :
          session' = [session EXCEPT ![t] = [@ EXCEPT !.owner = o, !.password = p, !.outlives = b]]
    BY <1>4, Zenon DEF CreateSession
  <2>2. CASE t = s
    <3> HIDE DEF o, p, b
    <3>1. session'[s] = [session[s] EXCEPT !.owner = o, !.password = p, !.outlives = b]
      BY <1>1, <2>1, <2>2
    <3>2. /\ session'[s].owner = o /\ session'[s].password = p /\ session'[s].outlives = b
          /\ session'[s].life = session[s].life
      BY <1>1, <3>1 DEF SessionDoc
    <3>3. session[s].owner = NoUser
      BY <2>1, <2>2 DEF Free, Present
    <3> QED BY <1>4, <3>2, <3>3, Zenon DEF OpenedBy, o, p, b
  <2>3. CASE t # s
    <3> HIDE DEF o, p, b
    <3> QED BY <1>1, <2>1, <2>3
  <2> QED BY <2>2, <2>3
<1>5. ASSUME NEW c \in Calls, RotateSave(c) PROVE Kept
  <2>1. session'[s] = session[s] \/ session'[s] = Rotated(session[s])
    BY <1>1, <1>5 DEF RotateSave
  <2>2. /\ Rotated(session[s]).owner = session[s].owner
        /\ session[s].life = "revoked" => Rotated(session[s]).life = "revoked"
        /\ Rotated(session[s]).outlives = session[s].outlives
        /\ Rotated(session[s]).password = session[s].password
    BY <1>1 DEF Rotated, SessionDoc
  <2> QED BY <2>1, <2>2
<1>6. ASSUME NEW c \in Calls, CallFails(c) PROVE Kept
  <2> DEFINE b == session[s].outlives \/ s \in Revoking(c)
  <2>1. session'[s] = [session[s] EXCEPT !.outlives = b]
    BY <1>6, Zenon DEF CallFails
  <2>2. session[s].outlives => b
    OBVIOUS
  <2> HIDE DEF b
  <2> QED BY <1>1, <2>1, <2>2 DEF SessionDoc
<1>7. ASSUME NEW t \in Sids, SessionExpires(t) PROVE Kept
  <2>1. \/ session'[s] = session[s]
        \/ session'[s] = [session[s] EXCEPT !.life = "expired"] /\ session[s].life = "live"
    BY <1>1, <1>7 DEF SessionExpires, Active
  <2> QED BY <1>1, <2>1 DEF SessionDoc
<1>8. Kept \/ \E c \in Calls : CreateSession(c)
  BY <1>2, <1>3, <1>5, <1>6, <1>7, WhoWritesSessions
<1> QED BY <1>4, <1>8

LEMMA LivesOnlyEnd ==
  ASSUME TypeInv, [Next]_vars, NEW s \in Sids, session[s].life = "revoked"
  PROVE  session'[s].life = "revoked"
BY SessionFields

\* A revoked session stays revoked: no rotation, however old its read, and no new
\* login brings it back (sessionService.ts:52-75).
THEOREM RevocationKept == Spec => RevocationIsFinal
<1>1. TypeInv /\ [Next]_vars =>
        [\A s \in Sids : session[s].life = "revoked" => session'[s].life = "revoked"]_vars
  BY LivesOnlyEnd
<1> QED BY <1>1, TypeInvariant, PTL DEF Spec, RevocationIsFinal
-----------------------------------------------------------------------------
(* What a step does to the accounts and to the calls.                      *)

\* An administrator's request writes the account it is about.
Administered(c, u) ==
    /\ TargetSave(c) /\ call[c].target = u
    /\ user'[u].attempts = user[u].attempts
    /\ \/ /\ call[c].op \in Roles
          /\ user'[u].status = user[u].status /\ user'[u].password = user[u].password
          /\ user'[u].setBy = user[u].setBy /\ user'[u].role \in {user[u].role, call[c].op}
       \/ /\ call[c].op = "reset"
          /\ user'[u].status = user[u].status /\ user'[u].role = user[u].role
       \/ /\ call[c].op \in {"deactivate", "delete"}
          /\ user'[u].status \in {user[u].status, "DEACTIVATED", "DELETED"}
          /\ user'[u].role = user[u].role /\ user'[u].password = user[u].password
          /\ user'[u].setBy = user[u].setBy

\* One step writes the account u, and this is what it writes.
Written(u) ==
    \/ user'[u] = user[u]
    \/ \E c \in Calls : /\ Unlock(c) \/ RegisterSuccess(c)
                        /\ call[c].user = u /\ user'[u] = Unlocked(user[u])
    \/ \E c \in Calls : /\ Lock(c) /\ call[c].user = u
                        /\ user'[u] = [user[u] EXCEPT !.status = "LOCKED"]
    \/ \E c \in Calls : /\ CountFailure(c) /\ call[c].user = u
                        /\ user'[u] = [user[u] EXCEPT !.attempts = user[u].attempts + 1]
    \/ \E c \in Calls : /\ ChangeSave(c) /\ call[c].user = u
                        /\ user'[u].role = user[u].role /\ user'[u].status = user[u].status
                        /\ user'[u].attempts = user[u].attempts /\ user'[u].setBy = call[c].sid
    \/ \E c \in Calls : /\ InsertUser(c) /\ user[u].status = "ABSENT"
                        /\ user'[u].status = "ACTIVE" /\ user'[u].attempts = user[u].attempts
                        /\ user'[u].password = user[u].password
                        /\ user'[u].setBy = user[u].setBy
    \/ \E c \in Calls : Administered(c, u)
    \/ LockPasses(u) /\ user'[u] = [user[u] EXCEPT !.status = "LOCK_OVER"]

LEMMA WhoWritesUsers ==
  ASSUME [Next]_vars
  PROVE  \/ user' = user
         \/ \E c \in Calls : \/ Unlock(c) \/ RegisterSuccess(c) \/ Lock(c) \/ CountFailure(c)
                             \/ ChangeSave(c) \/ InsertUser(c) \/ TargetSave(c)
         \/ \E t \in Users : LockPasses(t)
<1>1. ASSUME NEW c \in Calls, LoginStep(c)
      PROVE  Unlock(c) \/ RegisterSuccess(c) \/ Lock(c) \/ CountFailure(c) \/ user' = user
  BY <1>1 DEF LoginStep, StartLogin, ReleaseRead, ReadFresh, CreateSession
<1>2. ASSUME NEW c \in Calls, RefreshStep(c) PROVE user' = user
  BY <1>2 DEF RefreshStep, StartRefresh, RevokeReused, RefreshUser, RotateRead, RotateSave
<1>3. ASSUME NEW c \in Calls, RequestStep(c)
      PROVE  ChangeSave(c) \/ InsertUser(c) \/ TargetSave(c) \/ user' = user
  <2>1. CASE RequestSteps(c)
    BY <2>1 DEF RequestSteps, AuthenticateUser, Logout, ChangeRead, ChangeRevoke, FindName,
       TargetRead, TargetRevoke
  <2>2. CASE \E t \in Sids : \E op, target, guess : Asked(c, t, op, target, guess)
    BY <2>2 DEF Asked, StartRequest
  <2> QED BY <1>3, <2>1, <2>2, RequestCases
<1>4. ASSUME NEW c \in Calls, CallFails(c) PROVE user' = user
  BY <1>4 DEF CallFails
<1>5. ASSUME NEW s \in Sids, SessionExpires(s) PROVE user' = user
  BY <1>5 DEF SessionExpires
<1>6. CASE UNCHANGED vars
  BY <1>6 DEF vars
<1> QED BY <1>1, <1>2, <1>3, <1>4, <1>5, <1>6 DEF Next, CallStep

LEMMA UserFields ==
  ASSUME TypeInv, [Next]_vars, NEW u \in Users
  PROVE  Written(u)
<1>1. user \in [Users -> UserDoc] /\ user[u] \in UserDoc
  BY DEF TypeInv, DocsOK
<1>2. ASSUME NEW c \in Calls, Unlock(c) \/ RegisterSuccess(c) PROVE Written(u)
  <2>1. user' = [user EXCEPT ![call[c].user] = Unlocked(user[call[c].user])]
    BY <1>2, Zenon DEF Unlock, RegisterSuccess
  <2>2. user'[u] = user[u] \/ (call[c].user = u /\ user'[u] = Unlocked(user[u]))
    BY <1>1, <2>1
  <2> QED BY <1>2, <2>2, Zenon DEF Written
<1>3. ASSUME NEW c \in Calls, Lock(c) PROVE Written(u)
  <2>1. user' = [user EXCEPT ![call[c].user].status = "LOCKED"]
    BY <1>3, Zenon DEF Lock
  <2>2. \/ user'[u] = user[u]
        \/ call[c].user = u /\ user'[u] = [user[u] EXCEPT !.status = "LOCKED"]
    BY <1>1, <2>1
  <2> QED BY <1>3, <2>2, Zenon DEF Written
<1>4. ASSUME NEW c \in Calls, CountFailure(c) PROVE Written(u)
  <2> DEFINE v == call[c].user
             n == user[call[c].user].attempts + 1
  <2>1. user' = [user EXCEPT ![v] = [user[v] EXCEPT !.attempts = n]]
    BY <1>4, Zenon DEF CountFailure
  <2> HIDE DEF n
  <2>2. \/ user'[u] = user[u]
        \/ v = u /\ user'[u] = [user[u] EXCEPT !.attempts = n]
    BY <1>1, <2>1
  <2> QED BY <1>4, <2>2, Zenon DEF Written, n
<1>5. ASSUME NEW c \in Calls, ChangeSave(c) PROVE Written(u)
  <2> DEFINE v == call[c].user
             p == NewPassword(v)
             m == Saved(c, user[v].mustChange, FALSE)
  <2> DEFINE by == call[c].sid
  <2>1. user' = [user EXCEPT ![v] = [user[v] EXCEPT !.password = p, !.mustChange = m,
                                                    !.setBy = by]]
    BY <1>5, Zenon DEF ChangeSave
  <2> HIDE DEF p, m, by
  <2>2. \/ user'[u] = user[u]
        \/ v = u /\ user'[u] = [user[u] EXCEPT !.password = p, !.mustChange = m, !.setBy = by]
    BY <1>1, <2>1
  <2>3. \/ user'[u] = user[u]
        \/ /\ v = u /\ user'[u].role = user[u].role /\ user'[u].status = user[u].status
           /\ user'[u].attempts = user[u].attempts /\ user'[u].setBy = by
    BY <1>1, <2>2 DEF UserDoc
  <2> QED BY <1>5, <2>3, Zenon DEF Written, by
<1>6. ASSUME NEW c \in Calls, InsertUser(c) PROVE Written(u)
  <2> DEFINE t == call[c].target
  <2>1. PICK role \in Roles : user' = [user EXCEPT ![t] = Inserted(user[t], role)]
    BY <1>6, Zenon DEF InsertUser
  <2>2. CASE user[t].status = "ABSENT" /\ t = u
    <3>1. user'[u] = [user[u] EXCEPT !.status = "ACTIVE", !.role = role]
      BY <1>1, <2>1, <2>2 DEF Inserted
    <3>2. /\ user'[u].status = "ACTIVE" /\ user'[u].attempts = user[u].attempts
          /\ user'[u].password = user[u].password /\ user'[u].setBy = user[u].setBy
      BY <1>1, <3>1 DEF UserDoc
    <3> QED BY <1>6, <2>2, <3>2, Zenon DEF Written
  <2>3. CASE ~(user[t].status = "ABSENT" /\ t = u)
    <3>1. user'[u] = user[u]
      BY <1>1, <2>1, <2>3 DEF Inserted
    <3> QED BY <3>1 DEF Written
  <2> QED BY <2>2, <2>3
<1>7. ASSUME NEW c \in Calls, TargetSave(c) PROVE Written(u)
  <2> DEFINE t == call[c].target
             op == call[c].op
             role == Saved(c, user[t].role, op)
             st == Saved(c, user[t].status, IF op = "delete" THEN "DELETED" ELSE "DEACTIVATED")
             p == NewPassword(t)
             m == Saved(c, user[t].mustChange, TRUE)
  <2>1. \/ op \in Roles /\ user' = [user EXCEPT ![t] = [user[t] EXCEPT !.role = role]]
        \/ /\ op = "reset"
           /\ user' = [user EXCEPT ![t] = [user[t] EXCEPT !.password = p, !.mustChange = m,
                                                          !.setBy = NoSid]]
        \/ /\ op \in {"deactivate", "delete"}
           /\ user' = [user EXCEPT ![t] = [user[t] EXCEPT !.status = st]]
    BY <1>7, Zenon DEF TargetSave
  <2>2. /\ role \in {user[t].role, op}
        /\ st \in {user[t].status, "DEACTIVATED", "DELETED"}
    BY DEF Saved
  <2> HIDE DEF t, role, st, p, m
  <2>3. CASE t # u
    <3>1. user'[u] = user[u]
      BY <1>1, <2>1, <2>3
    <3> QED BY <3>1 DEF Written
  <2>4. CASE t = u
    <3>1. CASE op \in Roles /\ user' = [user EXCEPT ![t] = [user[t] EXCEPT !.role = role]]
      <4>1. user'[u] = [user[u] EXCEPT !.role = role]
        BY <1>1, <2>4, <3>1
      <4>2. /\ user'[u].status = user[u].status /\ user'[u].password = user[u].password
            /\ user'[u].attempts = user[u].attempts /\ user'[u].role = role
            /\ user'[u].setBy = user[u].setBy
        BY <1>1, <4>1 DEF UserDoc
      <4> QED BY <1>7, <2>2, <2>4, <3>1, <4>2, Zenon DEF Written, Administered, t
    <3>2. CASE /\ op = "reset"
               /\ user' = [user EXCEPT ![t] = [user[t] EXCEPT !.password = p, !.mustChange = m,
                                                              !.setBy = NoSid]]
      <4>1. user'[u] = [user[u] EXCEPT !.password = p, !.mustChange = m, !.setBy = NoSid]
        BY <1>1, <2>4, <3>2
      <4>2. /\ user'[u].status = user[u].status /\ user'[u].role = user[u].role
            /\ user'[u].attempts = user[u].attempts
        BY <1>1, <4>1 DEF UserDoc
      <4> QED BY <1>7, <2>4, <3>2, <4>2, Zenon DEF Written, Administered, t
    <3>3. CASE /\ op \in {"deactivate", "delete"}
               /\ user' = [user EXCEPT ![t] = [user[t] EXCEPT !.status = st]]
      <4>1. user'[u] = [user[u] EXCEPT !.status = st]
        BY <1>1, <2>4, <3>3
      <4>2. /\ user'[u].role = user[u].role /\ user'[u].password = user[u].password
            /\ user'[u].attempts = user[u].attempts /\ user'[u].status = st
            /\ user'[u].setBy = user[u].setBy
        BY <1>1, <4>1 DEF UserDoc
      <4> QED BY <1>7, <2>2, <2>4, <3>3, <4>2, Zenon DEF Written, Administered, t
    <3> QED BY <2>1, <3>1, <3>2, <3>3
  <2> QED BY <2>3, <2>4
<1>8. ASSUME NEW t \in Users, LockPasses(t) PROVE Written(u)
  <2>1. user' = [user EXCEPT ![t].status = "LOCK_OVER"]
    BY <1>8, Zenon DEF LockPasses
  <2>2. \/ user'[u] = user[u]
        \/ t = u /\ user'[u] = [user[u] EXCEPT !.status = "LOCK_OVER"]
    BY <1>1, <2>1
  <2> QED BY <1>8, <2>2, Zenon DEF Written
<1>9. CASE user' = user
  BY <1>9 DEF Written
<1> QED BY <1>2, <1>3, <1>4, <1>5, <1>6, <1>7, <1>8, <1>9, WhoWritesUsers

\* A step is one call's, or time's: the other calls are left as they were.
LEMMA OtherCalls ==
  ASSUME TypeInv, [Next]_vars, NEW d \in Calls
  PROVE  call'[d] = call[d] \/ CallStep(d)
<1>1. call \in [Calls -> Call]
  BY DEF TypeInv, CallsOK
<1>2. ASSUME NEW c \in Calls, c # d, \/ EndCall(c)
                                     \/ \E pc : Goto(c, pc)
                                     \/ \E r : Start(c, r)
                                     \/ \E r : call' = [call EXCEPT ![c] = r]
      PROVE  call'[d] = call[d]
  BY <1>1, <1>2 DEF EndCall, Goto, Start
<1>3. ASSUME NEW c \in Calls, c # d, CallStep(c) PROVE call'[d] = call[d]
  <2>1. CASE LoginStep(c)
    BY <1>2, <1>3, <2>1 DEF LoginStep, StartLogin, ReleaseRead, Unlock, ReadFresh, CountFailure,
       Lock, RegisterSuccess, CreateSession
  <2>2. CASE RefreshStep(c)
    BY <1>2, <1>3, <2>2 DEF RefreshStep, StartRefresh, RevokeReused, RefreshUser, RotateRead,
       RotateSave
  <2>3. CASE RequestSteps(c)
    <3>1. CASE \/ AuthenticateUser(c) \/ Logout(c) \/ ChangeSave(c) \/ ChangeRevoke(c)
               \/ FindName(c) \/ InsertUser(c) \/ TargetRevoke(c)
      BY <1>2, <1>3, <3>1 DEF AuthenticateUser, Logout, ChangeSave, ChangeRevoke, FindName,
         InsertUser, TargetRevoke
    <3>2. CASE TargetSave(c)
      BY <1>2, <1>3, <3>2 DEF TargetSave
    <3>3. CASE ChangeRead(c)
      <4>1. EndCall(c) \/ \E r : call' = [call EXCEPT ![c] = r]
        BY <3>3, Zenon DEF ChangeRead
      <4> QED BY <1>2, <1>3, <4>1
    <3>4. CASE TargetRead(c)
      <4>1. EndCall(c) \/ \E r : call' = [call EXCEPT ![c] = r]
        BY <3>4, Zenon DEF TargetRead
      <4> QED BY <1>2, <1>3, <4>1
    <3> QED BY <2>3, <3>1, <3>2, <3>3, <3>4 DEF RequestSteps
  <2>4. CASE \E s \in Sids : \E op, target, guess : Asked(c, s, op, target, guess)
    BY <1>2, <1>3, <2>4 DEF Asked, StartRequest
  <2>5. CASE CallFails(c)
    BY <1>2, <1>3, <2>5 DEF CallFails
  <2> QED BY <1>3, <2>1, <2>2, <2>3, <2>4, <2>5, RequestCases DEF CallStep
<1>4. CASE (\E u \in Users : LockPasses(u)) \/ (\E s \in Sids : SessionExpires(s)) \/ UNCHANGED vars
  BY <1>4 DEF LockPasses, SessionExpires, vars
<1> QED BY <1>3, <1>4 DEF Next

\* How a request begins, and how it goes on from one await to the next.
Begun(d) ==
    LET r == call'[d] IN
    /\ call[d] = NoCall
    /\ \/ r.pc = "release" /\ r.user \in Users /\ ~Off(r.user) /\ user[r.user].status # "ABSENT"
       \/ r.pc \in RefreshPcs
       \/ r.pc = "authUser" /\ Active(r.sid) /\ r.user = session[r.sid].owner

SameRequest(d) ==
    /\ call'[d].user = call[d].user /\ call'[d].sid = call[d].sid
    /\ call'[d].target = call[d].target /\ call'[d].op = call[d].op

LoginGoesOn(d) ==
    LET pc == call'[d].pc  u == call[d].user IN
    \/ At(d, "release") /\ (pc = "fresh" \/ (pc = "unlock" /\ user[u].status = "LOCK_OVER"))
    \/ At(d, "unlock") /\ pc = "fresh"
    \/ At(d, "fresh") /\ pc \in {"success", "failed"} /\ ~LockRuns(u)
    \/ At(d, "failed") /\ pc = "lock" /\ CountFailure(d)
    \/ At(d, "success") /\ pc = "create"

RequestGoesOn(d) ==
    LET pc == call'[d].pc  u == call[d].user IN
    \/ /\ At(d, "authUser") /\ pc = FirstStep(call[d].op)
       /\ ~Off(u) /\ MayDo(user[u], call[d].op)
    \/ At(d, "changeRead") /\ pc = "changeSave"
    \/ At(d, "changeSave") /\ pc = "changeRevoke" /\ ChangeSave(d)
    \/ At(d, "findName") /\ pc = "insert"
    \/ At(d, "targetRead") /\ pc = "targetSave" /\ ~OwnAccount(d)
    \/ /\ At(d, "targetSave") /\ pc = "targetRevoke" /\ TargetSave(d)
       /\ call[d].op \in {"reset", "deactivate", "delete"}

GoesOn(d) ==
    /\ SameRequest(d)
    /\ \/ LoginGoesOn(d)
       \/ call[d].pc \in RefreshPcs /\ call'[d].pc \in RefreshPcs
       \/ RequestGoesOn(d)

LEMMA GotoFields ==
  ASSUME CallsOK, NEW d \in Calls, NEW pc, NEW b,
         Goto(d, pc) \/ call' = [call EXCEPT ![d] = [@ EXCEPT !.pc = pc, !.same = b]]
  PROVE  SameRequest(d) /\ call'[d].pc = pc
<1>1. call \in [Calls -> Call] /\ call[d] \in Call
  BY DEF CallsOK
<1>2. \/ call'[d] = [call[d] EXCEPT !.pc = pc]
      \/ call'[d] = [call[d] EXCEPT !.pc = pc, !.same = b]
  BY <1>1 DEF Goto
<1> QED BY <1>1, <1>2 DEF Call, SameRequest

LEMMA CallMove ==
  ASSUME TypeInv, NEW d \in Calls, CallStep(d)
  PROVE  call'[d] = NoCall \/ Begun(d) \/ GoesOn(d)
<1>1. CallsOK /\ call \in [Calls -> Call]
  BY DEF TypeInv, CallsOK
<1>2. EndCall(d) => call'[d] = NoCall
  BY <1>1 DEF EndCall
<1>3. ASSUME NEW r, Start(d, r) PROVE call[d] = NoCall /\ call'[d] = r
  BY <1>1, <1>3 DEF Start
<1>4. ASSUME NEW pc, Goto(d, pc) PROVE SameRequest(d) /\ call'[d].pc = pc
  BY <1>1, <1>4, GotoFields
<1>5. CASE LoginStep(d)
  <2>1. ASSUME NEW u \in Users, NEW guess, StartLogin(d, u, guess) PROVE Begun(d)
    <3> DEFINE r == [NoCall EXCEPT !.pc = "release", !.user = u, !.guess = guess]
    <3>1. Start(d, r)
      BY <2>1, Zenon DEF StartLogin
    <3>2. r.pc = "release" /\ r.user = u
      BY DEF NoCall
    <3> HIDE DEF r
    <3> QED BY <1>3, <2>1, <3>1, <3>2 DEF StartLogin, Begun
  <2>2. CASE ReleaseRead(d) \/ Unlock(d) \/ ReadFresh(d) \/ CountFailure(d) \/ RegisterSuccess(d)
    <3>1. \/ EndCall(d)
          \/ At(d, "release") /\ (Goto(d, "fresh")
               \/ (Goto(d, "unlock") /\ user[call[d].user].status = "LOCK_OVER"))
          \/ At(d, "unlock") /\ Goto(d, "fresh")
          \/ At(d, "fresh") /\ ~LockRuns(call[d].user) /\ (Goto(d, "success") \/ Goto(d, "failed"))
          \/ At(d, "failed") /\ Goto(d, "lock") /\ CountFailure(d)
          \/ At(d, "success") /\ Goto(d, "create")
      <4>1. ReleaseRead(d) => At(d, "release") /\ (Goto(d, "fresh")
               \/ (Goto(d, "unlock") /\ user[call[d].user].status = "LOCK_OVER"))
        BY DEF ReleaseRead
      <4>2. ReadFresh(d) => At(d, "fresh") /\ (EndCall(d) \/ (~LockRuns(call[d].user)
                              /\ (Goto(d, "success") \/ Goto(d, "failed"))))
        BY DEF ReadFresh, LockedOut
      <4>3. CountFailure(d) => At(d, "failed") /\ (EndCall(d) \/ Goto(d, "lock"))
        BY Zenon DEF CountFailure
      <4>4. /\ Unlock(d) => At(d, "unlock") /\ Goto(d, "fresh")
            /\ RegisterSuccess(d) => At(d, "success") /\ Goto(d, "create")
        BY Zenon DEF Unlock, RegisterSuccess
      <4> QED BY <2>2, <4>1, <4>2, <4>3, <4>4, Zenon
    <3>2. EndCall(d) \/ (LoginGoesOn(d) /\ SameRequest(d))
      BY <1>4, <3>1 DEF LoginGoesOn
    <3> QED BY <1>2, <3>2 DEF GoesOn
  <2>3. CASE Lock(d) \/ CreateSession(d)
    BY <1>2, <2>3 DEF Lock, CreateSession
  <2> QED BY <1>5, <2>1, <2>2, <2>3 DEF LoginStep
<1>6. CASE RefreshStep(d)
  <2>1. ASSUME NEW s, NEW token, StartRefresh(d, s, token) PROVE Begun(d)
    <3> DEFINE pc == IF token = session[s].token THEN "refreshUser" ELSE "reuse"
               r == [NoCall EXCEPT !.pc = pc, !.sid = s]
    <3>1. Start(d, r)
      BY <2>1, Zenon DEF StartRefresh
    <3>2. r.pc \in RefreshPcs
      BY DEF NoCall, RefreshPcs
    <3> HIDE DEF r
    <3> QED BY <1>3, <3>1, <3>2 DEF Begun
  <2>2. CASE RevokeReused(d) \/ RefreshUser(d) \/ RotateRead(d) \/ RotateSave(d)
    <3>1. EndCall(d) \/ \E pc \in RefreshPcs : Goto(d, pc) /\ call[d].pc \in RefreshPcs
      BY <2>2 DEF RevokeReused, RefreshUser, RotateRead, RotateSave, RefreshPcs, At
    <3> QED BY <1>2, <1>4, <3>1 DEF GoesOn
  <2> QED BY <1>6, <2>1, <2>2 DEF RefreshStep
<1>7. CASE RequestSteps(d)
  <2>1. CASE Logout(d) \/ ChangeRevoke(d) \/ InsertUser(d) \/ TargetRevoke(d)
    BY <1>2, <2>1 DEF Logout, ChangeRevoke, InsertUser, TargetRevoke
  <2>2. CASE AuthenticateUser(d) \/ ChangeSave(d) \/ FindName(d)
    <3>1. \/ EndCall(d)
          \/ /\ At(d, "authUser") /\ Goto(d, FirstStep(call[d].op))
             /\ ~Off(call[d].user) /\ MayDo(user[call[d].user], call[d].op)
          \/ At(d, "changeSave") /\ Goto(d, "changeRevoke") /\ ChangeSave(d)
          \/ At(d, "findName") /\ Goto(d, "insert")
      <4>1. ChangeSave(d) => At(d, "changeSave") /\ Goto(d, "changeRevoke")
        BY Zenon DEF ChangeSave
      <4>2. FindName(d) => At(d, "findName") /\ (EndCall(d) \/ Goto(d, "insert"))
        BY DEF FindName
      <4>3. AuthenticateUser(d) => At(d, "authUser") /\ (EndCall(d)
               \/ (Goto(d, FirstStep(call[d].op))
                    /\ ~Off(call[d].user) /\ MayDo(user[call[d].user], call[d].op)))
        BY DEF AuthenticateUser
      <4> QED BY <2>2, <4>1, <4>2, <4>3, Zenon
    <3>2. EndCall(d) \/ (RequestGoesOn(d) /\ SameRequest(d))
      BY <1>4, <3>1 DEF RequestGoesOn
    <3> QED BY <1>2, <3>2 DEF GoesOn
  <2>3. CASE TargetSave(d)
    <3>1. At(d, "targetSave")
          /\ (EndCall(d) \/ (call[d].op \in {"reset", "deactivate", "delete"}
                               /\ Goto(d, "targetRevoke")))
      BY <2>3, Zenon DEF TargetSave
    <3>2. EndCall(d) \/ (SameRequest(d) /\ call'[d].pc = "targetRevoke")
      BY <1>4, <3>1
    <3>3. EndCall(d) \/ (RequestGoesOn(d) /\ SameRequest(d))
      BY <2>3, <3>1, <3>2 DEF RequestGoesOn
    <3> QED BY <1>2, <3>3 DEF GoesOn
  <2>4. CASE ChangeRead(d)
    <3> DEFINE b == ~user[call[d].user].mustChange
    <3>1. /\ At(d, "changeRead")
          /\ EndCall(d) \/ call' = [call EXCEPT ![d] = [@ EXCEPT !.pc = "changeSave", !.same = b]]
      BY <2>4, Zenon DEF ChangeRead
    <3> HIDE DEF b
    <3>2. EndCall(d) \/ (SameRequest(d) /\ call'[d].pc = "changeSave")
      BY <1>1, <3>1, GotoFields
    <3> QED BY <1>2, <3>1, <3>2 DEF GoesOn, RequestGoesOn
  <2>5. CASE TargetRead(d)
    <3> DEFINE b == AlreadySo(call[d].target, call[d].op)
    <3>1. /\ At(d, "targetRead")
          /\ \/ EndCall(d)
             \/ ~OwnAccount(d)
                /\ call' = [call EXCEPT ![d] = [@ EXCEPT !.pc = "targetSave", !.same = b]]
      BY <2>5, Zenon DEF TargetRead
    <3> HIDE DEF b
    <3>2. EndCall(d) \/ (~OwnAccount(d) /\ SameRequest(d) /\ call'[d].pc = "targetSave")
      BY <1>1, <3>1, GotoFields
    <3> QED BY <1>2, <3>1, <3>2 DEF GoesOn, RequestGoesOn
  <2> QED BY <1>7, <2>1, <2>2, <2>3, <2>4, <2>5 DEF RequestSteps
<1>8. ASSUME NEW s \in Sids, NEW op, NEW target, NEW guess, Asked(d, s, op, target, guess)
      PROVE  Begun(d)
  <2> DEFINE r == [NoCall EXCEPT !.pc = "authUser", !.op = op, !.sid = s,
                                 !.user = session[s].owner, !.target = target, !.guess = guess]
  <2>1. Start(d, r)
    BY <1>8, Zenon DEF Asked, StartRequest
  <2>2. r.pc = "authUser" /\ r.sid = s /\ r.user = session[s].owner /\ r.op = op
    BY DEF NoCall
  <2> HIDE DEF r
  <2> QED BY <1>3, <1>8, <2>1, <2>2 DEF Asked, StartRequest, Begun, AdminOps
<1>9. CASE CallFails(d)
  BY <1>2, <1>9 DEF CallFails
<1> QED BY <1>5, <1>6, <1>7, <1>8, <1>9, RequestCases DEF CallStep
-----------------------------------------------------------------------------
(* Barred accounts.                                                        *)

\* While nobody overtakes them, a barred account's login calls have not passed the look
\* at the lock, and an account that is off has none.
LEMMA BarredStatus ==
  ASSUME TypeInv, [Next]_vars, NEW u \in Users, Off(u) \/ LockRuns(u), Quiet(u)
  PROVE  /\ Off(u) => Off(u)'
         /\ LockRuns(u) => Off(u)' \/ user'[u].status \in {"LOCKED", "LOCK_OVER"}
<1>1. user[u] \in UserDoc /\ user[u].status # "ABSENT"
  BY DEF TypeInv, DocsOK, Off, LockRuns
<1>2. ASSUME NEW c \in Calls, Unlock(c) \/ RegisterSuccess(c) \/ Lock(c) \/ CountFailure(c)
      PROVE  call[c].user # u
  BY <1>2 DEF Quiet, Overtakes, Unlock, RegisterSuccess, Lock, CountFailure, At
<1>3. \/ user'[u].status = user[u].status
      \/ user'[u].status \in {"DEACTIVATED", "DELETED"}
      \/ LockPasses(u) /\ user'[u].status = "LOCK_OVER"
  <2>1. LockPasses(u) /\ user'[u] = [user[u] EXCEPT !.status = "LOCK_OVER"]
        => user'[u].status = "LOCK_OVER"
    BY <1>1 DEF UserDoc
  <2> QED BY <1>1, <1>2, <2>1, UserFields DEF Written, Administered
<1> QED BY <1>1, <1>3 DEF Off, LockRuns, LockPasses

LEMMA BarredSessions ==
  ASSUME TypeInv, [Next]_vars, NEW u \in Users, Quiet(u)
  PROVE  SessionsOf(u)' = SessionsOf(u)
<1>1. ASSUME NEW s \in Sids PROVE session'[s].owner = u <=> session[s].owner = u
  <2>1. CASE \E c \in Calls : OpenedBy(c, s)
    <3>1. PICK c \in Calls : OpenedBy(c, s)
      BY <2>1
    <3>2. call[c].user # u
      BY <3>1 DEF OpenedBy, CreateSession, Quiet, Overtakes, At
    <3> QED BY <3>1, <3>2 DEF OpenedBy
  <2> QED BY <2>1, SessionFields
<1> QED BY <1>1 DEF SessionsOf

LEMMA BarredQuiet ==
  ASSUME TypeInv, [Next]_vars, NEW u \in Users, Off(u) \/ LockRuns(u), Quiet(u), Off(u)' = Off(u)
  PROVE  Quiet(u)'
<1> SUFFICES ASSUME NEW d \in Calls PROVE ~Overtakes(d, u)'
  BY DEF Quiet
<1> DEFINE Late == {"unlock", "failed", "lock", "success", "create"}
<1>1. ~Overtakes(d, u)
  BY DEF Quiet
<1>2. CASE call'[d] = call[d]
  BY <1>1, <1>2 DEF Overtakes
<1>3. CASE call'[d] = NoCall
  BY <1>3 DEF Overtakes, NoCall
<1>4. CASE Begun(d)
  BY <1>4 DEF Begun, Overtakes, RefreshPcs, LoginPcs
<1>5. CASE GoesOn(d)
  <2>1. SUFFICES ASSUME call[d].user = u, call'[d].pc \in LoginPcs
                 PROVE  ~Off(u) /\ call'[d].pc \notin Late
    BY <1>5 DEF GoesOn, SameRequest, Overtakes, LoginPcs
  <2>2. LoginGoesOn(d)
    BY <1>5, <2>1 DEF GoesOn, RequestGoesOn, FirstStep, LoginPcs, RefreshPcs
  <2>3. call[d].pc \in LoginPcs /\ call[d].pc \notin Late
    BY <1>1, <2>1, <2>2 DEF LoginGoesOn, Overtakes, At, LoginPcs
  <2>4. ~Off(u) /\ LockRuns(u)
    BY <1>1, <2>1, <2>3 DEF Overtakes
  <2> QED BY <2>1, <2>2, <2>3, <2>4 DEF LoginGoesOn, LockRuns, At, LoginPcs
<1> QED BY <1>2, <1>3, <1>4, <1>5, OtherCalls, CallMove

\* A deactivated, deleted or locked account that no decided login overtakes stays
\* barred, gets no session, and no new login comes to overtake it, whatever
\* else runs beside (authController.ts:45-75, lockoutService.ts:34-55).
THEOREM BarredKept == Spec => BarredStaysOut
<1>1. TypeInv /\ [Next]_vars =>
        [\A u \in Users : (Off(u) \/ LockRuns(u)) /\ Quiet(u) =>
            /\ SessionsOf(u)' = SessionsOf(u)
            /\ Off(u) => Off(u)'
            /\ LockRuns(u) => Off(u)' \/ user'[u].status \in {"LOCKED", "LOCK_OVER"}
            /\ Off(u)' = Off(u) => Quiet(u)']_vars
  BY BarredStatus, BarredSessions, BarredQuiet
<1> QED BY <1>1, TypeInvariant, PTL DEF Spec, BarredStaysOut
-----------------------------------------------------------------------------
(* Lockout.                                                                *)

\* Calls about to lock an account: each attempt that reaches the threshold leaves one, so
\* the attempts counted beyond it are no more than these and the calls that failed.
Lockers(u) == {c \in Calls : call[c].user = u /\ At(c, "lock")}

Counted(u) ==
    /\ user[u].status = "ACTIVE" => user[u].attempts < Threshold + Cardinality(Lockers(u)) + faults
    /\ user[u].status = "ABSENT" => user[u].attempts = 0
LoginsKnown == \A c \in Calls : call[c].pc \in LoginPcs => user[call[c].user].status # "ABSENT"
LocksInv == LoginsKnown /\ \A u \in Users : Counted(u)

LEMMA LockersFinite ==
  ASSUME NEW u \in Users
  PROVE  IsFiniteSet(Lockers(u)) /\ Cardinality(Lockers(u)) \in Nat
BY FS_Subset, FS_CardinalityType DEF Lockers

LEMMA LocksInit == Init => LocksInv
<1> SUFFICES ASSUME Init PROVE LocksInv
  OBVIOUS
<1>1. LoginsKnown
  BY DEF Init, LoginsKnown, NoCall, LoginPcs
<1>2. ASSUME NEW u \in Users PROVE Counted(u)
  <2>1. user[u].attempts = 0 /\ faults = 0
    BY DEF Init
  <2> QED BY <2>1, LockersFinite DEF Counted
<1> QED BY <1>1, <1>2 DEF LocksInv

\* No account of a login disappears under it.
LEMMA LoginsKnownStep ==
  ASSUME TypeInv, LoginsKnown, [Next]_vars
  PROVE  LoginsKnown' /\ \A u \in Users : user'[u].status = "ABSENT" => user[u].status = "ABSENT"
<1>1. ASSUME NEW u \in Users, user[u].status # "ABSENT" PROVE user'[u].status # "ABSENT"
  <2>1. user[u] \in UserDoc
    BY DEF TypeInv, DocsOK
  <2>2. /\ Unlocked(user[u]).status # "ABSENT"
        /\ [user[u] EXCEPT !.status = "LOCKED"].status # "ABSENT"
        /\ [user[u] EXCEPT !.status = "ACTIVE"].status # "ABSENT"
        /\ [user[u] EXCEPT !.status = "LOCK_OVER"].status # "ABSENT"
        /\ [user[u] EXCEPT !.attempts = user[u].attempts + 1].status # "ABSENT"
    BY <1>1, <2>1 DEF UserDoc, Unlocked
  <2> QED BY <1>1, <2>2, UserFields DEF Written, Administered
<1>2. ASSUME NEW d \in Calls, call'[d].pc \in LoginPcs PROVE user'[call'[d].user].status # "ABSENT"
  <2>1. call[d] \in Call /\ CallFits(call[d])
    BY CallFields DEF TypeInv
  <2>2. CASE call'[d] = call[d]
    BY <1>1, <1>2, <2>1, <2>2 DEF LoginsKnown, CallFits
  <2>3. CASE call'[d] = NoCall
    BY <1>2, <2>3 DEF NoCall, LoginPcs
  <2>4. CASE Begun(d)
    BY <1>1, <1>2, <2>4 DEF Begun, LoginPcs, RefreshPcs
  <2>5. CASE GoesOn(d)
    <3>1. LoginGoesOn(d) /\ call'[d].user = call[d].user
      BY <1>2, <2>5 DEF GoesOn, SameRequest, RequestGoesOn, FirstStep, LoginPcs, RefreshPcs
    <3>2. call[d].pc \in LoginPcs
      BY <3>1 DEF LoginGoesOn, At, LoginPcs
    <3> QED BY <1>1, <2>1, <3>1, <3>2 DEF LoginsKnown, CallFits
  <2> QED BY <2>2, <2>3, <2>4, <2>5, OtherCalls, CallMove
<1> QED BY <1>1, <1>2 DEF LoginsKnown

\* The last await of a handler is left by its own step or by a failure.
LEMMA LastAwait ==
  ASSUME NEW c \in Calls, CallStep(c), NEW last \in {"lock", "changeRevoke", "targetRevoke"},
         At(c, last)
  PROVE  \/ CallFails(c)
         \/ last = "lock" /\ Lock(c)
         \/ last = "changeRevoke" /\ ChangeRevoke(c)
         \/ last = "targetRevoke" /\ TargetRevoke(c)
<1>1. call[c] # NoCall /\ \A pc : At(c, pc) => pc = last
  BY DEF NoCall, At
<1>2. ASSUME LoginStep(c) PROVE Lock(c) /\ last = "lock"
  <2>1. \A u, guess : ~StartLogin(c, u, guess)
    BY <1>1, Zenon DEF StartLogin, Start
  <2>2. /\ ReleaseRead(c) => At(c, "release")
        /\ Unlock(c) => At(c, "unlock")
        /\ ReadFresh(c) => At(c, "fresh")
        /\ CountFailure(c) => At(c, "failed")
        /\ Lock(c) => At(c, "lock")
        /\ RegisterSuccess(c) => At(c, "success")
        /\ CreateSession(c) => At(c, "create")
    BY Zenon DEF ReleaseRead, Unlock, ReadFresh, CountFailure, Lock, RegisterSuccess, CreateSession
  <2> QED BY <1>1, <1>2, <2>1, <2>2 DEF LoginStep
<1>3. ASSUME RefreshStep(c) PROVE FALSE
  <2>1. \A s, token : ~StartRefresh(c, s, token)
    BY <1>1, Zenon DEF StartRefresh, Start
  <2>2. /\ RevokeReused(c) => At(c, "reuse")
        /\ RefreshUser(c) => At(c, "refreshUser")
        /\ RotateRead(c) => At(c, "rotateRead")
        /\ RotateSave(c) => At(c, "rotateSave")
    BY Zenon DEF RevokeReused, RefreshUser, RotateRead, RotateSave
  <2> QED BY <1>1, <1>3, <2>1, <2>2 DEF RefreshStep
<1>4. ASSUME RequestStep(c)
      PROVE  \/ last = "changeRevoke" /\ ChangeRevoke(c)
             \/ last = "targetRevoke" /\ TargetRevoke(c)
  <2>1. /\ AuthenticateUser(c) => At(c, "authUser")
        /\ Logout(c) => At(c, "logout")
        /\ ChangeRead(c) => At(c, "changeRead")
        /\ ChangeSave(c) => At(c, "changeSave")
        /\ ChangeRevoke(c) => At(c, "changeRevoke")
        /\ FindName(c) => At(c, "findName")
        /\ InsertUser(c) => At(c, "insert")
        /\ TargetRead(c) => At(c, "targetRead")
        /\ TargetSave(c) => At(c, "targetSave")
        /\ TargetRevoke(c) => At(c, "targetRevoke")
    BY Zenon DEF AuthenticateUser, Logout, ChangeRead, ChangeSave, ChangeRevoke, FindName,
       InsertUser, TargetRead, TargetSave, TargetRevoke
  <2>2. \A s, op, target, guess : ~Asked(c, s, op, target, guess)
    BY <1>1, Zenon DEF Asked, StartRequest, Start
  <2>3. RequestSteps(c)
    BY <1>4, <2>2, RequestCases
  <2> QED BY <1>1, <2>1, <2>3 DEF RequestSteps
<1> QED BY <1>2, <1>3, <1>4 DEF CallStep

\* Only the lock itself, or its failure, takes a call from those about to lock.
LEMMA LockersKept ==
  ASSUME TypeInv, [Next]_vars, NEW u \in Users, NEW c \in Lockers(u), c \notin Lockers(u)'
  PROVE  Lock(c) \/ CallFails(c)
<1>1. c \in Calls /\ At(c, "lock")
  BY DEF Lockers
<1>2. CallStep(c)
  BY <1>1, OtherCalls DEF Lockers, At
<1> QED BY <1>1, <1>2, LastAwait

LEMMA FaultsGrow ==
  ASSUME TypeInv, [Next]_vars
  PROVE  faults' \in Nat /\ faults \in Nat /\ faults' >= faults
<1>1. faults \in Nat
  BY DEF TypeInv, CountsOK
<1>2. faults' = faults \/ faults' = faults + 1
  <2>1. ASSUME NEW c \in Calls, CallStep(c) PROVE faults' = faults \/ faults' = faults + 1
    <3>1. LoginStep(c) => faults' = faults
      BY DEF LoginStep, StartLogin, ReleaseRead, Unlock, ReadFresh, CountFailure, Lock,
         RegisterSuccess, CreateSession
    <3>2. RefreshStep(c) => faults' = faults
      BY DEF RefreshStep, StartRefresh, RevokeReused, RefreshUser, RotateRead, RotateSave
    <3>3. RequestSteps(c) => faults' = faults
      BY DEF RequestSteps, AuthenticateUser, Logout, ChangeRead, ChangeSave, ChangeRevoke,
         FindName, InsertUser, TargetRead, TargetSave, TargetRevoke
    <3>4. (\E s \in Sids : \E op, target, guess : Asked(c, s, op, target, guess)) => faults' = faults
      BY DEF Asked, StartRequest
    <3>5. CallFails(c) => faults' = faults + 1
      BY DEF CallFails
    <3> QED BY <2>1, <3>1, <3>2, <3>3, <3>4, <3>5, RequestCases DEF CallStep
  <2>2. CASE (\E u \in Users : LockPasses(u)) \/ (\E s \in Sids : SessionExpires(s)) \/ UNCHANGED vars
    BY <2>2 DEF LockPasses, SessionExpires, vars
  <2> QED BY <2>1, <2>2 DEF Next
<1> QED BY <1>1, <1>2

\* An account that no lock is written to keeps the calls about to lock it, but for one
\* that a failure answers for.
LEMMA LockersBound ==
  ASSUME TypeInv, [Next]_vars, NEW u \in Users,
         ~\E c \in Calls : Lock(c) /\ call[c].user = u
  PROVE  Cardinality(Lockers(u)') + faults' >= Cardinality(Lockers(u)) + faults
<1>0. /\ IsFiniteSet(Lockers(u)) /\ Cardinality(Lockers(u)) \in Nat
      /\ IsFiniteSet(Lockers(u)') /\ Cardinality(Lockers(u)') \in Nat
  <2>1. \A S \in SUBSET Calls : IsFiniteSet(S) /\ Cardinality(S) \in Nat
    BY FS_Subset, FS_CardinalityType
  <2> QED BY <2>1 DEF Lockers
<1>1. CASE Lockers(u) \subseteq Lockers(u)'
  <2>1. Cardinality(Lockers(u)) =< Cardinality(Lockers(u)')
    BY <1>0, <1>1, FS_Subset
  <2> QED BY <1>0, <2>1, FaultsGrow
<1>2. CASE ~(Lockers(u) \subseteq Lockers(u)')
  <2>1. PICK c \in Lockers(u) : c \notin Lockers(u)'
    BY <1>2
  <2>2. c \in Calls /\ CallFails(c)
    BY <2>1, LockersKept DEF Lockers
  <2>3. faults' = faults + 1 /\ EndCall(c)
    BY <2>2 DEF CallFails
  <2>4. Lockers(u) \ {c} \subseteq Lockers(u)'
    BY <2>3 DEF Lockers, EndCall, At, TypeInv, CallsOK
  <2>5. /\ Cardinality(Lockers(u) \ {c}) = Cardinality(Lockers(u)) - 1
        /\ IsFiniteSet(Lockers(u) \ {c})
    BY <1>0, <2>1, FS_RemoveElement
  <2>6. Cardinality(Lockers(u) \ {c}) =< Cardinality(Lockers(u)')
    BY <1>0, <2>4, FS_Subset
  <2> QED BY <1>0, <2>3, <2>5, <2>6, FaultsGrow
<1> QED BY <1>1, <1>2

LEMMA CountedStep ==
  ASSUME TypeInv, LocksInv, [Next]_vars, NEW u \in Users
  PROVE  Counted(u)'
<1>1. /\ user[u] \in UserDoc /\ user[u].attempts \in Nat
      /\ Cardinality(Lockers(u)) \in Nat /\ faults \in Nat /\ faults' \in Nat
      /\ Counted(u) /\ Threshold \in Nat \ {0}
  BY LockersFinite, FaultsGrow DEF TypeInv, DocsOK, UserDoc, LocksInv
<1>2. Cardinality(Lockers(u)') \in Nat
  <2>1. \A S \in SUBSET Calls : Cardinality(S) \in Nat
    BY FS_Subset, FS_CardinalityType
  <2> QED BY <2>1 DEF Lockers
<1>3. user'[u].status = "ABSENT" => user[u].status = "ABSENT"
  BY LoginsKnownStep DEF LocksInv
<1>4. CASE \E c \in Calls : Lock(c) /\ call[c].user = u
  <2>1. user'[u].status = "LOCKED"
    BY <1>1, <1>4 DEF Lock, TypeInv, DocsOK, UserDoc
  <2> QED BY <2>1 DEF Counted
<1>5. CASE ~\E c \in Calls : Lock(c) /\ call[c].user = u
  <2>1. Cardinality(Lockers(u)') + faults' >= Cardinality(Lockers(u)) + faults
    BY <1>5, LockersBound
  <2> DEFINE Fits == user'[u].attempts = 0
                     \/ (user'[u].attempts = user[u].attempts
                         /\ user'[u].status \in {user[u].status, "LOCK_OVER", "DEACTIVATED", "DELETED"})
  <2>2. CASE Fits
    BY <1>1, <1>2, <1>3, <2>1, <2>2 DEF Counted
  <2>3. ASSUME NEW c \in Calls, CountFailure(c), call[c].user = u,
               user'[u] = [user[u] EXCEPT !.attempts = user[u].attempts + 1]
        PROVE  Counted(u)'
    <3>1. user'[u].attempts = user[u].attempts + 1 /\ user'[u].status = user[u].status
      BY <1>1, <2>3 DEF UserDoc
    <3>2. user[u].status # "ABSENT"
      BY <2>3 DEF LocksInv, LoginsKnown, CountFailure, At, LoginPcs
    <3>3. CASE Reached(user[u].attempts + 1)
      <4>1. Goto(c, "lock") /\ At(c, "failed") /\ faults' = faults
        BY <2>3, <3>3, Zenon DEF CountFailure
      <4>2. c \in Lockers(u)' /\ c \notin Lockers(u) /\ Lockers(u) \subseteq Lockers(u)'
        <5>1. call \in [Calls -> Call] /\ call[c] \in Call
          BY DEF TypeInv, CallsOK
        <5>2. call'[c] = [call[c] EXCEPT !.pc = "lock"] /\ \A d \in Calls : d # c => call'[d] = call[d]
          BY <4>1, <5>1 DEF Goto
        <5>3. call'[c].pc = "lock" /\ call'[c].user = u
          BY <2>3, <5>1, <5>2 DEF Call
        <5> QED BY <4>1, <5>2, <5>3 DEF Lockers, At
      <4>3. Cardinality(Lockers(u)') > Cardinality(Lockers(u))
        <5>1. IsFiniteSet(Lockers(u)) /\ IsFiniteSet(Lockers(u)')
          <6>1. \A S \in SUBSET Calls : IsFiniteSet(S)
            BY FS_Subset
          <6> QED BY <6>1 DEF Lockers
        <5>2. Cardinality(Lockers(u) \cup {c}) = Cardinality(Lockers(u)) + 1
          BY <4>2, <5>1, FS_AddElement
        <5>3. Cardinality(Lockers(u) \cup {c}) =< Cardinality(Lockers(u)')
          BY <4>2, <5>1, FS_Subset
        <5> QED BY <1>1, <1>2, <5>2, <5>3
      <4> QED BY <1>1, <1>2, <3>1, <3>2, <4>1, <4>3 DEF Counted
    <3>4. CASE ~Reached(user[u].attempts + 1)
      BY <1>1, <1>2, <3>1, <3>2, <3>4 DEF Reached, Counted
    <3> QED BY <3>3, <3>4
  <2>4. ASSUME NEW c \in Calls, InsertUser(c), user[u].status = "ABSENT",
               user'[u].attempts = user[u].attempts
        PROVE  Fits
    BY <1>1, <2>4 DEF UserDoc, Counted
  <2>5. Unlocked(user[u]).attempts = 0
    BY <1>1 DEF Unlocked, UserDoc
  <2>6. user'[u] = [user[u] EXCEPT !.status = "LOCK_OVER"] => Fits
    BY <1>1 DEF UserDoc
  <2> QED BY <1>5, <2>2, <2>3, <2>4, <2>5, <2>6, UserFields DEF Written, Administered
<1> QED BY <1>4, <1>5

\* However many guesses run in parallel, an account whose attempts have reached the threshold
\* is locked or about to be, up to one attempt for every database call that failed
\* (lockoutService.ts:24-39).
THEOREM ThresholdHolds == Spec => []ThresholdLocks
<1>1. TypeInv /\ LocksInv /\ [Next]_vars => LocksInv'
  BY LoginsKnownStep, CountedStep DEF LocksInv
<1>2. TypeInv /\ LocksInv => ThresholdLocks
  <2> SUFFICES ASSUME TypeInv, LocksInv, NEW u \in Users, user[u].status = "ACTIVE",
                      user[u].attempts >= Threshold + faults
               PROVE  \E c \in Calls : call[c].user = u /\ At(c, "lock")
    BY DEF ThresholdLocks
  <2>1. Cardinality(Lockers(u)) # 0
    BY LockersFinite DEF LocksInv, Counted, TypeInv, DocsOK, UserDoc, CountsOK
  <2>2. Lockers(u) # {}
    BY <2>1, FS_EmptySet
  <2> QED BY <2>2 DEF Lockers
<1> QED BY <1>1, <1>2, LocksInit, TypeInvariant, PTL DEF Spec
-----------------------------------------------------------------------------
(* Sessions of an earlier password.                                        *)

\* Expired sessions count too, for a rotation that has read one brings it back.
Covered(s) ==
    Present(s) /\ session[s].life # "revoked" /\ session[s].password # user[session[s].owner].password =>
        \/ session[s].outlives \/ \E c \in Calls : s \in Revoking(c)
        \/ s = user[session[s].owner].setBy

SessionsInv == \A s \in Sids : Covered(s)

\* Only a change of password and a reset write a password, and say who set it.
LEMMA WhoSetsPasswords ==
  ASSUME TypeInv, [Next]_vars, NEW u \in Users,
         user'[u].password # user[u].password \/ user'[u].setBy # user[u].setBy
  PROVE  \/ \E c \in Calls : ChangeSave(c) /\ call[c].user = u /\ user'[u].setBy = call[c].sid
         \/ \E c \in Calls : TargetSave(c) /\ call[c].target = u /\ call[c].op = "reset"
<1>1. user[u] \in UserDoc
  BY DEF TypeInv, DocsOK
<1>2. ASSUME NEW doc \in {Unlocked(user[u]), [user[u] EXCEPT !.status = "LOCKED"],
                          [user[u] EXCEPT !.status = "LOCK_OVER"],
                          [user[u] EXCEPT !.attempts = user[u].attempts + 1]}
      PROVE  doc.password = user[u].password /\ doc.setBy = user[u].setBy
  BY <1>1, <1>2 DEF UserDoc, Unlocked
<1> QED BY <1>2, UserFields DEF Written, Administered

\* A session about to be revoked is revoked, or still about to be, or marked by the failure.
LEMMA RevokingKept ==
  ASSUME TypeInv, [Next]_vars, NEW s \in Sids, NEW c \in Calls, s \in Revoking(c),
         session'[s].owner = session[s].owner, session'[s].life # "revoked"
  PROVE  session'[s].outlives \/ s \in Revoking(c)'
<1>1. session \in [Sids -> SessionDoc] /\ session[s] \in SessionDoc
  BY DEF TypeInv, DocsOK
<1>2. /\ call[c].pc \in {"changeRevoke", "targetRevoke"}
      /\ At(c, "changeRevoke") => s \in SessionsOf(call[c].user) \ {call[c].sid}
      /\ At(c, "targetRevoke") => s \in SessionsOf(call[c].target)
  BY DEF Revoking, At
<1>3. CASE call'[c] = call[c]
  BY <1>2, <1>3 DEF Revoking, At, SessionsOf
<1>4. CASE CallFails(c)
  <2> DEFINE b == session[s].outlives \/ s \in Revoking(c)
  <2>2. session'[s] = [session[s] EXCEPT !.outlives = b]
    BY <1>4, Zenon DEF CallFails
  <2>3. b = TRUE
    OBVIOUS
  <2> HIDE DEF b
  <2> QED BY <1>1, <2>2, <2>3 DEF SessionDoc
<1>5. ASSUME NEW S, Revoke(S), s \in S, Present(s) PROVE FALSE
  <2>1. session'[s] = [session[s] EXCEPT !.life = "revoked"]
    BY <1>5 DEF Revoke
  <2> QED BY <1>1, <2>1 DEF SessionDoc
<1>6. /\ At(c, "changeRevoke") => call[c].user \in Users
      /\ At(c, "targetRevoke") => call[c].target \in Users
  BY DEF TypeInv, CallsOK, CallFits, At, RequestPcs
<1>7. Present(s)
  BY <1>2, <1>6 DEF Present, SessionsOf, At
<1>8. CASE At(c, "changeRevoke") /\ ChangeRevoke(c)
  BY <1>2, <1>5, <1>7, <1>8 DEF ChangeRevoke
<1>9. CASE At(c, "targetRevoke") /\ TargetRevoke(c)
  BY <1>2, <1>5, <1>7, <1>9 DEF TargetRevoke, TargetSessions
<1> QED BY <1>2, <1>3, <1>4, <1>8, <1>9, OtherCalls, LastAwait DEF At

LEMMA CoveredStep ==
  ASSUME TypeInv, SessionsInv, [Next]_vars, NEW s \in Sids
  PROVE  Covered(s)'
<1> DEFINE o == session'[s].owner
<1> SUFFICES ASSUME o # NoUser, session'[s].life # "revoked",
                    session'[s].password # user'[o].password, s # user'[o].setBy
             PROVE  session'[s].outlives \/ \E c \in Calls : s \in Revoking(c)'
  BY DEF Covered, Present
<1>1. o \in Users
  BY TypeInvStep DEF TypeInv, DocsOK, SessionDoc
<1>2. CASE \E c \in Calls : OpenedBy(c, s)
  <2>1. PICK c \in Calls : OpenedBy(c, s)
    BY <1>2
  <2>2. user' = user
    BY <2>1 DEF OpenedBy, CreateSession
  <2> QED BY <2>1, <2>2 DEF OpenedBy
<1>3. CASE ~\E c \in Calls : OpenedBy(c, s)
  <2>1. /\ o = session[s].owner /\ session[s].life # "revoked"
        /\ session[s].outlives => session'[s].outlives
        /\ session'[s].password = session[s].password
    BY <1>3, SessionFields
  <2>2. CASE user'[o].password = user[o].password /\ user'[o].setBy = user[o].setBy
    <3>1. Covered(s) /\ Present(s)
      BY <1>1, <2>1 DEF SessionsInv, Present
    <3>2. session[s].outlives \/ \E c \in Calls : s \in Revoking(c)
      BY <2>1, <2>2, <3>1 DEF Covered
    <3> QED BY <2>1, <3>2, RevokingKept
  <2>3. ASSUME NEW c \in Calls, ChangeSave(c), call[c].user = o, user'[o].setBy = call[c].sid
        PROVE  s \in Revoking(c)'
    <3>1. Goto(c, "changeRevoke")
      BY <2>3, Zenon DEF ChangeSave
    <3>2. SameRequest(c) /\ call'[c].pc = "changeRevoke"
      BY <3>1, GotoFields DEF TypeInv
    <3>3. s # call'[c].sid
      BY <2>3, <3>2 DEF SameRequest
    <3> QED BY <2>3, <3>2, <3>3 DEF Revoking, At, SessionsOf, SameRequest
  <2>4. ASSUME NEW c \in Calls, TargetSave(c), call[c].target = o, call[c].op = "reset"
        PROVE  s \in Revoking(c)'
    <3>1. Goto(c, "targetRevoke")
      BY <2>4 DEF TargetSave, Roles
    <3>2. SameRequest(c) /\ call'[c].pc = "targetRevoke"
      BY <3>1, GotoFields DEF TypeInv
    <3> QED BY <2>4, <3>2 DEF Revoking, At, SessionsOf, SameRequest
  <2> QED BY <1>1, <2>2, <2>3, <2>4, WhoSetsPasswords
<1> QED BY <1>2, <1>3

\* Once a change or a reset of a password is through, the sessions opened with an earlier
\* one are no longer active, but for the one the change was made from, which the code
\* spares, and those a login overlapping it opened or a failed revocation left
\* (usersController.ts:86-90, authController.ts:204-211).
THEOREM OldPasswordGone == Spec => []OldPasswordIsOut
<1>1. Init => SessionsInv
  BY DEF Init, SessionsInv, Covered, Present
<1>2. TypeInv /\ SessionsInv /\ [Next]_vars => SessionsInv'
  BY CoveredStep DEF SessionsInv
<1>3. SessionsInv => OldPasswordIsOut
  BY DEF SessionsInv, Covered, OldPasswordIsOut, OfEarlierPassword, Active
<1> QED BY <1>1, <1>2, <1>3, TypeInvariant, PTL DEF Spec
-----------------------------------------------------------------------------
(* Administrators.                                                         *)

\* A request about to save has found that it does not turn off or demote its own account.
SparesItself == \A c \in Calls : At(c, "targetSave") => ~OwnAccount(c)

LEMMA SparesItselfStep ==
  ASSUME TypeInv, SparesItself, [Next]_vars
  PROVE  SparesItself'
<1> SUFFICES ASSUME NEW d \in Calls, call'[d].pc = "targetSave"
             PROVE  ~OwnAccount(d)'
  BY DEF SparesItself, At
<1>1. CASE call'[d] = call[d]
  BY <1>1 DEF SparesItself, At, OwnAccount
<1>2. CASE call'[d] = NoCall \/ Begun(d)
  BY <1>2 DEF NoCall, Begun, RefreshPcs
<1>3. CASE GoesOn(d)
  <2>1. SameRequest(d) /\ ~OwnAccount(d)
    BY <1>3 DEF GoesOn, LoginGoesOn, RequestGoesOn, FirstStep, RefreshPcs
  <2> QED BY <2>1 DEF SameRequest, OwnAccount
<1> QED BY <1>1, <1>2, <1>3, OtherCalls, CallMove

\* Only a request about another account ends an administrator, and it touches no third one.
LEMMA WhoEndsAdmin ==
  ASSUME TypeInv, SparesItself, [Next]_vars, NEW u \in Users, Acting(u), ~Acting(u)'
  PROVE  \E c \in Calls : TargetSave(c) /\ call[c].target = u /\ call[c].user # u
<1>1. user[u] \in UserDoc
  BY DEF TypeInv, DocsOK
<1>2. ASSUME NEW doc \in {Unlocked(user[u]), [user[u] EXCEPT !.status = "LOCKED"],
                          [user[u] EXCEPT !.status = "LOCK_OVER"],
                          [user[u] EXCEPT !.attempts = user[u].attempts + 1]},
             user'[u] = doc
      PROVE  FALSE
  <2>1. /\ doc.role = user[u].role
        /\ doc.status \in {user[u].status, "ACTIVE", "LOCKED", "LOCK_OVER"}
    BY <1>1, <1>2 DEF UserDoc, Unlocked
  <2> QED BY <1>2, <2>1 DEF Acting
<1>3. ASSUME NEW c \in Calls, Administered(c, u)
      PROVE  TargetSave(c) /\ call[c].target = u /\ call[c].user # u
  <2>1. TargetSave(c) /\ call[c].target = u /\ At(c, "targetSave")
    BY <1>3 DEF Administered, TargetSave
  <2>2. call[c].op \in (Roles \ {"ADMIN"}) \cup {"deactivate", "delete"}
    BY <1>3 DEF Administered, Acting, Roles
  <2> QED BY <2>1, <2>2 DEF SparesItself, OwnAccount
<1>4. ASSUME user'[u].role = user[u].role, user'[u].status = user[u].status PROVE FALSE
  BY <1>4 DEF Acting
<1> QED BY <1>2, <1>3, <1>4, UserFields DEF Written, Acting

\* The last administrator falls only to a request whose own account lost its rights after it
\* was authenticated: two administrators can bring each other down, one alone cannot
\* bring himself down (usersController.ts:60-62, :110-112, :135-137).
THEOREM LastAdminKept == Spec => LastAdminFalls
<1>1. TypeInv /\ SparesItself /\ [Next]_vars =>
        [SomeAdmin /\ ~SomeAdmin' =>
            \E c \in Calls : At(c, "targetSave") /\ call'[c] # call[c]
                              /\ ~Acting(call[c].user)]_vars
  <2> SUFFICES ASSUME TypeInv, SparesItself, [Next]_vars, SomeAdmin, ~SomeAdmin'
               PROVE  \E c \in Calls : At(c, "targetSave") /\ call'[c] # call[c]
                                        /\ ~Acting(call[c].user)
    OBVIOUS
  <2>1. PICK u \in Users : Acting(u)
    BY DEF SomeAdmin
  <2>2. \A v \in Users : ~Acting(v)'
    BY DEF SomeAdmin
  <2>3. PICK c \in Calls : TargetSave(c) /\ call[c].target = u /\ call[c].user # u
    BY <2>1, <2>2, WhoEndsAdmin
  <2>4. At(c, "targetSave") /\ call'[c] # call[c]
    <3>1. call \in [Calls -> Call] /\ call[c] \in Call /\ At(c, "targetSave")
      BY <2>3 DEF TypeInv, CallsOK, TargetSave
    <3>2. EndCall(c) \/ Goto(c, "targetRevoke")
      BY <2>3 DEF TargetSave
    <3>3. call'[c].pc # "targetSave"
      BY <3>1, <3>2 DEF EndCall, Goto, NoCall, Call
    <3> QED BY <3>1, <3>3 DEF At
  <2>5. call[c].user \in Users
    BY <2>3 DEF TargetSave, At, TypeInv, CallsOK, CallFits, RequestPcs
  <2>6. user'[call[c].user] = user[call[c].user]
    <3>1. \E doc : user' = [user EXCEPT ![call[c].target] = doc]
      BY <2>3, Zenon DEF TargetSave
    <3> QED BY <2>3, <2>5, <3>1 DEF TypeInv, DocsOK
  <2>7. ~Acting(call[c].user)
    BY <2>2, <2>5, <2>6 DEF Acting
  <2> QED BY <2>4, <2>7
<1>2. Init => SparesItself
  BY DEF Init, SparesItself, At, NoCall
<1>3. TypeInv /\ SparesItself /\ [Next]_vars => SparesItself'
  BY SparesItselfStep
<1> QED BY <1>1, <1>2, <1>3, TypeInvariant, PTL DEF Spec, LastAdminFalls
=============================================================================
