------------------------------ MODULE Accounts ------------------------------
(***************************************************************************)
(* Accounts and sessions: login with lockout, rotation of refresh tokens,  *)
(* authentication of requests, logout and change of password (auth/), and  *)
(* the administration of users (users/usersController.ts).                 *)
(*                                                                         *)
(* Every handler is a call with one step per database call; what it read   *)
(* is kept in the call and may be stale when it is used.  save() writes    *)
(* only the fields whose value the handler changed.  Passwords and refresh *)
(* tokens are numbered in the order they are set, whatever their text.     *)
(* What the documents do not hold and a property speaks of is kept as      *)
(* history: a session's password and outlives, an account's setBy.         *)
(***************************************************************************)
EXTENDS Integers, FiniteSets

CONSTANTS
    Users, Admins,      \* all accounts; those that are administrators at first
    NoUser,
    Sids,               \* ids of sessions
    NoSid,
    Calls,              \* requests in flight
    Threshold,          \* lockoutThreshold
    MaxAttempts,        \* bound: failed attempts counted on an account
    MaxPasswords,       \* bound: passwords set for an account after the first
    MaxTokens,          \* bound: rotations of a session
    MaxCalls,           \* bound: requests in all
    MaxFaults           \* bound: failing database calls

ASSUME AccountsAssumption ==
    /\ Admins \subseteq Users
    /\ NoUser \notin Users /\ NoSid \notin Sids
    /\ IsFiniteSet(Calls) /\ IsFiniteSet(Sids)
    /\ Threshold \in Nat \ {0} /\ MaxAttempts \in Nat /\ MaxFaults \in Nat
    /\ MaxPasswords \in Nat /\ MaxTokens \in Nat /\ MaxCalls \in Nat

VARIABLES
    user,               \* user[u]: the document
    session,            \* session[s]: the document, owner NoUser if there is none
    call,               \* call[c]: the await the request is at, and what it has read
    calls, faults       \* requests, and failed database calls, so far

vars == <<user, session, call, calls, faults>>

\* LOCKED with lockedUntil ahead, LOCK_OVER with lockedUntil behind: nobody reads
\* lockedUntil under another status.  ABSENT: there is no document.
Statuses == {"ABSENT", "ACTIVE", "LOCKED", "LOCK_OVER", "DEACTIVATED", "DELETED"}
Roles == {"ADMIN", "MAINTAINER", "DEVELOPER"}

\* setBy: the session its owner changed the password from, NoSid if nobody did so.
UserDoc ==
    [role : Roles, status : Statuses, attempts : 0..MaxAttempts,
     password : 0..MaxPasswords, mustChange : BOOLEAN, setBy : Sids \cup {NoSid}]

\* life: revokedAt before expiresAt.  password: the one its login was verified with.
\* outlives: a login that overlapped a new password, or a failed revocation, left it.
SessionDoc ==
    [owner : Users \cup {NoUser}, life : {"live", "expired", "revoked"},
     token : 0..MaxTokens, password : 0..MaxPasswords, outlives : BOOLEAN]

LoginPcs == {"release", "unlock", "fresh", "failed", "lock", "success", "create"}
RequestPcs == {"authUser", "logout", "changeRead", "changeSave", "changeRevoke",
               "findName", "insert", "targetRead", "targetSave", "targetRevoke"}
RefreshPcs == {"reuse", "refreshUser", "rotateRead", "rotateSave"}
\* An operation that is a role assigns it.
TargetOps == Roles \cup {"reset", "deactivate", "delete"}
SelfOps == {"none", "logout", "change"}

Call ==
    [pc : {"idle"} \cup LoginPcs \cup RefreshPcs \cup RequestPcs,
     op : TargetOps \cup SelfOps \cup {"createUser"},
     user : Users \cup {NoUser}, sid : Sids \cup {NoSid},
     target : Users \cup {NoUser},
     guess : 0..MaxPasswords,   \* the password that was typed
     same : BOOLEAN]            \* the field read has the value it is to be given

NoCall == [pc |-> "idle", op |-> "none", user |-> NoUser, sid |-> NoSid,
           target |-> NoUser, guess |-> 0, same |-> FALSE]

TypeOK ==
    /\ user \in [Users -> UserDoc]
    /\ session \in [Sids -> SessionDoc]
    /\ call \in [Calls -> Call]
    /\ calls \in 0..MaxCalls /\ faults \in 0..MaxFaults
    /\ \A c \in Calls :
        /\ call[c].pc \in LoginPcs => call[c].user \in Users
        /\ call[c].pc \in RefreshPcs => call[c].sid \in Sids
        /\ call[c].pc \in RequestPcs => call[c].sid \in Sids /\ call[c].user \in Users
        /\ call[c].pc \in {"findName", "insert"} => call[c].target \in Users
        /\ call[c].pc \in {"targetRead", "targetSave", "targetRevoke"} =>
              call[c].target \in Users /\ call[c].op \in TargetOps

Init ==
    /\ \E present \in SUBSET Users :
        /\ Admins \subseteq present
        /\ user = [u \in Users |->
            [role |-> IF u \in Admins THEN "ADMIN" ELSE "DEVELOPER",
             status |-> IF u \in present THEN "ACTIVE" ELSE "ABSENT",
             attempts |-> 0, password |-> 0, mustChange |-> FALSE, setBy |-> NoSid]]
    /\ session = [s \in Sids |->
        [owner |-> NoUser, life |-> "live", token |-> 0, password |-> 0,
         outlives |-> FALSE]]
    /\ call = [c \in Calls |-> NoCall]
    /\ calls = 0 /\ faults = 0
-----------------------------------------------------------------------------
Off(u) == user[u].status \in {"DEACTIVATED", "DELETED"}
LockRuns(u) == user[u].status = "LOCKED"
Present(s) == session[s].owner # NoUser
Active(s) == Present(s) /\ session[s].life = "live"
SessionsOf(u) == {s \in Sids : session[s].owner = u}

Goto(c, pc) == call' = [call EXCEPT ![c].pc = pc]
EndCall(c) == call' = [call EXCEPT ![c] = NoCall]
At(c, pc) == call[c].pc = pc
Start(c, fields) ==
    /\ call[c] = NoCall
    /\ calls < MaxCalls /\ calls' = calls + 1
    /\ call' = [call EXCEPT ![c] = fields]

\* save() leaves a field alone that was read with the value it is given.
Saved(c, now, new) == IF call[c].same THEN now ELSE new

Revoke(S) ==
    session' = [s \in Sids |->
        IF s \in S /\ Present(s) THEN [session[s] EXCEPT !.life = "revoked"]
        ELSE session[s]]

NewPassword(u) == user[u].password + 1
-----------------------------------------------------------------------------
(* loginHandler() and lockoutService.ts                                    *)

Free == {s \in Sids : ~Present(s)}
LoggingIn == {c \in Calls : call[c].pc \in LoginPcs}

\* findOne by name; a deactivated, deleted or unknown account is refused.
StartLogin(c, u, guess) ==
    /\ ~Off(u) /\ user[u].status # "ABSENT"
    /\ Cardinality(LoggingIn) < Cardinality(Free)
    /\ Start(c, [NoCall EXCEPT !.pc = "release", !.user = u, !.guess = guess])
    /\ UNCHANGED <<user, session, faults>>

\* releaseLockIfExpired: the read, then the update.
ReleaseRead(c) ==
    /\ At(c, "release")
    /\ Goto(c, IF user[call[c].user].status = "LOCK_OVER" THEN "unlock" ELSE "fresh")
    /\ UNCHANGED <<user, session, calls, faults>>

Unlocked(doc) == [doc EXCEPT !.status = "ACTIVE", !.attempts = 0]

Unlock(c) ==
    /\ At(c, "unlock")
    /\ user' = [user EXCEPT ![call[c].user] = Unlocked(@)]
    /\ Goto(c, "fresh")
    /\ UNCHANGED <<session, calls, faults>>

\* Mutant: the lock is not looked at again.
LockedOutNot(u) == FALSE
LockedOut(u) == LockRuns(u)

\* The second read: lock, and the password hash the guess is verified against.
ReadFresh(c) ==
    /\ At(c, "fresh")
    /\ LET u == call[c].user IN
       IF LockedOut(u)
       THEN EndCall(c)
       ELSE Goto(c, IF call[c].guess = user[u].password THEN "success" ELSE "failed")
    /\ UNCHANGED <<user, session, calls, faults>>

\* Mutant: the account is locked by the attempt after the last allowed one.
ReachedOffByOne(attempts) == attempts > Threshold
Reached(attempts) == attempts >= Threshold

\* registerFailedLogin: $inc of the attempts, then the lock.
CountFailure(c) ==
    /\ At(c, "failed")
    /\ LET u == call[c].user IN
       /\ user[u].attempts < MaxAttempts
       /\ user' = [user EXCEPT ![u].attempts = @ + 1]
       /\ IF Reached(user[u].attempts + 1) THEN Goto(c, "lock") ELSE EndCall(c)
    /\ UNCHANGED <<session, calls, faults>>

Lock(c) ==
    /\ At(c, "lock")
    /\ user' = [user EXCEPT ![call[c].user].status = "LOCKED"]
    /\ EndCall(c)
    /\ UNCHANGED <<session, calls, faults>>

RegisterSuccess(c) ==
    /\ At(c, "success")
    /\ user' = [user EXCEPT ![call[c].user] = Unlocked(@)]
    /\ Goto(c, "create")
    /\ UNCHANGED <<session, calls, faults>>

CreateSession(c) ==
    /\ At(c, "create")
    /\ \E s \in Free :
        session' = [session EXCEPT ![s] = [@ EXCEPT
            !.owner = call[c].user, !.password = call[c].guess,
            !.outlives = call[c].guess # user[call[c].user].password]]
    /\ EndCall(c)
    /\ UNCHANGED <<user, calls, faults>>

LoginStep(c) ==
    \/ \E u \in Users, guess \in 0..MaxPasswords : StartLogin(c, u, guess)
    \/ ReleaseRead(c) \/ Unlock(c) \/ ReadFresh(c)
    \/ CountFailure(c) \/ Lock(c) \/ RegisterSuccess(c) \/ CreateSession(c)
-----------------------------------------------------------------------------
(* refreshHandler() and rotateSession()                                    *)

\* The token is one the session had at some time; only its last one matches.
StartRefresh(c, s, token) ==
    /\ Active(s) /\ token <= session[s].token
    /\ Start(c, [NoCall EXCEPT
            !.pc = IF token = session[s].token THEN "refreshUser" ELSE "reuse",
            !.sid = s])
    /\ UNCHANGED <<user, session, faults>>

RevokeReused(c) ==
    /\ At(c, "reuse")
    /\ Revoke({call[c].sid})
    /\ EndCall(c)
    /\ UNCHANGED <<user, calls, faults>>

RefreshUser(c) ==
    /\ At(c, "refreshUser")
    /\ IF Off(session[call[c].sid].owner) THEN EndCall(c) ELSE Goto(c, "rotateRead")
    /\ UNCHANGED <<user, session, calls, faults>>

RotateRead(c) ==
    /\ At(c, "rotateRead")
    /\ IF Active(call[c].sid) THEN Goto(c, "rotateSave") ELSE EndCall(c)
    /\ UNCHANGED <<user, session, calls, faults>>

\* Mutant: save() writes the document as it was read, revokedAt included.
RotatedWhole(doc) == [doc EXCEPT !.token = @ + 1, !.life = "live"]
Rotated(doc) ==
    [doc EXCEPT !.token = @ + 1, !.life = IF @ = "revoked" THEN @ ELSE "live"]

RotateSave(c) ==
    /\ At(c, "rotateSave")
    /\ session[call[c].sid].token < MaxTokens
    /\ session' = [session EXCEPT ![call[c].sid] = Rotated(@)]
    /\ EndCall(c)
    /\ UNCHANGED <<user, calls, faults>>

RefreshStep(c) ==
    \/ \E s \in Sids, token \in 0..MaxTokens : StartRefresh(c, s, token)
    \/ RevokeReused(c) \/ RefreshUser(c) \/ RotateRead(c) \/ RotateSave(c)
-----------------------------------------------------------------------------
(* authenticate(), requireAdmin(), requirePasswordChanged()                *)

StartRequest(c, s, op, target, guess) ==
    /\ Active(s)
    /\ Start(c, [NoCall EXCEPT !.pc = "authUser", !.op = op, !.sid = s,
            !.user = session[s].owner, !.target = target, !.guess = guess])
    /\ UNCHANGED <<user, session, faults>>

\* Mutant: creating a user goes the way of the operations on one.
FirstStepNoCreate(op) == CASE op = "logout" -> "logout"
                           [] op = "change" -> "changeRead"
                           [] OTHER -> "targetRead"
FirstStep(op) == CASE op = "logout" -> "logout"
                   [] op = "change" -> "changeRead"
                   [] op = "createUser" -> "findName"
                   [] OTHER -> "targetRead"

MayDo(doc, op) ==
    op \in {"logout", "change"} \/ (doc.role = "ADMIN" /\ ~doc.mustChange)

AuthenticateUser(c) ==
    /\ At(c, "authUser")
    /\ LET u == call[c].user IN
       IF Off(u) \/ LockRuns(u) \/ ~MayDo(user[u], call[c].op)
       THEN EndCall(c)
       ELSE Goto(c, FirstStep(call[c].op))
    /\ UNCHANGED <<user, session, calls, faults>>

Logout(c) ==
    /\ At(c, "logout")
    /\ Revoke({call[c].sid})
    /\ EndCall(c)
    /\ UNCHANGED <<user, calls, faults>>
-----------------------------------------------------------------------------
(* changePasswordHandler(): the session it is called from is kept.         *)

ChangeRead(c) ==
    /\ At(c, "changeRead")
    /\ LET u == call[c].user IN
       IF call[c].guess # user[u].password
       THEN EndCall(c)
       ELSE call' = [call EXCEPT ![c].pc = "changeSave",
                                 ![c].same = ~user[u].mustChange]
    /\ UNCHANGED <<user, session, calls, faults>>

ChangeSave(c) ==
    /\ At(c, "changeSave")
    /\ LET u == call[c].user IN
       /\ user[u].password < MaxPasswords
       /\ user' = [user EXCEPT ![u].password = NewPassword(u),
                                ![u].mustChange = Saved(c, @, FALSE),
                                ![u].setBy = call[c].sid]
    /\ Goto(c, "changeRevoke")
    /\ UNCHANGED <<session, calls, faults>>

ChangeRevoke(c) ==
    /\ At(c, "changeRevoke")
    /\ Revoke(SessionsOf(call[c].user) \ {call[c].sid})
    /\ EndCall(c)
    /\ UNCHANGED <<user, calls, faults>>
-----------------------------------------------------------------------------
(* usersController.ts                                                      *)

\* createUserHandler: look the name up, then insert under its unique index.
FindName(c) ==
    /\ At(c, "findName")
    /\ IF user[call[c].target].status = "ABSENT" THEN Goto(c, "insert") ELSE EndCall(c)
    /\ UNCHANGED <<user, session, calls, faults>>

Inserted(doc, role) ==
    IF doc.status = "ABSENT" THEN [doc EXCEPT !.status = "ACTIVE", !.role = role] ELSE doc

InsertUser(c) ==
    /\ At(c, "insert")
    /\ \E role \in Roles :
        user' = [user EXCEPT ![call[c].target] = Inserted(@, role)]
    /\ EndCall(c)
    /\ UNCHANGED <<session, calls, faults>>

\* Mutant: only the other two operations refuse the caller's own account.
OwnAccountMayDemote(c) ==
    call[c].target = call[c].user /\ call[c].op \in {"deactivate", "delete"}
OwnAccount(c) ==
    /\ call[c].target = call[c].user
    /\ call[c].op \in (Roles \ {"ADMIN"}) \cup {"deactivate", "delete"}

AlreadySo(t, op) == CASE op \in Roles -> user[t].role = op
                      [] op = "reset" -> user[t].mustChange
                      [] op = "deactivate" -> user[t].status = "DEACTIVATED"
                      [] OTHER -> FALSE

TargetRead(c) ==
    /\ At(c, "targetRead")
    /\ LET t == call[c].target IN
       IF user[t].status \in {"ABSENT", "DELETED"} \/ OwnAccount(c)
       THEN EndCall(c)
       ELSE call' = [call EXCEPT ![c].pc = "targetSave",
                                 ![c].same = AlreadySo(t, call[c].op)]
    /\ UNCHANGED <<user, session, calls, faults>>

TargetSave(c) ==
    /\ At(c, "targetSave")
    /\ LET t == call[c].target  op == call[c].op IN
       \/ /\ op \in Roles
          /\ user' = [user EXCEPT ![t].role = Saved(c, @, op)]
          /\ EndCall(c)
       \/ /\ op = "reset" /\ user[t].password < MaxPasswords
          /\ user' = [user EXCEPT ![t].password = NewPassword(t),
                                   ![t].mustChange = Saved(c, @, TRUE),
                                   ![t].setBy = NoSid]
          /\ Goto(c, "targetRevoke")
       \/ /\ op \in {"deactivate", "delete"}
          /\ user' = [user EXCEPT ![t].status =
                Saved(c, @, IF op = "delete" THEN "DELETED" ELSE "DEACTIVATED")]
          /\ Goto(c, "targetRevoke")
    /\ UNCHANGED <<session, calls, faults>>

\* Mutant: the filter misses the sessions that were opened before.
TargetSessionsRotated(t) == {s \in SessionsOf(t) : session[s].token > 0}
TargetSessions(t) == SessionsOf(t)

TargetRevoke(c) ==
    /\ At(c, "targetRevoke")
    /\ Revoke(TargetSessions(call[c].target))
    /\ EndCall(c)
    /\ UNCHANGED <<user, calls, faults>>

\* What the pages of users and of one's own account send; a row may be out of date.
CreateUserForm(c, s) == \E t \in Users : StartRequest(c, s, "createUser", t, 0)
UserRow(c, s, t) == \E op \in TargetOps : StartRequest(c, s, op, t, 0)
ChangePasswordPage(c, s) ==
    \E guess \in 0..MaxPasswords : StartRequest(c, s, "change", NoUser, guess)

RequestStep(c) ==
    \/ \E s \in Sids :
        \/ StartRequest(c, s, "logout", NoUser, 0)
        \/ CreateUserForm(c, s) \/ ChangePasswordPage(c, s)
        \/ \E t \in Users : UserRow(c, s, t)
    \/ AuthenticateUser(c) \/ Logout(c)
    \/ ChangeRead(c) \/ ChangeSave(c) \/ ChangeRevoke(c)
    \/ FindName(c) \/ InsertUser(c)
    \/ TargetRead(c) \/ TargetSave(c) \/ TargetRevoke(c)
-----------------------------------------------------------------------------
(* Time, and failures.                                                     *)

LockPasses(u) ==
    /\ LockRuns(u)
    /\ user' = [user EXCEPT ![u].status = "LOCK_OVER"]
    /\ UNCHANGED <<session, call, calls, faults>>

SessionExpires(s) ==
    /\ Active(s)
    /\ session' = [session EXCEPT ![s].life = "expired"]
    /\ UNCHANGED <<user, call, calls, faults>>

\* Whose sessions a call still has to revoke.
Revoking(c) == CASE At(c, "changeRevoke") -> SessionsOf(call[c].user) \ {call[c].sid}
                 [] At(c, "targetRevoke") -> SessionsOf(call[c].target)
                 [] OTHER -> {}

\* A database call rejects: the handler passes the error on and does no more.
CallFails(c) ==
    /\ call[c] # NoCall
    /\ faults < MaxFaults /\ faults' = faults + 1
    /\ session' = [s \in Sids |->
            [session[s] EXCEPT !.outlives = @ \/ s \in Revoking(c)]]
    /\ EndCall(c)
    /\ UNCHANGED <<user, calls>>

CallStep(c) == LoginStep(c) \/ RefreshStep(c) \/ RequestStep(c) \/ CallFails(c)

Next ==
    \/ \E c \in Calls : CallStep(c)
    \/ \E u \in Users : LockPasses(u)
    \/ \E s \in Sids : SessionExpires(s)

Spec == Init /\ [][Next]_vars
-----------------------------------------------------------------------------
\* A revoked session stays revoked, although a rotation that read it before may
\* save it afterwards (sessionService.ts:52-75).
RevocationIsFinal ==
    [][\A s \in Sids : session[s].life = "revoked" => session'[s].life = "revoked"]_vars

\* Calls that decided on an account before it was barred and may still open it:
\* registerSuccessfulLogin, registerFailedLogin and releaseLockIfExpired set the
\* status whatever it is by then (lockoutService.ts:34-37, :42-45, :52-55).
Overtakes(c, u) ==
    /\ call[c].user = u
    /\ \/ call[c].pc \in LoginPcs /\ Off(u)
       \/ call[c].pc \in {"unlock", "failed", "lock", "success", "create"}

Quiet(u) == \A c \in Calls : ~Overtakes(c, u)

\* A deactivated, deleted or locked account that no such call overtakes stays
\* barred until its lock has run out: no session is opened for it, and no new login
\* gets as far as overtaking (authController.ts:45-75).
BarredStaysOut ==
    [][\A u \in Users : (Off(u) \/ LockRuns(u)) /\ Quiet(u) =>
            /\ SessionsOf(u)' = SessionsOf(u)
            /\ Off(u) => Off(u)'
            /\ LockRuns(u) => Off(u)' \/ user'[u].status \in {"LOCKED", "LOCK_OVER"}
            /\ Off(u)' = Off(u) => Quiet(u)']_vars

\* Attempts are counted by one call and the account locked by a second: an account
\* at the threshold is locked, or about to be, up to one attempt for every call
\* that failed in between (lockoutService.ts:24-39).
ThresholdLocks ==
    \A u \in Users :
        user[u].status = "ACTIVE" /\ user[u].attempts >= Threshold + faults =>
            \E c \in Calls : call[c].user = u /\ At(c, "lock")

\* A change or a reset of a password ends the sessions opened with an earlier one: each
\* is revoked, or about to be, but for the one the present password was set from, which
\* the handler spares, and those that a login overlapping the new password or a failed
\* revocation left (usersController.ts:86-90, authController.ts:204-211).
OfEarlierPassword(s) ==
    Active(s) /\ session[s].password # user[session[s].owner].password

OldPasswordIsOut ==
    \A s \in Sids : OfEarlierPassword(s) =>
        \/ session[s].outlives \/ \E c \in Calls : s \in Revoking(c)
        \/ s = user[session[s].owner].setBy

\* docs/questions.md:56-58 (Q6) promises more: once a change of password is through, no
\* prior session is left, not that of the request either, which is given a fresh one.
ChangeEndsPriorSessions ==
    \A s \in Sids : OfEarlierPassword(s) =>
        session[s].outlives \/ \E c \in Calls : call[c].pc \in {"changeRevoke", "targetRevoke"}

Acting(u) ==
    user[u].role = "ADMIN" /\ user[u].status \notin {"ABSENT", "DEACTIVATED", "DELETED"}
SomeAdmin == \E u \in Users : Acting(u)

\* The last administrator falls only to one who has fallen: the step that leaves the
\* system without one is a request whose own account lost its rights after it was
\* authenticated, for administrators who demote or turn off each other at once each
\* spare only themselves (usersController.ts:60-62, :110-112, :135-137).
LastAdminFalls ==
    [][SomeAdmin /\ ~SomeAdmin' =>
        \E c \in Calls : At(c, "targetSave") /\ call'[c] # call[c]
                          /\ ~Acting(call[c].user)]_vars
=============================================================================
