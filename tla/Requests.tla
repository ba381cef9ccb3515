------------------------------ MODULE Requests ------------------------------
(***************************************************************************)
(* What one browser and the server do about a request around its handler:  *)
(* apiFetch() with its silent refresh and single retry (client lib/api.ts),*)
(* AuthProvider (app/AuthContext.tsx), the authenticate, csrfVerify and    *)
(* idempotency middleware, and the rotation of the session.                *)
(*                                                                         *)
(* A call is one invocation of apiFetch; requests and replies travel       *)
(* between its steps, and the calls of a page overlap.  Refresh and CSRF   *)
(* tokens are always set together: both are the number of their rotation.  *)
(* The access token is a flag, for it names the session alone.  A refresh  *)
(* cookie lapses with its session: both are good for eight hours.          *)
(***************************************************************************)
EXTENDS Integers, FiniteSets

CONSTANTS
    Calls,              \* invocations of apiFetch at one time
    InitCall,           \* the call AuthProvider starts with
    Keys,               \* Idempotency-Keys that callers supply
    NoKey,              \* a key of newIdempotencyKey(), never sent again
    Bodies, NoBody,
    AccessAtLoad,       \* bound: whether the access token is good when a page is loaded
    MaxCalls,           \* bound: calls after the first one
    MaxLogins,          \* bound: sessions created
    MaxExpiries,        \* bound: access tokens and sessions that expire
    MaxFaults           \* bound: replies, records and handlers that fail

ASSUME RequestsAssumption ==
    /\ InitCall \in Calls /\ NoKey \notin Keys /\ NoBody \notin Bodies
    /\ AccessAtLoad \subseteq BOOLEAN
    /\ MaxCalls \in Nat /\ MaxLogins \in Nat /\ MaxExpiries \in Nat
    /\ MaxFaults \in Nat

VARIABLES
    jar,                \* the cookies of the browser
    user,               \* AuthProvider: loading, or is there a user
    call,               \* call[c]: how far a call is and what it carries
    session,            \* session[s]: the token of the document, and is it usable
    issued,             \* rotations so far, logins included
    record,             \* record[k]: the body of the stored idempotency record
    storing,            \* records about to be stored
    effects,            \* effects[k][b]: times the handler acted
    raced,              \* keys sent again before the record of the first was stored
    calm,               \* no call met an exchange of cookies, and nothing failed
    calls, expiries, faults

server == <<session, issued, record, storing, effects>>
bounds == <<calls, expiries, faults>>
history == <<raced, calm>>
vars == <<jar, user, call, server, history, bounds>>

Sids == 1..MaxLogins
Cookies == [sid : 0..MaxLogins, token : Nat, access : BOOLEAN]
NoCookies == [sid |-> 0, token |-> 0, access |-> FALSE]

\* init, initRefresh, initAgain: the three calls of AuthProvider's first effect.
\* me: refreshUser().  read: a query.  write: a mutation.
AuthKinds == {"init", "initRefresh", "initAgain", "me", "login", "logout"}
Kinds == AuthKinds \cup {"read", "write"}
Mutations == {"write", "logout"}
Answers == {"none", "ok", "401", "csrf", "conflict", "failed", "lost"}

Call ==
    [pc : {"idle", "sent", "lookup", "handle", "reply", "refresh", "reuse",
           "rotate", "rotateSave", "refreshed"},
     kind : Kinds, key : Keys \cup {NoKey}, body : Bodies \cup {NoBody},
     isRetry : BOOLEAN,
     carries : Cookies,             \* of the request, or set by the reply
     answer : Answers,
     acted : Nat]                   \* times the handler acted for this call

Idle == [pc |-> "idle", kind |-> "read", key |-> NoKey, body |-> NoBody,
         isRetry |-> FALSE, carries |-> NoCookies, answer |-> "none", acted |-> 0]

Session == [token : Nat, life : {"none", "live", "expired", "revoked"}]

TypeOK ==
    /\ jar \in Cookies
    /\ user \in {"loading", "in", "out"}
    /\ call \in [Calls -> Call]
    /\ session \in [Sids -> Session]
    /\ issued \in Nat
    /\ record \in [Keys -> Bodies \cup {NoBody}]
    /\ storing \in SUBSET (Keys \X Bodies)
    /\ effects \in [Keys -> [Bodies -> Nat]]
    /\ raced \in SUBSET Keys /\ calm \in BOOLEAN
    /\ calls \in 0..MaxCalls /\ expiries \in 0..MaxExpiries /\ faults \in 0..MaxFaults
    /\ \A c \in Calls : call[c].key \in Keys => call[c].body \in Bodies

\* The page is loaded with the cookies of a session, of which the access token may
\* have expired, or with none.
Init ==
    /\ \E access \in AccessAtLoad, s \in Sids \cup {0} :
        /\ s \in {0, 1}
        /\ jar = [sid |-> s, token |-> 0, access |-> access /\ s # 0]
        /\ session = [t \in Sids |->
                [token |-> 0, life |-> IF t = s THEN "live" ELSE "none"]]
    /\ user = "loading"
    /\ call = [c \in Calls |-> IF c # InitCall THEN Idle
                 ELSE [Idle EXCEPT !.pc = "sent", !.kind = "init", !.carries = jar]]
    /\ issued = 0
    /\ record = [k \in Keys |-> NoBody] /\ storing = {}
    /\ effects = [k \in Keys |-> [b \in Bodies |-> 0]]
    /\ raced = {} /\ calm = TRUE
    /\ calls = 0 /\ expiries = 0 /\ faults = 0
-----------------------------------------------------------------------------
At(c, pc) == call[c].pc = pc
Goto(c, pc) == call' = [call EXCEPT ![c].pc = pc]
Reply(c, answer) ==
    call' = [call EXCEPT ![c] = [@ EXCEPT !.pc = "reply", !.answer = answer,
                                          !.carries = NoCookies]]
Live(s) == s \in Sids /\ session[s].life = "live"
Spare == faults < MaxFaults
Fault == Spare /\ faults' = faults + 1
-----------------------------------------------------------------------------
(* The browser: pages and AuthProvider call the API.                       *)

\* login() and refresh() go out like any other request, but never answer a 401
\* with a refresh.
Dispatch(c, fields) ==
    call' = [call EXCEPT ![c] = [fields EXCEPT
        !.pc = IF fields.kind = "initRefresh" THEN "refresh" ELSE "sent",
        !.carries = jar]]

StartCall(c, fields) ==
    /\ At(c, "idle")
    /\ calls < MaxCalls /\ calls' = calls + 1
    /\ Dispatch(c, fields)
    /\ UNCHANGED <<jar, user, server, expiries, faults>>

RequireAuth == user = "in"

\* Every page but the one for the login is behind RequireAuth.
Routed(kind) == kind = "login" \/ RequireAuth

Page(c, kind) == Routed(kind) /\ StartCall(c, [Idle EXCEPT !.kind = kind])

LoginPage(c) == Page(c, "login")

\* A mutation gets a new key with each request, but the button that triggers a run
\* supplies one.
Mutate(c) == Page(c, "write")
TriggerButton(c, key, body) ==
    /\ Routed("write")
    /\ StartCall(c, [Idle EXCEPT !.kind = "write", !.key = key, !.body = body])

\* Mutant: any failed request is sent again.
RetriesAny(c) ==
    /\ call[c].answer \in {"401", "failed", "lost"} /\ ~call[c].isRetry
    /\ call[c].kind # "login"
\* Mutant: the second attempt does not know that it is one.
RetriesForever(c) == call[c].answer = "401" /\ call[c].kind # "login"
Retries(c) == call[c].answer = "401" /\ ~call[c].isRetry /\ call[c].kind # "login"

\* The end of a call, and what AuthProvider does about it.
Ended(c, ok) ==
    LET kind == call[c].kind IN
    CASE kind = "init" /\ ~ok ->
            Dispatch(c, [Idle EXCEPT !.kind = "initRefresh"]) /\ user' = user
      [] kind = "initRefresh" /\ ok ->
            Dispatch(c, [Idle EXCEPT !.kind = "initAgain"]) /\ user' = user
      [] OTHER ->
            /\ call' = [call EXCEPT ![c] = Idle]
            /\ user' = CASE kind \in {"init", "initAgain", "me"} /\ ok -> "in"
                         [] kind \in {"initRefresh", "initAgain", "me"} /\ ~ok -> "out"
                         [] kind = "login" /\ ok -> "in"
                         [] kind = "logout" /\ ok -> "out"
                         [] OTHER -> user

\* The reply to login sets the cookies, the one to logout clears them.
SetCookies(c) ==
    LET ok == call[c].answer = "ok" IN
    jar' = CASE call[c].kind = "login" /\ ok -> call[c].carries
             [] call[c].kind = "logout" /\ ok -> NoCookies
             [] OTHER -> jar

GetReply(c) ==
    /\ At(c, "reply")
    /\ IF Retries(c)
       THEN /\ call' = [call EXCEPT ![c].pc = "refresh", ![c].carries = jar]
            /\ UNCHANGED <<jar, user>>
       ELSE SetCookies(c) /\ Ended(c, call[c].answer = "ok")
    /\ UNCHANGED <<server, bounds>>

\* Mutant: a refresh sets the CSRF and the access cookie only.
JarWithoutRefresh(new) == [new EXCEPT !.token = jar.token]
RefreshedJar(new) == new

Again(kind) == IF kind = "initRefresh" THEN "initAgain" ELSE kind

\* The reply to a refresh: the call goes out once more whatever it says.
GetRefreshed(c) ==
    /\ At(c, "refreshed")
    /\ LET ok == call[c].answer = "ok"
           now == IF ok THEN RefreshedJar(call[c].carries) ELSE jar IN
       /\ jar' = now
       /\ IF call[c].kind = "initRefresh" /\ ~ok
          THEN call' = [call EXCEPT ![c] = Idle] /\ user' = "out"
          ELSE /\ call' = [call EXCEPT ![c] = [@ EXCEPT
                    !.pc = "sent", !.carries = now, !.answer = "none",
                    !.isRetry = call[c].kind # "initRefresh", !.kind = Again(call[c].kind)]]
               /\ user' = user
    /\ UNCHANGED <<server, bounds>>

BrowserStep(c) == GetReply(c) \/ GetRefreshed(c)

AccessExpires ==
    /\ jar.access /\ expiries < MaxExpiries /\ expiries' = expiries + 1
    /\ jar' = [jar EXCEPT !.access = FALSE]
    /\ UNCHANGED <<user, call, server, calls, faults>>

\* A session that nobody has refreshed for eight hours.
SessionExpires(s) ==
    /\ session[s].life = "live" /\ expiries < MaxExpiries /\ expiries' = expiries + 1
    /\ session' = [session EXCEPT ![s].life = "expired"]
    /\ UNCHANGED <<jar, user, call, issued, record, storing, effects, calls, faults>>
-----------------------------------------------------------------------------
(* The server, up to the handler.                                          *)

\* authenticate(), then csrfVerify() for a write.
Authenticate(c) ==
    /\ At(c, "sent") /\ call[c].kind # "login"
    /\ LET with == call[c].carries
           known == with.access /\ Live(with.sid)
           forged == call[c].kind \in Mutations /\ with.token # session[with.sid].token
       IN
       CASE ~known -> Reply(c, "401")
         [] known /\ forged -> Reply(c, "csrf")
         [] known /\ ~forged /\ call[c].kind = "write" -> Goto(c, "lookup")
         [] known /\ ~forged /\ call[c].kind = "logout" -> Goto(c, "handle")
         [] OTHER -> Reply(c, "ok")
    /\ UNCHANGED <<jar, user, server, bounds>>

\* Mutant: the stored answer is replayed whatever the body.
SameBodyAny(key, body) == TRUE
SameBody(key, body) == record[key] = body

LookUp(c) ==
    /\ At(c, "lookup")
    /\ LET k == call[c].key IN
       CASE k = NoKey -> Goto(c, "handle")
         [] k # NoKey /\ record[k] = NoBody -> Goto(c, "handle")
         [] OTHER -> Reply(c, IF SameBody(k, call[c].body) THEN "ok" ELSE "conflict")
    /\ UNCHANGED <<jar, user, server, bounds>>

\* Mutant: nothing is recorded of an answer without a body.
ToStoreWithBody(c) == {}
\* Mutant: it is stored under another key than the one that was looked up.
ToStoreOther(c) == {<<NoKey, call[c].body>>}
ToStore(c) == {<<call[c].key, call[c].body>>}

\* The handler of a write: it acts and answers 2xx, or fails before or after.
Handle(c) ==
    /\ At(c, "handle") /\ call[c].kind = "write"
    /\ \E acts \in BOOLEAN, ok \in BOOLEAN :
        /\ IF ok THEN acts /\ faults' = faults ELSE Fault
        /\ call' = [call EXCEPT ![c] = [@ EXCEPT
                !.pc = "reply", !.carries = NoCookies,
                !.answer = IF ok THEN "ok" ELSE "failed",
                !.acted = call[c].acted + (IF acts THEN 1 ELSE 0)]]
        /\ IF call[c].key = NoKey THEN UNCHANGED <<effects, storing>>
           ELSE /\ effects' = IF acts
                    THEN [effects EXCEPT ![call[c].key][call[c].body] = @ + 1]
                    ELSE effects
                /\ storing' = IF ok THEN storing \cup ToStore(c) ELSE storing
    /\ UNCHANGED <<jar, user, session, issued, record, calls, expiries>>

\* changePasswordHandler answers a wrong password with a 401 of its own.
InvalidCredentials(c) ==
    /\ At(c, "handle") /\ call[c].kind = "write" /\ call[c].key = NoKey
    /\ Reply(c, "401")
    /\ UNCHANGED <<jar, user, server, bounds>>

Logout(c) ==
    /\ At(c, "handle") /\ call[c].kind = "logout"
    /\ session' = [session EXCEPT ![call[c].carries.sid].life = "revoked"]
    /\ Reply(c, "ok")
    /\ UNCHANGED <<jar, user, issued, record, storing, effects, bounds>>

\* The insert behind res 'finish', under a unique index.
Store(key, body) ==
    /\ <<key, body>> \in storing
    /\ storing' = storing \ {<<key, body>>}
    /\ record' = [record EXCEPT ![key] = IF @ = NoBody THEN body ELSE @]
    /\ UNCHANGED <<jar, user, call, session, issued, effects, bounds>>

LoseRecord(key, body) ==
    /\ <<key, body>> \in storing /\ Fault
    /\ storing' = storing \ {<<key, body>>}
    /\ UNCHANGED <<jar, user, call, session, issued, record, effects, calls, expiries>>
-----------------------------------------------------------------------------
(* The server: login and refresh.                                          *)

NewCookies(s, t) == [sid |-> s, token |-> t, access |-> TRUE]

Login(c) ==
    /\ At(c, "sent") /\ call[c].kind = "login"
    /\ \/ \E s \in Sids :
            /\ session[s].life = "none"
            /\ issued' = issued + 1
            /\ session' = [session EXCEPT ![s] = [token |-> issued', life |-> "live"]]
            /\ call' = [call EXCEPT ![c] = [@ EXCEPT !.pc = "reply", !.answer = "ok",
                            !.carries = NewCookies(s, issued')]]
       \/ Reply(c, "401") /\ UNCHANGED <<session, issued>>
    /\ UNCHANGED <<jar, user, record, storing, effects, bounds>>

Refused(c) ==
    call' = [call EXCEPT ![c] = [@ EXCEPT !.pc = "refreshed", !.answer = "401",
                                          !.carries = NoCookies]]

\* refreshHandler: find and compare.
Refresh(c) ==
    /\ At(c, "refresh")
    /\ LET with == call[c].carries IN
       CASE ~Live(with.sid) -> Refused(c)
         [] Live(with.sid) /\ with.token = session[with.sid].token -> Goto(c, "rotate")
         [] OTHER -> Goto(c, "reuse")
    /\ UNCHANGED <<jar, user, server, bounds>>

\* A token that was not the last one revokes the session.
RevokeReused(c) ==
    /\ At(c, "reuse")
    /\ session' = [session EXCEPT ![call[c].carries.sid].life = "revoked"]
    /\ Refused(c)
    /\ UNCHANGED <<jar, user, issued, record, storing, effects, bounds>>

\* rotateSession: the session is read again, but no token is compared.
RotateRead(c) ==
    /\ At(c, "rotate")
    /\ IF Live(call[c].carries.sid) THEN Goto(c, "rotateSave") ELSE Refused(c)
    /\ UNCHANGED <<jar, user, server, bounds>>

\* The save writes new tokens and a new end, and leaves a revocation alone.
RotateSave(c) ==
    /\ At(c, "rotateSave")
    /\ LET s == call[c].carries.sid IN
       /\ issued' = issued + 1
       /\ session' = [session EXCEPT ![s] =
                [token |-> issued', life |-> IF @.life = "revoked" THEN "revoked" ELSE "live"]]
       /\ call' = [call EXCEPT ![c] = [@ EXCEPT !.pc = "refreshed", !.answer = "ok",
                        !.carries = NewCookies(s, issued')]]
    /\ UNCHANGED <<jar, user, record, storing, effects, bounds>>

\* A reply does not reach the browser: fetch() rejects.
LoseReply(c) ==
    /\ call[c].pc \in {"reply", "refreshed"} /\ call[c].answer # "lost"
    /\ Fault
    /\ call' = [call EXCEPT ![c] = [@ EXCEPT !.answer = "lost", !.carries = NoCookies]]
    /\ UNCHANGED <<jar, user, server, calls, expiries>>

ServerStep(c) ==
    Authenticate(c) \/ LookUp(c) \/ Handle(c) \/ InvalidCredentials(c) \/ Logout(c)
    \/ Login(c) \/ Refresh(c) \/ RevokeReused(c) \/ RotateRead(c) \/ RotateSave(c)
-----------------------------------------------------------------------------
\* A call is about to change the cookies and the token of the session.
Exchanging(c) ==
    \/ call[c].pc \in {"refresh", "reuse", "rotate", "rotateSave", "refreshed"}
    \/ call[c].kind \in {"login", "logout"}
Meeting ==
    \E c, d \in Calls : c # d /\ Exchanging(c) /\
        (\/ Exchanging(d) \/ call[d].kind \in AuthKinds
         \/ call[d].kind = "write" /\ At(d, "sent"))
Racing(k) ==
    \E c \in Calls : At(c, "handle") /\ call[c].key = k /\
        (\/ \E d \in Calls \ {c} : At(d, "handle") /\ call[d].key = k
         \/ \E b \in Bodies : <<k, b>> \in storing)

\* What the properties tell apart of the past.
Observe ==
    /\ raced' = raced \cup {k \in Keys : Racing(k)'}
    /\ calm' = (calm /\ ~Meeting' /\ faults' = faults)

CallStep(c) == BrowserStep(c) \/ ServerStep(c)

Next ==
    \/ \E c \in Calls, kind \in {"me", "logout", "read"} : Page(c, kind) /\ Observe
    \/ \E c \in Calls : LoginPage(c) /\ Observe
    \/ \E c \in Calls : Mutate(c) /\ Observe
    \/ \E c \in Calls, key \in Keys, body \in Bodies :
            TriggerButton(c, key, body) /\ Observe
    \/ \E c \in Calls :
        \/ GetReply(c) /\ Observe
        \/ GetRefreshed(c) /\ Observe
        \/ Authenticate(c) /\ Observe
        \/ LookUp(c) /\ Observe
        \/ Handle(c) /\ Observe
        \/ InvalidCredentials(c) /\ Observe
        \/ Logout(c) /\ Observe
        \/ Login(c) /\ Observe
        \/ Refresh(c) /\ Observe
        \/ RevokeReused(c) /\ Observe
        \/ RotateRead(c) /\ Observe
        \/ RotateSave(c) /\ Observe
        \/ LoseReply(c) /\ Observe
    \/ \E key \in Keys, body \in Bodies :
        \/ Store(key, body) /\ Observe
        \/ LoseRecord(key, body) /\ Observe
    \/ AccessExpires /\ Observe
    \/ \E s \in Sids : SessionExpires(s) /\ Observe

\* The server answers what it received, and a page goes on with what it received.
Fairness == \A c \in Calls : WF_call(CallStep(c))
Spec == Init /\ [][Next]_vars /\ Fairness
-----------------------------------------------------------------------------
\* A call of apiFetch acts at most once, although it may send its request twice with
\* a new Idempotency-Key each (api.ts:29-42).
OneEffectPerCall == \A c \in Calls : call[c].acted <= 1

Acted(k) == \E b \in Bodies : effects[k][b] > 0
ActedTwice(k) ==
    \/ \E b \in Bodies : effects[k][b] > 1
    \/ \E a, b \in Bodies : a # b /\ effects[k][a] > 0 /\ effects[k][b] > 0

\* A supplied key acts at most once over all the calls that carry it, unless one was
\* looked up before the record of another was stored, or a step failed
\* (idempotency.ts:35-76).
KeyActsOnce == \A k \in Keys \ raced : faults = 0 => ~ActedTwice(k)

\* A keyed call that is told 2xx asked for what was done: its own body took effect
\* (idempotency.ts:41-48).
AnswerIsForBody ==
    \A c \in Calls : call[c].key \in Keys /\ call[c].answer = "ok" /\ At(c, "reply") =>
        effects[call[c].key][call[c].body] > 0

\* As long as no exchange of cookies overlapped another, a write or a call that tells
\* who is signed in, and nothing failed, a signed-in browser is not thrown out: its
\* session may have run out, which nothing tells the browser, but it was not revoked,
\* the browser holds the tokens of the session, and no request is refused for its CSRF
\* token (api.ts:35-41, authController.ts:133-147, sessionService.ts:58-73).
CalmStaysIn ==
    calm => /\ \A c \in Calls : call[c].answer # "csrf"
            /\ user = "in" /\ (\A c \in Calls : ~Exchanging(c)) =>
                /\ jar.sid \in Sids
                /\ session[jar.sid].life \in {"live", "expired"}
                /\ jar.token = session[jar.sid].token

\* Every call ends, whatever is answered: when the pages start no more of them, all
\* are over at last (api.ts:35-41).
EveryCallEnds == <>[](\A c \in Calls : At(c, "idle"))

\* "On expiry the client calls POST /api/auth/refresh using the ms_refresh cookie to
\* rotate tokens silently" (docs/api-spec.md:8): the session of a browser is not
\* ended by it, but by a logout.
SilentRefresh ==
    jar.sid # 0 /\ session[jar.sid].life = "revoked" =>
        \E c \in Calls : call[c].kind = "logout"
=============================================================================
