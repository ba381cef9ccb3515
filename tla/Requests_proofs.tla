-------------------------- MODULE Requests_proofs --------------------------
(***************************************************************************)
(* Theorems about calls of the API and their Idempotency-Keys, for every   *)
(* number of calls, keys, bodies, logins and failures.                     *)
(***************************************************************************)
EXTENDS Requests, TLAPS

USE RequestsAssumption DEF RequestsAssumption

\* The variables of the server, of the browser and the bounds.
CallsOK ==
    /\ call \in [Calls -> Call]
    /\ \A c \in Calls : call[c].key \in Keys => call[c].body \in Bodies
RestOK ==
    /\ jar \in Cookies
    /\ user \in {"loading", "in", "out"}
    /\ session \in [Sids -> Session]
    /\ issued \in Nat
    /\ record \in [Keys -> Bodies \cup {NoBody}]
    /\ storing \in SUBSET (Keys \X Bodies)
    /\ effects \in [Keys -> [Bodies -> Nat]]
BoundsOK ==
    calls \in 0..MaxCalls /\ expiries \in 0..MaxExpiries /\ faults \in 0..MaxFaults

LEMMA TypeParts ==
  TypeOK <=> CallsOK /\ RestOK /\ BoundsOK /\ raced \in SUBSET Keys /\ calm \in BOOLEAN
BY Zenon DEF TypeOK, CallsOK, RestOK, BoundsOK

\* A call that is given a well-formed record leaves the calls well formed.
LEMMA CallReplaced ==
  ASSUME CallsOK, NEW c \in Calls, NEW r \in Call, r.key \in Keys => r.body \in Bodies,
         call' = [call EXCEPT ![c] = r]
  PROVE  CallsOK'
BY DEF CallsOK

LEMMA CallFields ==
  ASSUME CallsOK, NEW c \in Calls
  PROVE  /\ call[c] \in Call
         /\ call[c].key \in Keys => call[c].body \in Bodies
BY DEF CallsOK

LEMMA IdleType == Idle \in Call /\ NoCookies \in Cookies /\ Idle.key \notin Keys
BY DEF Idle, Call, NoCookies, Cookies, Kinds, AuthKinds, Answers

LEMMA ReplyType ==
  ASSUME CallsOK, NEW c \in Calls, NEW a \in Answers, Reply(c, a)
  PROVE  CallsOK'
<1> DEFINE r == [call[c] EXCEPT !.pc = "reply", !.answer = a, !.carries = NoCookies]
<1>1. r \in Call /\ (r.key \in Keys => r.body \in Bodies)
  BY CallFields, IdleType DEF Call
<1>2. call' = [call EXCEPT ![c] = r]
  BY DEF Reply
<1> QED BY <1>1, <1>2, CallReplaced

\* The points of a call that it passes on the server.
Stations == {"lookup", "handle", "reuse", "rotate", "rotateSave"}

LEMMA GotoType ==
  ASSUME CallsOK, NEW c \in Calls, NEW pc \in Stations, Goto(c, pc)
  PROVE  CallsOK'
<1> DEFINE r == [call[c] EXCEPT !.pc = pc]
<1>1. r \in Call /\ (r.key \in Keys => r.body \in Bodies)
  BY CallFields DEF Call, Stations
<1>2. call' = [call EXCEPT ![c] = r]
  BY DEF Goto
<1> QED BY <1>1, <1>2, CallReplaced

LEMMA DispatchType ==
  ASSUME CallsOK, RestOK, NEW c \in Calls, NEW f \in Call, f.key \in Keys => f.body \in Bodies,
         Dispatch(c, f)
  PROVE  CallsOK'
<1> DEFINE r == [f EXCEPT !.pc = IF f.kind = "initRefresh" THEN "refresh" ELSE "sent",
                          !.carries = jar]
<1>1. r \in Call /\ (r.key \in Keys => r.body \in Bodies)
  BY DEF Call, RestOK
<1>2. call' = [call EXCEPT ![c] = r]
  BY DEF Dispatch
<1> QED BY <1>1, <1>2, CallReplaced

LEMMA RefusedType ==
  ASSUME CallsOK, NEW c \in Calls, Refused(c)
  PROVE  CallsOK'
<1> DEFINE r == [call[c] EXCEPT !.pc = "refreshed", !.answer = "401", !.carries = NoCookies]
<1>1. r \in Call /\ (r.key \in Keys => r.body \in Bodies)
  BY CallFields, IdleType DEF Call, Answers
<1>2. call' = [call EXCEPT ![c] = r]
  BY DEF Refused
<1> QED BY <1>1, <1>2, CallReplaced

LEMMA StartCallType ==
  ASSUME CallsOK, RestOK, BoundsOK, NEW c \in Calls,
         NEW f \in Call, f.key \in Keys => f.body \in Bodies, StartCall(c, f)
  PROVE  CallsOK' /\ RestOK' /\ BoundsOK'
<1>1. CallsOK'
  BY DispatchType DEF StartCall
<1> QED BY <1>1 DEF StartCall, server, RestOK, BoundsOK

\* The pages.
LEMMA PageType ==
  ASSUME CallsOK, RestOK, BoundsOK, NEW c \in Calls,
         \/ \E kind \in Kinds : Page(c, kind)
         \/ \E key \in Keys, body \in Bodies : TriggerButton(c, key, body)
  PROVE  CallsOK' /\ RestOK' /\ BoundsOK'
<1>1. ASSUME NEW kind \in Kinds, Page(c, kind) PROVE CallsOK' /\ RestOK' /\ BoundsOK'
  <2> DEFINE f == [Idle EXCEPT !.kind = kind]
  <2>1. f \in Call /\ f.key \notin Keys
    BY IdleType DEF Call, Idle
  <2> QED BY <1>1, <2>1, StartCallType DEF Page
<1>2. ASSUME NEW key \in Keys, NEW body \in Bodies, TriggerButton(c, key, body)
      PROVE  CallsOK' /\ RestOK' /\ BoundsOK'
  <2> DEFINE f == [Idle EXCEPT !.kind = "write", !.key = key, !.body = body]
  <2>1. f \in Call /\ f.body \in Bodies
    BY IdleType DEF Call, Idle, Kinds
  <2> QED BY <1>2, <2>1, StartCallType DEF TriggerButton
<1> QED BY <1>1, <1>2

\* The ends of calls in the browser.
LEMMA GetReplyType ==
  ASSUME CallsOK, RestOK, BoundsOK, NEW c \in Calls, GetReply(c)
  PROVE  CallsOK' /\ RestOK' /\ BoundsOK'
<1>1. CASE Retries(c)
  <2> DEFINE r == [call[c] EXCEPT !.pc = "refresh", !.carries = jar]
  <2>1. r \in Call /\ (r.key \in Keys => r.body \in Bodies)
    BY CallFields DEF Call, RestOK
  <2>2. call' = [call EXCEPT ![c] = r]
    BY <1>1 DEF GetReply
  <2> QED BY <1>1, <2>1, <2>2, CallReplaced DEF GetReply, server, bounds, RestOK, BoundsOK
<1>2. CASE ~Retries(c)
  <2>1. SetCookies(c) /\ Ended(c, call[c].answer = "ok")
    BY <1>2 DEF GetReply
  <2>2. jar' \in Cookies
    BY <2>1, CallFields, IdleType DEF SetCookies, Call, RestOK
  <2>3. user' \in {"loading", "in", "out"}
    BY <2>1 DEF Ended, RestOK
  <2>4. CallsOK'
    <3>1. \/ \E kind \in Kinds : Dispatch(c, [Idle EXCEPT !.kind = kind])
          \/ call' = [call EXCEPT ![c] = Idle]
      BY <2>1 DEF Ended, Kinds, AuthKinds
    <3>2. ASSUME NEW kind \in Kinds, Dispatch(c, [Idle EXCEPT !.kind = kind])
          PROVE  CallsOK'
      <4> DEFINE f == [Idle EXCEPT !.kind = kind]
      <4>1. f \in Call /\ f.key \notin Keys
        BY IdleType DEF Call, Idle
      <4> QED BY <3>2, <4>1, DispatchType
    <3> QED BY <3>1, <3>2, CallReplaced, IdleType
  <2> QED BY <2>2, <2>3, <2>4 DEF GetReply, server, bounds, RestOK, BoundsOK
<1> QED BY <1>1, <1>2

LEMMA GetRefreshedType ==
  ASSUME CallsOK, RestOK, BoundsOK, NEW c \in Calls, GetRefreshed(c)
  PROVE  CallsOK' /\ RestOK' /\ BoundsOK'
<1> DEFINE new == IF call[c].answer = "ok" THEN call[c].carries ELSE jar
           kind == Again(call[c].kind)
           again == call[c].kind # "initRefresh"
           Sent(n, k, q) == [call[c] EXCEPT !.pc = "sent", !.carries = n, !.answer = "none",
                                            !.isRetry = q, !.kind = k]
<1>1. new \in Cookies /\ kind \in Kinds /\ again \in BOOLEAN
  BY CallFields DEF Call, RestOK, Kinds, AuthKinds, Again
<1>2. ASSUME NEW n \in Cookies, NEW k \in Kinds, NEW q \in BOOLEAN
      PROVE  Sent(n, k, q) \in Call /\ (Sent(n, k, q).key \in Keys => Sent(n, k, q).body \in Bodies)
  BY CallFields DEF Call, Answers
<1>3. /\ jar' = new
      /\ \/ call' = [call EXCEPT ![c] = Idle] /\ user' = "out"
         \/ call' = [call EXCEPT ![c] = Sent(new, kind, again)] /\ user' = user
  BY DEF GetRefreshed, RefreshedJar
<1> HIDE DEF new, kind, again, Sent
<1>4. CallsOK'
  BY <1>1, <1>2, <1>3, CallReplaced, IdleType
<1> QED BY <1>1, <1>3, <1>4 DEF GetRefreshed, server, bounds, RestOK, BoundsOK

\* The server.
LEMMA AuthenticateType ==
  ASSUME CallsOK, RestOK, BoundsOK, NEW c \in Calls,
         \/ Authenticate(c) \/ LookUp(c) \/ InvalidCredentials(c) \/ Refresh(c) \/ RotateRead(c)
  PROVE  CallsOK' /\ RestOK' /\ BoundsOK'
<1>1. UNCHANGED <<jar, user, server, bounds>>
  BY DEF Authenticate, LookUp, InvalidCredentials, Refresh, RotateRead
<1>2. \/ \E a \in Answers : Reply(c, a)
      \/ \E pc \in Stations : Goto(c, pc)
      \/ Refused(c)
  <2>1. CASE Authenticate(c)
    BY <2>1 DEF Authenticate, Answers, Stations
  <2>2. CASE LookUp(c)
    BY <2>2 DEF LookUp, Answers, Stations
  <2>3. CASE InvalidCredentials(c)
    BY <2>3 DEF InvalidCredentials, Answers
  <2>4. CASE Refresh(c)
    BY <2>4 DEF Refresh, Stations
  <2>5. CASE RotateRead(c)
    BY <2>5 DEF RotateRead, Stations
  <2> QED BY <2>1, <2>2, <2>3, <2>4, <2>5
<1>3. CallsOK'
  BY <1>2, ReplyType, GotoType, RefusedType
<1> QED BY <1>1, <1>3 DEF server, bounds, RestOK, BoundsOK

\* What the handler of a write does to the call, to the effects and to the records.
Handled(c, acts, ok) ==
    [call[c] EXCEPT !.pc = "reply", !.carries = NoCookies,
                    !.answer = IF ok THEN "ok" ELSE "failed",
                    !.acted = call[c].acted + (IF acts THEN 1 ELSE 0)]

LEMMA HandleType ==
  ASSUME CallsOK, RestOK, BoundsOK, NEW c \in Calls, Handle(c)
  PROVE  CallsOK' /\ RestOK' /\ BoundsOK'
<1>1. PICK acts \in BOOLEAN, ok \in BOOLEAN :
        /\ IF ok THEN acts /\ faults' = faults ELSE Fault
        /\ call' = [call EXCEPT ![c] = Handled(c, acts, ok)]
        /\ IF call[c].key = NoKey THEN UNCHANGED <<effects, storing>>
           ELSE /\ effects' = IF acts
                    THEN [effects EXCEPT ![call[c].key][call[c].body] = @ + 1]
                    ELSE effects
                /\ storing' = IF ok THEN storing \cup ToStore(c) ELSE storing
  BY DEF Handle, Handled
<1>2. Handled(c, acts, ok) \in Call
      /\ (Handled(c, acts, ok).key \in Keys => Handled(c, acts, ok).body \in Bodies)
  <2> DEFINE a == IF ok THEN "ok" ELSE "failed"
             n == call[c].acted + (IF acts THEN 1 ELSE 0)
  <2>1. a \in Answers /\ n \in Nat
    BY CallFields DEF Call, Answers
  <2>2. Handled(c, acts, ok) = [call[c] EXCEPT !.pc = "reply", !.carries = NoCookies,
                                               !.answer = a, !.acted = n]
    BY DEF Handled
  <2> HIDE DEF a, n
  <2> QED BY <2>1, <2>2, CallFields, IdleType DEF Call
<1>3. CallsOK'
  BY <1>1, <1>2, CallReplaced
<1>4. call[c].key # NoKey => call[c].key \in Keys /\ call[c].body \in Bodies
  BY CallFields DEF Call
<1>5. effects' \in [Keys -> [Bodies -> Nat]]
  <2>1. CASE effects' = effects
    BY <2>1 DEF RestOK
  <2>2. CASE call[c].key # NoKey /\ effects' = [effects EXCEPT ![call[c].key][call[c].body] = @ + 1]
    <3> DEFINE k == call[c].key
               b == call[c].body
               of == [effects[k] EXCEPT ![b] = @ + 1]
    <3>1. k \in Keys /\ b \in Bodies
      BY <1>4, <2>2
    <3>2. effects' = [effects EXCEPT ![k] = of]
      BY <2>2
    <3> HIDE DEF k, b
    <3>3. effects \in [Keys -> [Bodies -> Nat]] /\ effects[k] \in [Bodies -> Nat]
      BY <3>1 DEF RestOK
    <3>4. of \in [Bodies -> Nat]
      BY <3>1, <3>3
    <3> HIDE DEF of
    <3> QED BY <3>2, <3>3, <3>4
  <2> QED BY <1>1, <2>1, <2>2
<1>6. storing' \in SUBSET (Keys \X Bodies)
  BY <1>1, <1>4 DEF RestOK, ToStore
<1>7. UNCHANGED <<jar, user, session, issued, record, calls, expiries>>
  BY DEF Handle
<1>8. BoundsOK'
  BY <1>1, <1>7 DEF BoundsOK, Fault, Spare
<1> QED BY <1>3, <1>5, <1>6, <1>7, <1>8 DEF RestOK

\* The reply of a login or a refresh, with the cookies it sets.
Granted(c, pc, s, t) ==
    [call[c] EXCEPT !.pc = pc, !.answer = "ok", !.carries = NewCookies(s, t)]
SessionsType == [Sids -> Session]

LEMMA LoginEffect ==
  ASSUME NEW c \in Calls, Login(c)
  PROVE  \/ Reply(c, "401") /\ UNCHANGED <<session, issued>>
         \/ /\ issued' = issued + 1
            /\ \E s \in Sids :
                /\ session' = [session EXCEPT ![s] = [token |-> issued', life |-> "live"]]
                /\ call' = [call EXCEPT ![c] = Granted(c, "reply", s, issued')]
<1>1. CASE Reply(c, "401") /\ UNCHANGED <<session, issued>>
  BY <1>1
<1>2. CASE ~(Reply(c, "401") /\ UNCHANGED <<session, issued>>)
  <2>1. PICK s \in Sids :
            /\ issued' = issued + 1
            /\ session' = [session EXCEPT ![s] = [token |-> issued', life |-> "live"]]
            /\ call' = [call EXCEPT ![c] = [@ EXCEPT !.pc = "reply", !.answer = "ok",
                            !.carries = NewCookies(s, issued')]]
    BY <1>2, Zenon DEF Login
  <2>2. call' = [call EXCEPT ![c] = Granted(c, "reply", s, issued')]
    BY <2>1, Zenon DEF Granted
  <2> QED BY <2>1, <2>2, Zenon
<1> QED BY <1>1, <1>2

\* The document of a session whose tokens were replaced.
Rotated(s, t) == [token |-> t, life |-> IF session[s].life = "revoked" THEN "revoked" ELSE "live"]

LEMMA RotateEffect ==
  ASSUME CallsOK, RestOK, NEW c \in Calls, RotateSave(c)
  PROVE  /\ issued' = issued + 1
         /\ \E s \in 0..MaxLogins :
                /\ s = call[c].carries.sid
                /\ session' \in SessionsType
                /\ s \in Sids => session'[s] = Rotated(s, issued')
                /\ \A t \in Sids \ {s} : session'[t] = session[t]
                /\ call' = [call EXCEPT ![c] = Granted(c, "refreshed", s, issued')]
<1> DEFINE s == call[c].carries.sid
           life == IF session[s].life = "revoked" THEN "revoked" ELSE "live"
           r == [token |-> issued', life |-> life]
<1>1. s \in 0..MaxLogins
  BY CallFields DEF Call, Cookies
<1>2. /\ issued' = issued + 1
      /\ session' = [session EXCEPT ![s] = r]
      /\ call' = [call EXCEPT ![c] = Granted(c, "refreshed", s, issued')]
  BY Zenon DEF RotateSave, Granted
<1>3. issued' \in Nat /\ life \in {"live", "revoked"}
  BY <1>2 DEF RestOK
<1>4. s \in Sids => r = Rotated(s, issued')
  BY DEF Rotated
<1> HIDE DEF s, life
<1>5. r \in Session
  BY <1>3 DEF Session
<1> HIDE DEF r
<1>6. session' \in SessionsType /\ (s \in Sids => session'[s] = r)
      /\ \A t \in Sids \ {s} : session'[t] = session[t]
  BY <1>2, <1>5 DEF RestOK, SessionsType
<1> QED BY <1>1, <1>2, <1>4, <1>6 DEF s

LEMMA GrantedType ==
  ASSUME CallsOK, NEW c \in Calls, NEW s \in 0..MaxLogins, NEW t \in Nat,
         NEW pc \in {"reply", "refreshed"}, call' = [call EXCEPT ![c] = Granted(c, pc, s, t)]
  PROVE  CallsOK'
<1>1. NewCookies(s, t) \in Cookies
  BY DEF NewCookies, Cookies
<1>2. Granted(c, pc, s, t) \in Call
      /\ (Granted(c, pc, s, t).key \in Keys => Granted(c, pc, s, t).body \in Bodies)
  BY <1>1, CallFields DEF Granted, Call, Answers
<1> QED BY <1>2, CallReplaced

LEMMA SessionReplaced ==
  ASSUME RestOK, NEW s, NEW t \in Nat, NEW life \in {"live", "expired", "revoked"}
  PROVE  /\ [session EXCEPT ![s] = [token |-> t, life |-> life]] \in SessionsType
         /\ [session EXCEPT ![s].life = life] \in SessionsType
         /\ session \in SessionsType
<1>1. [session EXCEPT ![s] = [token |-> t, life |-> life]] \in SessionsType
  BY DEF RestOK, SessionsType, Session
<1>2. [session EXCEPT ![s].life = life] \in SessionsType
  BY DEF RestOK, SessionsType, Session
<1> QED BY <1>1, <1>2 DEF RestOK, SessionsType

LEMMA SessionType ==
  ASSUME CallsOK, RestOK, BoundsOK, NEW c \in Calls,
         Logout(c) \/ Login(c) \/ RevokeReused(c) \/ RotateSave(c)
  PROVE  CallsOK' /\ RestOK' /\ BoundsOK'
<1>1. UNCHANGED <<jar, user, record, storing, effects, bounds>>
  BY DEF Logout, Login, RevokeReused, RotateSave
<1>2. issued \in Nat /\ issued + 1 \in Nat /\ session \in SessionsType
  BY DEF RestOK, SessionsType
<1>3. CASE Logout(c) \/ RevokeReused(c)
  <2>1. /\ session' = [session EXCEPT ![call[c].carries.sid].life = "revoked"]
        /\ Reply(c, "ok") \/ Refused(c)
        /\ issued' = issued
    BY <1>3, Zenon DEF Logout, RevokeReused
  <2>2. session' \in SessionsType /\ issued' \in Nat
    BY <1>2, <2>1, SessionReplaced
  <2>3. CallsOK'
    BY <2>1, ReplyType, RefusedType DEF Answers
  <2> QED BY <1>1, <2>2, <2>3 DEF RestOK, BoundsOK, bounds, SessionsType
<1>4. CASE Login(c)
  <2>1. CallsOK' /\ session' \in SessionsType /\ issued' \in Nat
    <3>1. CASE Reply(c, "401") /\ UNCHANGED <<session, issued>>
      BY <1>2, <3>1, ReplyType DEF Answers
    <3>2. CASE ~(Reply(c, "401") /\ UNCHANGED <<session, issued>>)
      <4>1. PICK s \in Sids :
                /\ issued' = issued + 1
                /\ session' = [session EXCEPT ![s] = [token |-> issued', life |-> "live"]]
                /\ call' = [call EXCEPT ![c] = Granted(c, "reply", s, issued')]
        BY <1>4, <3>2, LoginEffect, Zenon
      <4>2. issued' \in Nat /\ s \in 0..MaxLogins
        BY <1>2, <4>1 DEF Sids
      <4>3. session' \in SessionsType
        BY <4>1, <4>2, SessionReplaced
      <4> QED BY <4>1, <4>2, <4>3, GrantedType, Zenon
    <3> QED BY <3>1, <3>2
  <2> QED BY <1>1, <2>1 DEF RestOK, BoundsOK, bounds, SessionsType
<1>5. CASE RotateSave(c)
  <2>1. PICK s \in 0..MaxLogins :
            session' \in SessionsType /\ call' = [call EXCEPT ![c] = Granted(c, "refreshed", s, issued')]
    BY <1>5, RotateEffect, Zenon
  <2>2. issued' \in Nat
    BY <1>2, <1>5, RotateEffect
  <2>3. CallsOK'
    BY <2>1, <2>2, GrantedType, Zenon
  <2> QED BY <1>1, <2>1, <2>2, <2>3 DEF RestOK, BoundsOK, bounds, SessionsType
<1> QED BY <1>3, <1>4, <1>5

LEMMA StoreType ==
  ASSUME CallsOK, RestOK, BoundsOK,
         NEW k \in Keys, NEW b \in Bodies, Store(k, b) \/ LoseRecord(k, b)
  PROVE  CallsOK' /\ RestOK' /\ BoundsOK'
<1>1. /\ record' \in [Keys -> Bodies \cup {NoBody}]
      /\ storing' \in SUBSET (Keys \X Bodies)
      /\ UNCHANGED <<jar, user, call, session, issued, effects, calls, expiries>>
      /\ faults' \in 0..MaxFaults
  BY DEF Store, LoseRecord, RestOK, BoundsOK, bounds, Fault, Spare
<1> QED BY <1>1 DEF CallsOK, RestOK, BoundsOK

LEMMA LoseReplyType ==
  ASSUME CallsOK, RestOK, BoundsOK, NEW c \in Calls, LoseReply(c)
  PROVE  CallsOK' /\ RestOK' /\ BoundsOK'
<1> DEFINE r == [call[c] EXCEPT !.answer = "lost", !.carries = NoCookies]
<1>1. r \in Call /\ (r.key \in Keys => r.body \in Bodies)
  BY CallFields, IdleType DEF Call, Answers
<1>2. call' = [call EXCEPT ![c] = r]
  BY DEF LoseReply
<1>3. CallsOK'
  BY <1>1, <1>2, CallReplaced
<1> QED BY <1>3 DEF LoseReply, server, RestOK, BoundsOK, Fault, Spare

\* The token or the session of the browser runs out.
Expiry == AccessExpires \/ \E s \in Sids : SessionExpires(s)

LEMMA ExpiryType ==
  ASSUME CallsOK, RestOK, BoundsOK, Expiry
  PROVE  CallsOK' /\ RestOK' /\ BoundsOK'
<1>1. CASE AccessExpires
  <2>1. jar' \in Cookies
    BY <1>1 DEF AccessExpires, RestOK, Cookies
  <2> QED BY <1>1, <2>1 DEF AccessExpires, server, CallsOK, RestOK, BoundsOK
<1>2. ASSUME NEW s \in Sids, SessionExpires(s) PROVE CallsOK' /\ RestOK' /\ BoundsOK'
  <2>1. session' \in SessionsType
    BY <1>2, SessionReplaced DEF SessionExpires
  <2> QED BY <1>2, <2>1 DEF SessionExpires, SessionsType, CallsOK, RestOK, BoundsOK
<1> QED BY <1>1, <1>2 DEF Expiry

\* The steps, by what they are about.
PageStep(c) ==
    \/ \E kind \in Kinds : Page(c, kind)
    \/ \E key \in Keys, body \in Bodies : TriggerButton(c, key, body)

\* The steps of the server but for the look-up and the handler of a keyed write.
PlainStep(c) ==
    \/ Authenticate(c) \/ InvalidCredentials(c) \/ Logout(c) \/ Login(c)
    \/ Refresh(c) \/ RevokeReused(c) \/ RotateRead(c) \/ RotateSave(c)

LEMMA NextCases ==
  ASSUME Next
  PROVE  /\ Observe
         /\ \/ \E c \in Calls : PageStep(c) \/ CallStep(c) \/ LoseReply(c)
            \/ \E k \in Keys, b \in Bodies : Store(k, b) \/ LoseRecord(k, b)
            \/ Expiry
<1>1. "write" \in Kinds /\ "login" \in Kinds /\ {"me", "logout", "read"} \subseteq Kinds
  BY DEF Kinds, AuthKinds
<1> QED BY <1>1, Zenon DEF Next, PageStep, CallStep, BrowserStep, ServerStep, LoginPage, Mutate, Expiry

LEMMA InitType == Init => TypeOK
<1> SUFFICES ASSUME Init PROVE TypeOK
  OBVIOUS
<1>1. PICK access \in AccessAtLoad, s \in Sids \cup {0} :
        /\ s \in {0, 1}
        /\ jar = [sid |-> s, token |-> 0, access |-> access /\ s # 0]
        /\ session = [t \in Sids |-> [token |-> 0, life |-> IF t = s THEN "live" ELSE "none"]]
  BY DEF Init
<1>2. jar \in Cookies
  <2> DEFINE present == access /\ s # 0
  <2>1. present \in BOOLEAN
    BY Zenon
  <2>2. s \in 0..MaxLogins
    BY DEF Sids
  <2>3. jar = [sid |-> s, token |-> 0, access |-> present]
    BY <1>1, Zenon
  <2> HIDE DEF present
  <2> QED BY <2>1, <2>2, <2>3 DEF Cookies
<1>3. session \in SessionsType
  BY <1>1 DEF SessionsType, Session
<1>4. CallsOK
  <2> DEFINE r == [Idle EXCEPT !.pc = "sent", !.kind = "init", !.carries = jar]
  <2>1. r \in Call /\ r.key \notin Keys
    <3>1. "init" \in Kinds /\ Idle.key = NoKey
      BY DEF Kinds, AuthKinds, Idle
    <3> QED BY <1>2, <3>1, IdleType DEF Call
  <2>2. call = [c \in Calls |-> IF c # InitCall THEN Idle ELSE r]
    BY Zenon DEF Init
  <2> HIDE DEF r
  <2> QED BY <2>1, <2>2, IdleType DEF CallsOK
<1>5. RestOK /\ BoundsOK
  BY <1>2, <1>3 DEF Init, RestOK, BoundsOK, SessionsType
<1>6. raced \in SUBSET Keys /\ calm \in BOOLEAN
  BY DEF Init
<1> QED BY <1>4, <1>5, <1>6, TypeParts

\* Every reachable state is type correct; in particular a call with a key has a body,
\* and no fault, call or expiry is counted beyond its bound.
THEOREM RequestsTypeCorrect == Spec => []TypeOK
<1>1. Init => TypeOK
  BY InitType
<1>2. TypeOK /\ [Next]_vars => TypeOK'
  <2> SUFFICES ASSUME TypeOK, [Next]_vars PROVE TypeOK'
    OBVIOUS
  <2>1. CallsOK /\ RestOK /\ BoundsOK /\ raced \in SUBSET Keys /\ calm \in BOOLEAN
    BY TypeParts
  <2>2. CASE Next
    <3>1. CallsOK' /\ RestOK' /\ BoundsOK'
      <4>1. ASSUME NEW c \in Calls, CallStep(c) PROVE CallsOK' /\ RestOK' /\ BoundsOK'
        BY <2>1, <4>1, GetReplyType, GetRefreshedType, AuthenticateType, HandleType, SessionType
           DEF CallStep, BrowserStep, ServerStep
      <4>2. ASSUME NEW c \in Calls, PageStep(c) PROVE CallsOK' /\ RestOK' /\ BoundsOK'
        BY <2>1, <4>2, PageType DEF PageStep
      <4> QED BY <2>1, <2>2, <4>1, <4>2, NextCases, LoseReplyType, StoreType, ExpiryType
    <3>2. Observe
      BY <2>2, NextCases
    <3>3. raced' \in SUBSET Keys
      BY <2>1, <3>2 DEF Observe
    <3>4. calm' \in BOOLEAN
      <4> DEFINE still == calm /\ ~Meeting' /\ faults' = faults
      <4>1. calm' = still
        BY <3>2, Zenon DEF Observe
      <4>2. still \in BOOLEAN
        BY Zenon
      <4> HIDE DEF still
      <4> QED BY <4>1, <4>2
    <3> QED BY <3>1, <3>3, <3>4, Zenon DEF TypeOK, CallsOK, RestOK, BoundsOK
  <2>3. CASE UNCHANGED vars
    BY <2>3 DEF vars, server, history, bounds, TypeOK
  <2> QED BY <2>2, <2>3
<1> QED BY <1>1, <1>2, PTL DEF Spec
-----------------------------------------------------------------------------
(* What a call and its key have done.                                      *)

\* A call has acted only if it is answered, and not with 401; only writes have keys;
\* and a keyed call that is told "ok" asked for something that took effect.
GoodCall(r, done) ==
    /\ r.acted = 0 \/ (r.acted = 1 /\ r.pc = "reply" /\ r.answer \in {"ok", "failed", "lost"})
    /\ r.key \in Keys => r.kind = "write"
    /\ r.key \in Keys /\ r.pc = "reply" /\ r.answer = "ok" => done[r.key][r.body] > 0
CallsGood == \A c \in Calls : GoodCall(call[c], effects)

\* Nothing is recorded, or about to be, of a body that did not take effect.
RecordsGood ==
    \A k \in Keys, b \in Bodies :
        record[k] = b \/ <<k, b>> \in storing => effects[k][b] > 0

KeyInv == CallsGood /\ RecordsGood

LEMMA OneCallMoves ==
  ASSUME CallsOK, CallsGood, NEW c \in Calls, NEW r, GoodCall(r, effects),
         call' = [call EXCEPT ![c] = r], effects' = effects
  PROVE  CallsGood'
BY DEF CallsOK, CallsGood

LEMMA PageGood ==
  ASSUME CallsOK, CallsGood, NEW c \in Calls, PageStep(c)
  PROVE  CallsGood'
<1>1. ASSUME NEW kind \in Kinds, Page(c, kind) PROVE CallsGood'
  <2> DEFINE f == [Idle EXCEPT !.kind = kind]
             r == [f EXCEPT !.pc = IF f.kind = "initRefresh" THEN "refresh" ELSE "sent",
                            !.carries = jar]
  <2>1. call' = [call EXCEPT ![c] = r] /\ effects' = effects
    BY <1>1, Zenon DEF Page, StartCall, Dispatch, server
  <2>2. GoodCall(r, effects)
    BY DEF GoodCall, Idle
  <2> QED BY <2>1, <2>2, OneCallMoves
<1>2. ASSUME NEW k \in Keys, NEW b \in Bodies, TriggerButton(c, k, b) PROVE CallsGood'
  <2> DEFINE f == [Idle EXCEPT !.kind = "write", !.key = k, !.body = b]
             r == [f EXCEPT !.pc = IF f.kind = "initRefresh" THEN "refresh" ELSE "sent",
                            !.carries = jar]
  <2>1. call' = [call EXCEPT ![c] = r] /\ effects' = effects
    BY <1>2, Zenon DEF TriggerButton, StartCall, Dispatch, server
  <2>2. GoodCall(r, effects)
    BY DEF GoodCall, Idle
  <2> QED BY <2>1, <2>2, OneCallMoves
<1> QED BY <1>1, <1>2 DEF PageStep

LEMMA BrowserGood ==
  ASSUME CallsOK, CallsGood, NEW c \in Calls, BrowserStep(c)
  PROVE  CallsGood'
<1> DEFINE Fresh(kind) == [Idle EXCEPT !.kind = kind]
           Sent(f) == [f EXCEPT !.pc = IF f.kind = "initRefresh" THEN "refresh" ELSE "sent",
                                !.carries = jar]
<1>1. ASSUME NEW kind PROVE GoodCall(Sent(Fresh(kind)), effects) /\ GoodCall(Idle, effects)
  BY DEF GoodCall, Idle
<1>2. CASE GetReply(c)
  <2>1. effects' = effects
    BY <1>2 DEF GetReply, server
  <2>2. CASE Retries(c)
    <3> DEFINE r == [call[c] EXCEPT !.pc = "refresh", !.carries = jar]
    <3>1. call' = [call EXCEPT ![c] = r]
      BY <1>2, <2>2, Zenon DEF GetReply
    <3>2. call[c].acted = 0
      BY <2>2 DEF CallsGood, GoodCall, Retries
    <3>3. GoodCall(r, effects)
      BY <3>2, CallFields DEF CallsGood, GoodCall, Call
    <3> QED BY <2>1, <3>1, <3>3, OneCallMoves
  <2>3. CASE ~Retries(c)
    <3>1. Ended(c, call[c].answer = "ok")
      BY <1>2, <2>3, Zenon DEF GetReply
    <3>2. \/ \E kind : call' = [call EXCEPT ![c] = Sent(Fresh(kind))]
          \/ call' = [call EXCEPT ![c] = Idle]
      BY <3>1 DEF Ended, Dispatch
    <3> HIDE DEF Fresh, Sent
    <3> QED BY <1>1, <2>1, <3>2, OneCallMoves
  <2> QED BY <2>2, <2>3
<1>3. CASE GetRefreshed(c)
  <2> DEFINE new == IF call[c].answer = "ok" THEN RefreshedJar(call[c].carries) ELSE jar
             kind == Again(call[c].kind)
             again == call[c].kind # "initRefresh"
             Back(n, k, q) == [call[c] EXCEPT !.pc = "sent", !.carries = n, !.answer = "none",
                                              !.isRetry = q, !.kind = k]
  <2>1. /\ effects' = effects
        /\ \/ call' = [call EXCEPT ![c] = Idle]
           \/ call' = [call EXCEPT ![c] = Back(new, kind, again)]
    BY <1>3 DEF GetRefreshed, server
  <2>2. call[c].acted = 0 /\ (call[c].key \in Keys => kind = "write")
    BY <1>3 DEF GetRefreshed, At, CallsGood, GoodCall, Again
  <2>3. ASSUME NEW n, NEW k, NEW q, call[c].key \in Keys => k = "write"
        PROVE  GoodCall(Back(n, k, q), effects)
    BY <2>2, <2>3, CallFields DEF GoodCall, Call
  <2>4. GoodCall(Idle, effects)
    BY <1>1
  <2> HIDE DEF new, kind, again, Back
  <2>5. GoodCall(Back(new, kind, again), effects)
    BY <2>2, <2>3
  <2>6. CASE call' = [call EXCEPT ![c] = Idle]
    BY <2>1, <2>4, <2>6, OneCallMoves
  <2>7. CASE call' = [call EXCEPT ![c] = Back(new, kind, again)]
    BY <2>1, <2>5, <2>7, OneCallMoves
  <2> QED BY <2>1, <2>6, <2>7
<1> QED BY <1>2, <1>3 DEF BrowserStep

LEMMA AnsweredGood ==
  ASSUME CallsOK, CallsGood, NEW c \in Calls, call[c].pc # "reply", effects' = effects,
         \/ \E a \in Answers \ {"ok"} : Reply(c, a)
         \/ Reply(c, "ok")
            /\ (call[c].key \in Keys => effects[call[c].key][call[c].body] > 0)
         \/ \E pc \in Stations : Goto(c, pc)
         \/ Refused(c)
         \/ \E s, t : call' = [call EXCEPT ![c] = Granted(c, "refreshed", s, t)]
         \/ \E s, t : call' = [call EXCEPT ![c] = Granted(c, "reply", s, t)]
                      /\ call[c].key \notin Keys
  PROVE  CallsGood'
<1> DEFINE To(pc, a, n) == [call[c] EXCEPT !.pc = pc, !.answer = a, !.carries = n]
           Gone(pc) == [call[c] EXCEPT !.pc = pc]
<1>1. call[c].acted = 0 /\ (call[c].key \in Keys => call[c].kind = "write")
  BY DEF CallsGood, GoodCall
<1>2. ASSUME NEW pc, NEW a, NEW n,
             call[c].key \in Keys /\ pc = "reply" /\ a = "ok"
                => effects[call[c].key][call[c].body] > 0
      PROVE  GoodCall(To(pc, a, n), effects)
  BY <1>1, <1>2, CallFields DEF GoodCall, Call
<1>3. ASSUME NEW pc, pc # "reply"
      PROVE  GoodCall(Gone(pc), effects)
  BY <1>1, <1>3, CallFields DEF GoodCall, Call
<1>4. \/ \E pc, a, n :
            /\ call' = [call EXCEPT ![c] = To(pc, a, n)]
            /\ call[c].key \in Keys /\ pc = "reply" /\ a = "ok"
                  => effects[call[c].key][call[c].body] > 0
      \/ \E pc : pc # "reply" /\ call' = [call EXCEPT ![c] = Gone(pc)]
  <2>1. ASSUME NEW a \in Answers \ {"ok"}, Reply(c, a)
        PROVE  a # "ok" /\ call' = [call EXCEPT ![c] = To("reply", a, NoCookies)]
    BY <2>1, Zenon DEF Reply
  <2>2. ASSUME Reply(c, "ok") PROVE call' = [call EXCEPT ![c] = To("reply", "ok", NoCookies)]
    BY <2>2, Zenon DEF Reply
  <2>3. ASSUME NEW pc \in Stations, Goto(c, pc)
        PROVE  pc # "reply" /\ call' = [call EXCEPT ![c] = Gone(pc)]
    BY <2>3 DEF Goto, Stations
  <2>4. ASSUME Refused(c)
        PROVE  call' = [call EXCEPT ![c] = To("refreshed", "401", NoCookies)]
    BY <2>4, Zenon DEF Refused
  <2>5. ASSUME NEW pc, NEW s, NEW t
        PROVE  Granted(c, pc, s, t) = To(pc, "ok", NewCookies(s, t))
    BY DEF Granted
  <2> HIDE DEF To, Gone
  <2> QED BY <2>1, <2>2, <2>3, <2>4, <2>5
<1> HIDE DEF To, Gone
<1>5. ASSUME NEW pc, NEW a, NEW n, call' = [call EXCEPT ![c] = To(pc, a, n)],
             call[c].key \in Keys /\ pc = "reply" /\ a = "ok"
                => effects[call[c].key][call[c].body] > 0
      PROVE  CallsGood'
  <2>1. GoodCall(To(pc, a, n), effects)
    BY <1>2, <1>5
  <2> QED BY <1>5, <2>1, OneCallMoves
<1>6. ASSUME NEW pc, pc # "reply", call' = [call EXCEPT ![c] = Gone(pc)]
      PROVE  CallsGood'
  <2>1. GoodCall(Gone(pc), effects)
    BY <1>3, <1>6
  <2> QED BY <1>6, <2>1, OneCallMoves
<1> QED BY <1>4, <1>5, <1>6

\* The steps of the server but for the handler of a write, and a reply that is lost.
LEMMA ServerGood ==
  ASSUME CallsOK, RestOK, KeyInv, NEW c \in Calls,
         PlainStep(c) \/ LookUp(c) \/ LoseReply(c)
  PROVE  CallsGood'
<1>1. CallsGood /\ (call[c].key \in Keys => call[c].kind = "write")
  BY DEF KeyInv, CallsGood, GoodCall
<1>2. effects' = effects
  BY DEF PlainStep, Authenticate, LookUp, InvalidCredentials, Logout, Login, Refresh,
     RevokeReused, RotateRead, RotateSave, LoseReply, server
<1>3. CASE Authenticate(c)
  <2>1. call[c].pc # "reply"
    BY <1>3 DEF Authenticate, At
  <2>2. \/ \E a \in {"401", "csrf"} : Reply(c, a)
        \/ Reply(c, "ok") /\ call[c].key \notin Keys
        \/ \E pc \in Stations : Goto(c, pc)
    BY <1>1, <1>3 DEF Authenticate, Stations
  <2> QED BY <1>1, <1>2, <2>1, <2>2, AnsweredGood DEF Answers
<1>4. CASE LookUp(c)
  <2>1. call[c].pc # "reply"
    BY <1>4 DEF LookUp, At
  <2>2. \/ Goto(c, "handle")
        \/ Reply(c, "conflict")
        \/ Reply(c, "ok") /\ record[call[c].key] = call[c].body
    BY <1>4 DEF LookUp, SameBody
  <2>3. call[c].key \in Keys /\ record[call[c].key] = call[c].body
            => effects[call[c].key][call[c].body] > 0
    BY CallFields DEF KeyInv, RecordsGood
  <2> QED BY <1>1, <1>2, <2>1, <2>2, <2>3, AnsweredGood DEF Answers, Stations
<1>5. CASE Logout(c)
  <2>1. call[c].pc # "reply" /\ call[c].key \notin Keys /\ Reply(c, "ok")
    BY <1>1, <1>5 DEF Logout, At
  <2> QED BY <1>1, <1>2, <2>1, AnsweredGood
<1>6. CASE Login(c)
  <2>1. call[c].pc # "reply" /\ call[c].key \notin Keys
    BY <1>1, <1>6 DEF Login, At
  <2>2. Reply(c, "401") \/ \E s, t : call' = [call EXCEPT ![c] = Granted(c, "reply", s, t)]
    BY <1>6, LoginEffect, Zenon
  <2> QED BY <1>1, <1>2, <2>1, <2>2, AnsweredGood DEF Answers
<1>7. CASE Refresh(c) \/ RevokeReused(c) \/ RotateRead(c)
  <2>1. call[c].pc # "reply" /\ (Refused(c) \/ \E pc \in Stations : Goto(c, pc))
    BY <1>7 DEF Refresh, RevokeReused, RotateRead, At, Stations
  <2> QED BY <1>1, <1>2, <2>1, AnsweredGood
<1>8. CASE RotateSave(c)
  <2>1. call[c].pc # "reply"
    BY <1>8 DEF RotateSave, At
  <2>2. \E s, t : call' = [call EXCEPT ![c] = Granted(c, "refreshed", s, t)]
    BY <1>8, RotateEffect, Zenon
  <2> QED BY <1>1, <1>2, <2>1, <2>2, AnsweredGood
<1>10. CASE InvalidCredentials(c)
  <2>1. call[c].pc # "reply" /\ Reply(c, "401")
    BY <1>10 DEF InvalidCredentials, At
  <2> QED BY <1>1, <1>2, <2>1, AnsweredGood DEF Answers
<1>9. CASE LoseReply(c)
  <2> DEFINE r == [call[c] EXCEPT !.answer = "lost", !.carries = NoCookies]
  <2>1. call' = [call EXCEPT ![c] = r]
    BY <1>9, Zenon DEF LoseReply
  <2>2. GoodCall(r, effects)
    BY <1>1, CallFields DEF CallsGood, GoodCall, Call
  <2> QED BY <1>1, <1>2, <2>1, <2>2, OneCallMoves
<1> QED BY <1>3, <1>4, <1>5, <1>6, <1>7, <1>8, <1>9, <1>10 DEF PlainStep

\* The handler of a write, for one outcome: did it act, and did it answer 2xx.
HandlesSo(c, acts, ok) ==
    /\ ok => acts /\ faults' = faults
    /\ ~ok => faults' = faults + 1
    /\ call' = [call EXCEPT ![c] = Handled(c, acts, ok)]
    /\ (call[c].key = NoKey \/ ~acts) => effects' = effects
    /\ call[c].key \in Keys /\ acts =>
          effects' = [effects EXCEPT ![call[c].key] =
                        [effects[call[c].key] EXCEPT ![call[c].body] = @ + 1]]
    /\ call[c].key = NoKey \/ ~ok => storing' = storing
    /\ call[c].key \in Keys /\ ok => storing' = storing \cup {<<call[c].key, call[c].body>>}

LEMMA HandleEffect ==
  ASSUME CallsOK, NEW c \in Calls, Handle(c)
  PROVE  \E acts \in BOOLEAN, ok \in BOOLEAN : HandlesSo(c, acts, ok)
<1>1. PICK acts \in BOOLEAN, ok \in BOOLEAN :
        /\ IF ok THEN acts /\ faults' = faults ELSE Fault
        /\ call' = [call EXCEPT ![c] = Handled(c, acts, ok)]
        /\ IF call[c].key = NoKey THEN UNCHANGED <<effects, storing>>
           ELSE /\ effects' = IF acts
                    THEN [effects EXCEPT ![call[c].key][call[c].body] = @ + 1]
                    ELSE effects
                /\ storing' = IF ok THEN storing \cup ToStore(c) ELSE storing
  BY DEF Handle, Handled
<1>2. call[c].key # NoKey <=> call[c].key \in Keys
  BY CallFields DEF Call
<1> QED BY <1>1, <1>2, Zenon DEF HandlesSo, Fault, ToStore

LEMMA HandledGrows ==
  ASSUME RestOK, NEW c \in Calls, NEW acts \in BOOLEAN, NEW ok \in BOOLEAN,
         HandlesSo(c, acts, ok), CallsOK
  PROVE  /\ \A k \in Keys, b \in Bodies : effects'[k][b] >= effects[k][b]
         /\ call[c].key \in Keys /\ acts => effects'[call[c].key][call[c].body] > 0
<1>1. effects \in [Keys -> [Bodies -> Nat]]
  BY DEF RestOK
<1>2. call[c].key \in Keys \/ call[c].key = NoKey
  BY CallFields DEF Call
<1>3. CASE call[c].key \in Keys /\ acts
  <2> DEFINE k0 == call[c].key
             b0 == call[c].body
  <2>1. k0 \in Keys /\ b0 \in Bodies
    BY <1>3, CallFields
  <2>2. effects' = [effects EXCEPT ![k0] = [effects[k0] EXCEPT ![b0] = @ + 1]]
    BY <1>3 DEF HandlesSo
  <2> HIDE DEF k0, b0
  <2>3. \A k \in Keys, b \in Bodies :
            effects'[k][b] = IF k = k0 /\ b = b0 THEN effects[k][b] + 1 ELSE effects[k][b]
    BY <1>1, <2>1, <2>2
  <2>4. \A k \in Keys, b \in Bodies : effects[k][b] \in Nat
    BY <1>1
  <2> QED BY <2>1, <2>3, <2>4 DEF k0, b0
<1>4. CASE ~(call[c].key \in Keys /\ acts)
  BY <1>1, <1>2, <1>4 DEF HandlesSo
<1> QED BY <1>3, <1>4

LEMMA HandleGood ==
  ASSUME CallsOK, RestOK, KeyInv, NEW c \in Calls, Handle(c)
  PROVE  KeyInv'
<1>1. PICK acts \in BOOLEAN, ok \in BOOLEAN : HandlesSo(c, acts, ok)
  BY HandleEffect
<1>2. /\ call[c].pc = "handle" /\ call[c].kind = "write" /\ call[c].acted = 0
      /\ record' = record
  BY DEF Handle, At, KeyInv, CallsGood, GoodCall
<1>3. /\ \A k \in Keys, b \in Bodies : effects'[k][b] >= effects[k][b]
      /\ call[c].key \in Keys /\ acts => effects'[call[c].key][call[c].body] > 0
  BY <1>1, HandledGrows
<1>4. \A k \in Keys, b \in Bodies : effects[k][b] > 0 => effects'[k][b] > 0
  <2>1. \A k \in Keys, b \in Bodies : effects[k][b] \in Nat
    BY DEF RestOK
  <2>2. effects' \in [Keys -> [Bodies -> Nat]] \/ effects' = effects
    <3>1. call[c].key \in Keys => call[c].body \in Bodies
      BY CallFields
    <3>2. effects \in [Keys -> [Bodies -> Nat]] /\ (call[c].key \in Keys \/ call[c].key = NoKey)
      BY CallFields DEF Call, RestOK
    <3> QED BY <1>1, <3>1, <3>2 DEF HandlesSo
  <2>3. \A k \in Keys, b \in Bodies : effects'[k][b] \in Nat
    BY <2>1, <2>2
  <2> QED BY <1>3, <2>1, <2>3
<1>5. CallsGood'
  <2>1. call'[c] = Handled(c, acts, ok) /\ \A d \in Calls \ {c} : call'[d] = call[d]
    BY <1>1 DEF HandlesSo, CallsOK
  <2>2. GoodCall(Handled(c, acts, ok), effects')
    <3> DEFINE a == IF ok THEN "ok" ELSE "failed"
               n == IF acts THEN 1 ELSE 0
    <3>1. Handled(c, acts, ok) =
            [call[c] EXCEPT !.pc = "reply", !.carries = NoCookies, !.answer = a, !.acted = n]
      BY <1>2 DEF Handled
    <3>2. a \in {"ok", "failed"} /\ n \in {0, 1} /\ (a = "ok" => acts)
      BY <1>1 DEF HandlesSo
    <3> HIDE DEF a, n
    <3> QED BY <1>2, <1>3, <3>1, <3>2, CallFields DEF GoodCall, Call
  <2>3. ASSUME NEW d \in Calls \ {c} PROVE GoodCall(call'[d], effects')
    BY <1>4, <2>1, CallFields DEF KeyInv, CallsGood, GoodCall
  <2> QED BY <2>1, <2>2, <2>3 DEF CallsGood
<1>6. RecordsGood'
  <2>1. \A k \in Keys, b \in Bodies : <<k, b>> \in storing' =>
            <<k, b>> \in storing \/ (acts /\ k = call[c].key /\ b = call[c].body)
    <3>1. call[c].key \in Keys \/ call[c].key = NoKey
      BY CallFields DEF Call
    <3> QED BY <1>1, <3>1 DEF HandlesSo
  <2> QED BY <1>2, <1>3, <1>4, <2>1 DEF KeyInv, RecordsGood
<1> QED BY <1>5, <1>6 DEF KeyInv

LEMMA KeyInvStep ==
  ASSUME TypeOK, KeyInv, [Next]_vars
  PROVE  KeyInv'
<1> USE TypeParts
<1>1. ASSUME NEW c \in Calls,
             PageStep(c) \/ BrowserStep(c) \/ LoseReply(c) \/ PlainStep(c) \/ LookUp(c)
      PROVE  KeyInv'
  <2>1. CallsGood'
    BY <1>1, PageGood, BrowserGood, ServerGood DEF KeyInv
  <2>2. UNCHANGED <<record, storing, effects>>
    BY <1>1 DEF PageStep, Page, TriggerButton, StartCall, BrowserStep, GetReply, GetRefreshed,
       LoseReply, PlainStep, Authenticate, LookUp, InvalidCredentials, Logout, Login, Refresh,
       RevokeReused, RotateRead, RotateSave, server
  <2> QED BY <2>1, <2>2 DEF KeyInv, RecordsGood
<1>2. ASSUME NEW c \in Calls, Handle(c) PROVE KeyInv'
  BY <1>2, HandleGood
<1>3. ASSUME NEW k \in Keys, NEW b \in Bodies, Store(k, b) \/ LoseRecord(k, b) PROVE KeyInv'
  <2>1. UNCHANGED <<call, effects>> /\ storing' \subseteq storing /\ <<k, b>> \in storing
    BY <1>3 DEF Store, LoseRecord
  <2>2. record' = record \/ record' = [record EXCEPT ![k] = IF @ = NoBody THEN b ELSE @]
    BY <1>3 DEF Store, LoseRecord
  <2>3. \A j \in Keys : record'[j] = record[j] \/ (j = k /\ record'[j] = b)
    BY <2>2 DEF RestOK
  <2> QED BY <2>1, <2>3 DEF KeyInv, CallsGood, RecordsGood
<1>4. CASE Expiry \/ UNCHANGED vars
  BY <1>4 DEF Expiry, AccessExpires, SessionExpires, vars, server, KeyInv, CallsGood, RecordsGood
<1>5. CASE Next
  BY <1>1, <1>2, <1>3, <1>4, <1>5, NextCases DEF CallStep, ServerStep, PlainStep
<1> QED BY <1>4, <1>5

LEMMA KeyInvInit == Init => KeyInv
<1> SUFFICES ASSUME Init PROVE KeyInv
  OBVIOUS
<1>1. /\ effects = [k \in Keys |-> [b \in Bodies |-> 0]]
      /\ record = [k \in Keys |-> NoBody] /\ storing = {}
      /\ call = [c \in Calls |-> IF c # InitCall THEN Idle
                 ELSE [Idle EXCEPT !.pc = "sent", !.kind = "init", !.carries = jar]]
  BY DEF Init
<1>2. \A c \in Calls : GoodCall(call[c], effects)
  BY <1>1 DEF GoodCall, Idle
<1> QED BY <1>1, <1>2 DEF KeyInv, CallsGood, RecordsGood

LEMMA KeyInvariant == Spec => []KeyInv
<1>1. TypeOK /\ KeyInv /\ [Next]_vars => KeyInv'
  BY KeyInvStep
<1> QED BY <1>1, KeyInvInit, RequestsTypeCorrect, PTL DEF Spec

\* A call of the API acts at most once however often apiFetch() sends its request, since
\* only a request refused before its handler is sent again (api.ts:35-42).
THEOREM OneEffectKept == Spec => []OneEffectPerCall
<1>1. KeyInv => OneEffectPerCall
  BY DEF KeyInv, CallsGood, GoodCall, OneEffectPerCall
<1> QED BY <1>1, KeyInvariant, PTL

\* A stored answer is only replayed to a call whose own body took effect
\* (idempotency.ts:41-48), whatever calls with the same key overlap or fail.
THEOREM AnswerKept == Spec => []AnswerIsForBody
<1>1. KeyInv => AnswerIsForBody
  BY DEF KeyInv, CallsGood, GoodCall, AnswerIsForBody, At
<1> QED BY <1>1, KeyInvariant, PTL
-----------------------------------------------------------------------------
(* One effect per key.                                                     *)

Handling(c, k) == call[c].pc = "handle" /\ call[c].key = k

\* As long as a key was never looked up before the record of another call was stored,
\* and nothing failed: who handles it found no record, and what acted has left one, or
\* is about to.
OnceFor(k) ==
    /\ ~Racing(k)
    /\ \A c \in Calls : Handling(c, k) => record[k] = NoBody
    /\ Acted(k) => record[k] # NoBody \/ \E b \in Bodies : <<k, b>> \in storing
    /\ ~ActedTwice(k)
OnceInv == faults = 0 => \A k \in Keys \ raced : OnceFor(k)

\* Only the look-up lets a keyed call into the handler.
LEMMA HandlersKept ==
  ASSUME CallsOK, RestOK, KeyInv, NEW c \in Calls,
         PageStep(c) \/ BrowserStep(c) \/ LoseReply(c) \/ PlainStep(c),
         NEW d \in Calls, NEW k \in Keys, Handling(d, k)'
  PROVE  Handling(d, k)
<1>1. PICK r : call' = [call EXCEPT ![c] = r] /\ ~(r.pc = "handle" /\ r.key \in Keys)
  <2> DEFINE Fresh(f) == [f EXCEPT !.pc = IF f.kind = "initRefresh" THEN "refresh" ELSE "sent",
                                   !.carries = jar]
  <2>1. ASSUME NEW f \in Call PROVE Fresh(f).pc # "handle"
    BY DEF Call
  <2>2. CASE PageStep(c)
    <3>1. ASSUME NEW kind \in Kinds PROVE [Idle EXCEPT !.kind = kind] \in Call
      BY IdleType DEF Call
    <3>2. ASSUME NEW key \in Keys, NEW body \in Bodies
          PROVE  [Idle EXCEPT !.kind = "write", !.key = key, !.body = body] \in Call
      BY IdleType DEF Call, Kinds
    <3>3. PICK f \in Call : call' = [call EXCEPT ![c] = Fresh(f)]
      <4> HIDE DEF Fresh
      <4>1. \E f \in Call : Dispatch(c, f)
        BY <2>2, <3>1, <3>2, Zenon DEF PageStep, Page, TriggerButton, StartCall
      <4> QED BY <4>1, Zenon DEF Dispatch, Fresh
    <3>4. Fresh(f).pc # "handle"
      BY <2>1
    <3> HIDE DEF Fresh
    <3> QED BY <3>3, <3>4
  <2>3. CASE GetReply(c)
    <3>1. CASE Retries(c)
      <4> DEFINE r == [call[c] EXCEPT !.pc = "refresh", !.carries = jar]
      <4>1. call' = [call EXCEPT ![c] = r]
        BY <2>3, <3>1, Zenon DEF GetReply
      <4>2. r.pc # "handle"
        BY CallFields DEF Call
      <4> QED BY <4>1, <4>2
    <3>2. CASE ~Retries(c)
      <4>1. ASSUME NEW kind \in Kinds PROVE [Idle EXCEPT !.kind = kind] \in Call
        BY IdleType DEF Call
      <4>2. \/ call' = [call EXCEPT ![c] = Idle]
            \/ \E kind \in Kinds : Dispatch(c, [Idle EXCEPT !.kind = kind])
        BY <2>3, <3>2 DEF GetReply, Ended, Kinds, AuthKinds
      <4>3. \/ call' = [call EXCEPT ![c] = Idle]
            \/ \E f \in Call : call' = [call EXCEPT ![c] = Fresh(f)]
        BY <4>1, <4>2, Zenon DEF Dispatch
      <4>4. Idle.pc # "handle"
        BY DEF Idle
      <4> HIDE DEF Fresh
      <4> QED BY <2>1, <4>3, <4>4
    <3> QED BY <3>1, <3>2
  <2>4. CASE GetRefreshed(c)
    <3> DEFINE Back(n, q, kind) == [call[c] EXCEPT !.pc = "sent", !.carries = n,
                                        !.answer = "none", !.isRetry = q, !.kind = kind]
    <3>1. ASSUME NEW n, NEW q, NEW kind PROVE Back(n, q, kind).pc # "handle"
      BY CallFields DEF Call
    <3>2. \/ call' = [call EXCEPT ![c] = Idle]
          \/ \E n : call' = [call EXCEPT ![c] =
                    Back(n, call[c].kind # "initRefresh", Again(call[c].kind))]
      BY <2>4 DEF GetRefreshed
    <3>3. Idle.pc # "handle"
      BY DEF Idle
    <3> HIDE DEF Back
    <3> QED BY <3>1, <3>2, <3>3
  <2>5. CASE LoseReply(c)
    <3> DEFINE r == [call[c] EXCEPT !.answer = "lost", !.carries = NoCookies]
    <3>1. call' = [call EXCEPT ![c] = r] /\ call[c].pc # "handle"
      BY <2>5 DEF LoseReply
    <3>2. r.pc = call[c].pc
      BY CallFields DEF Call
    <3> QED BY <3>1, <3>2
  <2>6. CASE PlainStep(c)
    <3> DEFINE To(pc, a, n) == [call[c] EXCEPT !.pc = pc, !.answer = a, !.carries = n]
               Gone(pc) == [call[c] EXCEPT !.pc = pc]
    <3>1. ASSUME NEW pc, NEW a, NEW n
          PROVE  To(pc, a, n).pc = pc /\ Gone(pc).pc = pc /\ Gone(pc).key = call[c].key
      BY CallFields DEF Call
    <3>2. call[c].kind = "logout" => call[c].key \notin Keys
      BY DEF KeyInv, CallsGood, GoodCall
    <3>3. \/ \E a : Reply(c, a)
          \/ Refused(c)
          \/ \E pc \in Stations \ {"handle"} : Goto(c, pc)
          \/ call[c].kind = "logout" /\ Goto(c, "handle")
          \/ \E pc \in {"reply", "refreshed"} :
                \E s, t : call' = [call EXCEPT ![c] = Granted(c, pc, s, t)]
      <4>1. CASE Authenticate(c)
        BY <4>1 DEF Authenticate, Stations
      <4>2. CASE Logout(c) \/ InvalidCredentials(c) \/ Refresh(c) \/ RevokeReused(c) \/ RotateRead(c)
        BY <4>2 DEF Logout, InvalidCredentials, Refresh, RevokeReused, RotateRead, Stations
      <4>3. CASE Login(c)
        <5>1. Reply(c, "401") \/ \E s, t : call' = [call EXCEPT ![c] = Granted(c, "reply", s, t)]
          BY <4>3, LoginEffect, Zenon
        <5> QED BY <5>1
      <4>4. CASE RotateSave(c)
        <5>1. \E s, t : call' = [call EXCEPT ![c] = Granted(c, "refreshed", s, t)]
          BY <4>4, RotateEffect, Zenon
        <5> QED BY <5>1
      <4> QED BY <2>6, <4>1, <4>2, <4>3, <4>4, Zenon DEF PlainStep
    <3>4. \/ \E pc, a, n : pc # "handle" /\ call' = [call EXCEPT ![c] = To(pc, a, n)]
          \/ \E pc : (pc # "handle" \/ call[c].key \notin Keys)
                     /\ call' = [call EXCEPT ![c] = Gone(pc)]
      <4>1. "reply" # "handle" /\ "refreshed" # "handle" /\ \A pc \in Stations \ {"handle"} : pc # "handle"
        OBVIOUS
      <4> QED BY <3>2, <3>3, <4>1, Zenon DEF Reply, Refused, Goto, Granted
    <3>5. \A pc, a, n : pc # "handle" => ~(To(pc, a, n).pc = "handle" /\ To(pc, a, n).key \in Keys)
      BY <3>1
    <3>6. \A pc : pc # "handle" \/ call[c].key \notin Keys =>
                ~(Gone(pc).pc = "handle" /\ Gone(pc).key \in Keys)
      BY <3>1
    <3> HIDE DEF To, Gone
    <3> QED BY <3>4, <3>5, <3>6, Zenon
  <2> QED BY <2>2, <2>3, <2>4, <2>5, <2>6 DEF BrowserStep
<1> QED BY <1>1 DEF Handling, CallsOK

\* A step that leaves records and effects alone and lets no call into a handler.
LEMMA OnceKept ==
  ASSUME OnceInv, faults = 0, NEW k \in Keys \ raced, ~Racing(k)',
         UNCHANGED <<record, storing, effects>>,
         \A d \in Calls : Handling(d, k)' => Handling(d, k)
  PROVE  OnceFor(k)'
BY DEF OnceInv, OnceFor, Acted, ActedTwice

LEMMA OnceLookUp ==
  ASSUME CallsOK, OnceInv, faults = 0, NEW k \in Keys \ raced, ~Racing(k)',
         NEW c \in Calls, LookUp(c)
  PROVE  OnceFor(k)'
<1>1. UNCHANGED <<record, storing, effects>>
  BY DEF LookUp, server
<1>2. \A d \in Calls : Handling(d, k)' => Handling(d, k) \/ record[k] = NoBody
  <2> DEFINE To(a) == [call[c] EXCEPT !.pc = "reply", !.answer = a, !.carries = NoCookies]
             Gone == [call[c] EXCEPT !.pc = "handle"]
  <2>1. \/ \E a : call' = [call EXCEPT ![c] = To(a)]
        \/ /\ call[c].key = NoKey \/ record[call[c].key] = NoBody
           /\ call' = [call EXCEPT ![c] = Gone]
    BY Zenon DEF LookUp, Reply, Goto
  <2>2. ASSUME NEW a PROVE To(a).pc # "handle"
    BY CallFields DEF Call
  <2>3. Gone.key = call[c].key
    BY CallFields DEF Call
  <2> HIDE DEF To, Gone
  <2> QED BY <2>1, <2>2, <2>3 DEF Handling, CallsOK
<1> QED BY <1>1, <1>2 DEF OnceInv, OnceFor, Acted, ActedTwice

LEMMA OnceHandle ==
  ASSUME CallsOK, RestOK, OnceInv, faults = 0, faults' = 0, NEW k \in Keys \ raced, ~Racing(k)',
         NEW c \in Calls, Handle(c)
  PROVE  OnceFor(k)'
<1>1. PICK acts \in BOOLEAN, ok \in BOOLEAN : HandlesSo(c, acts, ok)
  BY HandleEffect
<1>2. ok /\ acts /\ record' = record /\ call[c].pc = "handle"
  BY <1>1 DEF HandlesSo, Handle, At
<1>3. /\ call'[c] = Handled(c, acts, ok) /\ Handled(c, acts, ok).pc = "reply"
      /\ \A d \in Calls \ {c} : call'[d] = call[d]
  BY <1>1, CallFields DEF HandlesSo, CallsOK, Handled, Call
<1>4. \A d \in Calls : Handling(d, k)' => Handling(d, k)
  BY <1>3 DEF Handling
<1>5. OnceFor(k)
  BY DEF OnceInv
<1>6. effects \in [Keys -> [Bodies -> Nat]]
  BY DEF RestOK
<1>7. CASE call[c].key # k
  <2>1. effects'[k] = effects[k]
    BY <1>1, <1>6, <1>7, CallFields DEF HandlesSo, Call
  <2>2. storing \subseteq storing'
    BY <1>1, CallFields DEF HandlesSo, Call
  <2> QED BY <1>2, <1>4, <1>5, <2>1, <2>2 DEF OnceFor, Acted, ActedTwice
<1>8. CASE call[c].key = k
  <2> DEFINE b0 == call[c].body
  <2>1. b0 \in Bodies
    BY <1>8, CallFields
  <2>2. record[k] = NoBody /\ ~\E b \in Bodies : <<k, b>> \in storing
    <3>1. Handling(c, k)
      BY <1>2, <1>8 DEF Handling
    <3>2. ~\E b \in Bodies : <<k, b>> \in storing
      BY <1>2, <1>5, <1>8 DEF OnceFor, Racing, At
    <3> QED BY <1>5, <3>1, <3>2 DEF OnceFor
  <2>3. \A b \in Bodies : effects[k][b] = 0
    <3>1. ~Acted(k)
      BY <1>5, <2>2 DEF OnceFor
    <3> QED BY <1>6, <3>1 DEF Acted
  <2>4. effects' = [effects EXCEPT ![k] = [effects[k] EXCEPT ![b0] = @ + 1]]
    BY <1>1, <1>2, <1>8 DEF HandlesSo
  <2>5. storing' = storing \cup {<<k, b0>>}
    BY <1>1, <1>2, <1>8 DEF HandlesSo
  <2> HIDE DEF b0
  <2>6. \A b \in Bodies : effects'[k][b] = IF b = b0 THEN 1 ELSE 0
    BY <1>6, <2>1, <2>3, <2>4
  <2>7. ~ActedTwice(k)'
    BY <2>6 DEF ActedTwice
  <2> QED BY <1>2, <1>4, <1>5, <2>1, <2>5, <2>7 DEF OnceFor
<1> QED BY <1>7, <1>8

LEMMA OnceStore ==
  ASSUME RestOK, OnceInv, faults = 0, NEW k \in Keys \ raced, ~Racing(k)',
         NEW j \in Keys, NEW b \in Bodies, Store(j, b)
  PROVE  OnceFor(k)'
<1>1. UNCHANGED <<call, effects>> /\ storing' = storing \ {<<j, b>>} /\ <<j, b>> \in storing
  BY DEF Store
<1>2. record' = [record EXCEPT ![j] = IF @ = NoBody THEN b ELSE @]
  BY DEF Store
<1>3. OnceFor(k)
  BY DEF OnceInv
<1>4. \A c \in Calls : Handling(c, k)' <=> Handling(c, k)
  BY <1>1 DEF Handling
<1>5. CASE j # k
  <2>1. record'[k] = record[k]
    BY <1>2, <1>5 DEF RestOK
  <2>2. \A a \in Bodies : <<k, a>> \in storing' <=> <<k, a>> \in storing
    BY <1>1, <1>5
  <2> QED BY <1>1, <1>3, <1>4, <2>1, <2>2 DEF OnceFor, Acted, ActedTwice
<1>6. CASE j = k
  <2>1. record'[k] # NoBody
    BY <1>2, <1>6 DEF RestOK
  <2>2. \A c \in Calls : ~Handling(c, k)
    BY <1>1, <1>3, <1>6 DEF OnceFor, Racing, Handling, At
  <2> QED BY <1>1, <1>3, <1>4, <2>1, <2>2 DEF OnceFor, ActedTwice
<1> QED BY <1>5, <1>6

LEMMA OnceStep ==
  ASSUME TypeOK, KeyInv, OnceInv, [Next]_vars, TypeOK'
  PROVE  OnceInv'
<1> SUFFICES ASSUME faults' = 0, NEW k \in Keys, k \notin raced' PROVE OnceFor(k)'
  BY DEF OnceInv
<1>1. CallsOK /\ RestOK /\ BoundsOK
  BY TypeParts
<1>2. faults = 0
  <2>1. faults' = faults \/ faults' = faults + 1
    BY DEF Next, Page, LoginPage, Mutate, TriggerButton, StartCall, GetReply, GetRefreshed,
       Authenticate, LookUp, Handle, InvalidCredentials, Logout, Login, Refresh, RevokeReused,
       RotateRead, RotateSave, LoseReply, Store, LoseRecord, AccessExpires, SessionExpires, Fault,
       bounds, vars
  <2> QED BY <1>1, <2>1 DEF BoundsOK
<1>3. CASE Next
  <2>1. k \in Keys \ raced /\ ~Racing(k)'
    BY <1>3, NextCases, Zenon DEF Observe
  <2>2. ASSUME NEW c \in Calls,
               PageStep(c) \/ BrowserStep(c) \/ LoseReply(c) \/ PlainStep(c)
        PROVE  OnceFor(k)'
    <3>1. UNCHANGED <<record, storing, effects>>
      BY <2>2 DEF PageStep, Page, TriggerButton, StartCall, BrowserStep, GetReply, GetRefreshed,
         LoseReply, PlainStep, Authenticate, InvalidCredentials, Logout, Login, Refresh,
         RevokeReused, RotateRead, RotateSave, server
    <3>2. \A d \in Calls : Handling(d, k)' => Handling(d, k)
      BY <1>1, <2>2, HandlersKept
    <3> QED BY <1>2, <2>1, <3>1, <3>2, OnceKept
  <2>3. ASSUME NEW c \in Calls, LookUp(c) PROVE OnceFor(k)'
    BY <1>1, <1>2, <2>1, <2>3, OnceLookUp
  <2>4. ASSUME NEW c \in Calls, Handle(c) PROVE OnceFor(k)'
    BY <1>1, <1>2, <2>1, <2>4, OnceHandle
  <2>5. ASSUME NEW j \in Keys, NEW b \in Bodies, Store(j, b) PROVE OnceFor(k)'
    BY <1>1, <1>2, <2>1, <2>5, OnceStore
  <2>6. ASSUME NEW j \in Keys, NEW b \in Bodies, LoseRecord(j, b) PROVE FALSE
    BY <1>2, <2>6 DEF LoseRecord, Fault
  <2>7. CASE Expiry
    BY <1>2, <2>1, <2>7, OnceKept DEF Expiry, AccessExpires, SessionExpires, server, Handling
  <2> QED BY <1>3, <2>2, <2>3, <2>4, <2>5, <2>6, <2>7, NextCases DEF CallStep, ServerStep, PlainStep
<1>4. CASE UNCHANGED vars
  <2>1. UNCHANGED <<call, raced, record, storing, effects>>
    BY <1>4 DEF vars, server, history
  <2>2. ~Racing(k)'
    BY <1>2, <2>1 DEF OnceInv, OnceFor, Racing, At
  <2> QED BY <1>2, <2>1, <2>2, OnceKept DEF Handling
<1> QED BY <1>3, <1>4

LEMMA OnceInit == Init => OnceInv
<1> SUFFICES ASSUME Init, NEW k \in Keys PROVE OnceFor(k)
  BY DEF OnceInv
<1>1. \A c \in Calls : call[c].pc # "handle"
  BY DEF Init, Idle
<1>2. \A b \in Bodies : effects[k][b] = 0
  BY DEF Init
<1> QED BY <1>1, <1>2 DEF OnceFor, Racing, Handling, At, Acted, ActedTwice

\* A supplied Idempotency-Key acts at most once, unless one call with it was looked up
\* before the record of another was stored, or a step failed (idempotency.ts:35-76).
THEOREM OncePerKey == Spec => []KeyActsOnce
<1>1. TypeOK /\ TypeOK' /\ KeyInv /\ OnceInv /\ [Next]_vars => OnceInv'
  BY OnceStep
<1>2. OnceInv => KeyActsOnce
  BY DEF OnceInv, OnceFor, KeyActsOnce
<1> QED BY <1>1, <1>2, OnceInit, KeyInvariant, RequestsTypeCorrect, PTL DEF Spec
-----------------------------------------------------------------------------
(* Calm: while no exchange of cookies meets another, the tokens that the   *)
(* browser, the replies on their way and the session hold are in step.     *)

\* A session that was opened and not revoked, although it may have run out.
KeptIn(ses, s) == s \in Sids /\ ses[s].life \in {"live", "expired"}
Current(ses, k) == KeptIn(ses, k.sid) /\ k.token = ses[k.sid].token

\* What a call carries, by how far it is: the tokens of the browser up to a refresh, the
\* new ones of the session on the way back.
CalmCall(r, j, ses) ==
    /\ r.answer # "csrf"
    /\ r.pc = "lookup" => r.kind = "write"
    /\ r.pc = "refresh" \/ (r.pc = "sent" /\ r.kind \in AuthKinds \cup {"write"}) =>
         r.carries.sid = j.sid /\ r.carries.token = j.token
    /\ r.pc # "reuse"
    /\ r.pc = "rotate" => r.carries.sid = j.sid
    /\ r.pc = "rotateSave" => r.carries.sid = j.sid /\ KeptIn(ses, j.sid)
    /\ r.pc = "refreshed" /\ r.answer = "ok" => r.carries.sid = j.sid /\ Current(ses, r.carries)
    /\ r.pc = "reply" /\ r.answer = "ok" =>
         /\ r.kind \in {"init", "initAgain", "me"} => KeptIn(ses, j.sid)
         /\ r.kind = "login" => Current(ses, r.carries)

CallsCalm == \A c \in Calls : CalmCall(call[c], jar, session)

\* The browser is yet to take over rotated tokens, or the end of its session.
Renewed(c) == At(c, "refreshed") /\ call[c].answer = "ok"
LoggedOut(c) == At(c, "reply") /\ call[c].kind = "logout" /\ call[c].answer = "ok"

JarInv ==
    /\ KeptIn(session, jar.sid) =>
         jar.token = session[jar.sid].token \/ \E c \in Calls : Renewed(c)
    /\ user = "in" => KeptIn(session, jar.sid) \/ \E c \in Calls : LoggedOut(c)
    /\ jar.sid \in Sids => session[jar.sid].life # "none"

CalmInv == calm => ~Meeting /\ JarInv /\ CallsCalm

\* While one call exchanges cookies, no other is at a point where it needs them.
LEMMA Alone ==
  ASSUME CallsOK, ~Meeting, NEW c \in Calls, Exchanging(c), NEW d \in Calls \ {c}
  PROVE  /\ call[d].pc \notin {"refresh", "reuse", "rotate", "rotateSave", "refreshed"}
         /\ call[d].kind \notin AuthKinds
         /\ ~(call[d].kind = "write" /\ call[d].pc = "sent")
         /\ ~Renewed(d) /\ ~LoggedOut(d)
BY DEF Meeting, Exchanging, At, AuthKinds, Renewed, LoggedOut

\* A call moves while browser and session keep their tokens.
LEMMA CalmMove ==
  ASSUME CallsOK, CallsCalm, NEW c \in Calls, NEW r, call' = [call EXCEPT ![c] = r],
         jar'.sid = jar.sid, jar'.token = jar.token, session' = session,
         CalmCall(r, jar, session)
  PROVE  CallsCalm'
<1>1. \A d \in Calls : call'[d] = IF d = c THEN r ELSE call[d]
  BY DEF CallsOK
<1>2. \A d \in Calls : CalmCall(call'[d], jar, session)
  BY <1>1 DEF CallsCalm
<1>3. \A d \in Calls : CalmCall(call'[d], jar', session')
  BY <1>2 DEF CalmCall
<1> QED BY <1>3 DEF CallsCalm

\* A call that exchanges cookies moves, whatever this does to browser and session.
LEMMA CalmExchange ==
  ASSUME CallsOK, CallsCalm, ~Meeting, NEW c \in Calls, Exchanging(c),
         NEW r, call' = [call EXCEPT ![c] = r], CalmCall(r, jar', session')
  PROVE  CallsCalm'
<1>1. \A d \in Calls : call'[d] = IF d = c THEN r ELSE call[d]
  BY DEF CallsOK
<1>2. ASSUME NEW d \in Calls \ {c} PROVE CalmCall(call[d], jar', session')
  <2>1. call[d].answer # "csrf" /\ (call[d].pc = "lookup" => call[d].kind = "write")
    BY DEF CallsCalm, CalmCall
  <2> QED BY <2>1, Alone DEF CalmCall, AuthKinds
<1> QED BY <1>1, <1>2 DEF CallsCalm

\* Nothing but a call that moves on from an ordinary point changes for the browser.
LEMMA JarKept ==
  ASSUME CallsOK, JarInv, NEW c \in Calls, NEW r, call' = [call EXCEPT ![c] = r],
         jar'.sid = jar.sid, jar'.token = jar.token, session' = session,
         user' = "in" => user = "in" \/ KeptIn(session, jar.sid),
         ~Renewed(c), ~LoggedOut(c)
  PROVE  JarInv'
<1>1. \A d \in Calls \ {c} : call'[d] = call[d]
  BY DEF CallsOK
<1>2. \A d \in Calls : (Renewed(d) => Renewed(d)') /\ (LoggedOut(d) => LoggedOut(d)')
  BY <1>1 DEF Renewed, LoggedOut, At
<1> QED BY <1>2 DEF JarInv, KeptIn

\* A step of the pages.
LEMMA CalmPage ==
  ASSUME CallsOK, RestOK, CallsCalm, JarInv, NEW c \in Calls, PageStep(c)
  PROVE  CallsCalm' /\ JarInv'
<1> DEFINE Out(f) == [f EXCEPT !.pc = IF f.kind = "initRefresh" THEN "refresh" ELSE "sent",
                               !.carries = jar]
<1>1. /\ UNCHANGED <<jar, user, session>> /\ call[c].pc = "idle"
      /\ \/ \E kind \in Kinds : call' = [call EXCEPT ![c] = Out([Idle EXCEPT !.kind = kind])]
         \/ \E k \in Keys, b \in Bodies :
              call' = [call EXCEPT ![c] = Out([Idle EXCEPT !.kind = "write", !.key = k, !.body = b])]
  BY Zenon DEF PageStep, Page, TriggerButton, StartCall, Dispatch, server, At
<1>2. ASSUME NEW kind \in Kinds
      PROVE  CalmCall(Out([Idle EXCEPT !.kind = kind]), jar, session)
  BY DEF CalmCall, Idle
<1>3. ASSUME NEW k \in Keys, NEW b \in Bodies
      PROVE  CalmCall(Out([Idle EXCEPT !.kind = "write", !.key = k, !.body = b]), jar, session)
  BY DEF CalmCall, Idle
<1>4. ~Renewed(c) /\ ~LoggedOut(c)
  BY <1>1 DEF Renewed, LoggedOut, At
<1> HIDE DEF Out
<1> QED BY <1>1, <1>2, <1>3, <1>4, CalmMove, JarKept

\* What the server answers without touching a session: a 401, a refusal, the way on, or what
\* the handler of a write made of it.
LEMMA CalmAnswer ==
  ASSUME CallsOK, RestOK, CallsCalm, JarInv, NEW c \in Calls,
         call[c].pc \in {"sent", "lookup", "handle", "refresh", "rotate"},
         UNCHANGED <<jar, user, session>>,
         \/ \E a \in {"401", "conflict"} : Reply(c, a)
         \/ Reply(c, "ok") /\ call[c].kind # "login"
            /\ (call[c].kind \in {"init", "initAgain", "me"} => KeptIn(session, jar.sid))
         \/ Goto(c, "lookup") /\ call[c].kind = "write"
         \/ Goto(c, "handle")
         \/ Goto(c, "rotate") /\ call[c].carries.sid = jar.sid
         \/ Goto(c, "rotateSave") /\ call[c].carries.sid = jar.sid /\ KeptIn(session, jar.sid)
         \/ Refused(c)
         \/ call[c].kind = "write" /\
            \E acts \in BOOLEAN, ok \in BOOLEAN : call' = [call EXCEPT ![c] = Handled(c, acts, ok)]
  PROVE  CallsCalm' /\ JarInv'
<1> DEFINE To(pc, a) == [call[c] EXCEPT !.pc = pc, !.answer = a, !.carries = NoCookies]
           Gone(pc) == [call[c] EXCEPT !.pc = pc]
<1>0. call[c] \in Call /\ call[c].answer # "csrf"
  BY CallFields DEF CallsCalm, CalmCall
<1>1. ASSUME NEW a \in {"401", "conflict"} PROVE CalmCall(To("reply", a), jar, session)
  BY <1>0 DEF CalmCall, Call
<1>2. ASSUME call[c].kind # "login",
             call[c].kind \in {"init", "initAgain", "me"} => KeptIn(session, jar.sid)
      PROVE  CalmCall(To("reply", "ok"), jar, session)
  BY <1>0, <1>2 DEF CalmCall, Call
<1>3. call[c].kind = "write" => CalmCall(Gone("lookup"), jar, session)
  BY <1>0 DEF CalmCall, Call
<1>4. CalmCall(Gone("handle"), jar, session)
  BY <1>0 DEF CalmCall, Call
<1>5. call[c].carries.sid = jar.sid =>
        /\ CalmCall(Gone("rotate"), jar, session)
        /\ KeptIn(session, jar.sid) => CalmCall(Gone("rotateSave"), jar, session)
  BY <1>0 DEF CalmCall, Call
<1>6. CalmCall(To("refreshed", "401"), jar, session)
  BY <1>0 DEF CalmCall, Call
<1>7. ASSUME NEW acts \in BOOLEAN, NEW ok \in BOOLEAN, call[c].kind = "write"
      PROVE  CalmCall(Handled(c, acts, ok), jar, session)
  BY <1>0, <1>7 DEF CalmCall, Call, Handled
<1>8. \A a : Reply(c, a) <=> call' = [call EXCEPT ![c] = To("reply", a)]
  BY Zenon DEF Reply
<1>9. \A pc : Goto(c, pc) <=> call' = [call EXCEPT ![c] = Gone(pc)]
  BY Zenon DEF Goto
<1>10. Refused(c) <=> call' = [call EXCEPT ![c] = To("refreshed", "401")]
  BY Zenon DEF Refused
<1>11. ~Renewed(c) /\ ~LoggedOut(c)
  BY DEF Renewed, LoggedOut, At
<1> HIDE DEF To, Gone
<1>12. \E r : call' = [call EXCEPT ![c] = r] /\ CalmCall(r, jar, session)
  BY <1>1, <1>2, <1>3, <1>4, <1>5, <1>6, <1>7, <1>8, <1>9, <1>10
<1> QED BY <1>11, <1>12, CalmMove, JarKept

\* authenticate() and csrfVerify() never meet a token that is not the session's.
LEMMA CalmAuthenticate ==
  ASSUME CallsOK, RestOK, CallsCalm, JarInv, ~Meeting, NEW c \in Calls, Authenticate(c)
  PROVE  CallsCalm' /\ JarInv'
<1> DEFINE with == call[c].carries
<1>1. UNCHANGED <<jar, user, session>> /\ call[c].pc = "sent" /\ call[c].kind # "login"
  BY DEF Authenticate, At, server
<1>2. ASSUME Live(with.sid), call[c].kind \in Mutations, with.token # session[with.sid].token
      PROVE  FALSE
  <2>1. with.sid = jar.sid /\ with.token = jar.token
    BY <1>1, <1>2 DEF CallsCalm, CalmCall, Mutations, AuthKinds
  <2>2. PICK d \in Calls : Renewed(d)
    BY <1>2, <2>1 DEF JarInv, Live, KeptIn
  <2>3. c # d /\ Exchanging(d)
    BY <1>1, <2>2 DEF Renewed, At, Exchanging
  <2> QED BY <1>1, <1>2, <2>3, Alone DEF Mutations, AuthKinds
<1>3. ASSUME Live(with.sid), call[c].kind \in {"init", "initAgain", "me"}
      PROVE  KeptIn(session, jar.sid)
  <2>1. with.sid = jar.sid
    BY <1>1, <1>3 DEF CallsCalm, CalmCall, AuthKinds
  <2> QED BY <1>3, <2>1 DEF Live, KeptIn
<1>4. \/ Reply(c, "401")
      \/ Goto(c, "lookup") /\ call[c].kind = "write"
      \/ Goto(c, "handle")
      \/ Reply(c, "ok") /\ Live(with.sid)
  <2>1. CASE ~with.access \/ ~Live(with.sid)
    BY <2>1 DEF Authenticate
  <2>2. CASE with.access /\ Live(with.sid)
    <3>1. ~(call[c].kind \in Mutations /\ with.token # session[with.sid].token)
      BY <1>2, <2>2
    <3> HIDE DEF with
    <3>2. CASE call[c].kind = "write"
      BY <2>2, <3>1, <3>2 DEF Authenticate, with
    <3>3. CASE call[c].kind # "write"
      BY <2>2, <3>1, <3>3 DEF Authenticate, with
    <3> QED BY <3>2, <3>3
  <2> QED BY <2>1, <2>2
<1> QED BY <1>1, <1>3, <1>4, CalmAnswer

LEMMA CalmWrite ==
  ASSUME CallsOK, RestOK, CallsCalm, JarInv, NEW c \in Calls,
         LookUp(c) \/ Handle(c) \/ InvalidCredentials(c)
  PROVE  CallsCalm' /\ JarInv'
<1>1. UNCHANGED <<jar, user, session>> /\ call[c].pc \in {"lookup", "handle"}
  BY DEF LookUp, Handle, InvalidCredentials, At, server
<1>2. CASE LookUp(c)
  <2>1. call[c].kind = "write"
    BY <1>2 DEF LookUp, At, CallsCalm, CalmCall
  <2>2. Goto(c, "handle") \/ \E a \in {"ok", "conflict"} : Reply(c, a)
    BY <1>2 DEF LookUp
  <2> QED BY <1>1, <2>1, <2>2, CalmAnswer
<1>3. CASE Handle(c)
  <2>1. call[c].kind = "write"
        /\ \E acts \in BOOLEAN, ok \in BOOLEAN : call' = [call EXCEPT ![c] = Handled(c, acts, ok)]
    BY <1>3, Zenon DEF Handle, Handled
  <2> QED BY <1>1, <2>1, CalmAnswer
<1>4. CASE InvalidCredentials(c)
  <2>1. Reply(c, "401")
    BY <1>4 DEF InvalidCredentials
  <2> QED BY <1>1, <2>1, CalmAnswer
<1> QED BY <1>2, <1>3, <1>4

\* A logout revokes the session that the browser is about to forget.
LEMMA CalmLogout ==
  ASSUME CallsOK, RestOK, CallsCalm, JarInv, ~Meeting, NEW c \in Calls, Logout(c)
  PROVE  CallsCalm' /\ JarInv'
<1> DEFINE r == [call[c] EXCEPT !.pc = "reply", !.answer = "ok", !.carries = NoCookies]
<1>1. /\ UNCHANGED <<jar, user>> /\ call[c].pc = "handle" /\ call[c].kind = "logout"
      /\ call' = [call EXCEPT ![c] = r]
      /\ session' = [session EXCEPT ![call[c].carries.sid].life = "revoked"]
  BY Zenon DEF Logout, Reply, At
<1>2. r.pc = "reply" /\ r.answer = "ok" /\ r.kind = "logout"
  BY <1>1, CallFields DEF Call
<1>3. CalmCall(r, jar', session')
  BY <1>2 DEF CalmCall
<1>4. LoggedOut(c)' /\ \A d \in Calls \ {c} : call'[d] = call[d]
  BY <1>1, <1>2 DEF LoggedOut, At, CallsOK
<1> HIDE DEF r
<1>5. Exchanging(c) /\ CallsCalm'
  BY <1>1, <1>3, CalmExchange DEF Exchanging
<1>6. \A s \in Sids : /\ session'[s].token = session[s].token
                      /\ session'[s].life \in {session[s].life, "revoked"}
  BY <1>1 DEF RestOK, Session
<1>7. \A d \in Calls : Renewed(d) => d # c /\ Renewed(d)'
  BY <1>1, <1>4 DEF Renewed, At
<1> QED BY <1>1, <1>4, <1>5, <1>6, <1>7 DEF JarInv, KeptIn

\* A login opens a session nobody has cookies of.
LEMMA CalmLogin ==
  ASSUME CallsOK, RestOK, CallsCalm, JarInv, ~Meeting, NEW c \in Calls, Login(c)
  PROVE  CallsCalm' /\ JarInv'
<1>1. UNCHANGED <<jar, user>> /\ call[c].pc = "sent" /\ call[c].kind = "login"
  BY DEF Login, At
<1>2. CASE Reply(c, "401") /\ UNCHANGED <<session, issued>>
  BY <1>1, <1>2, CalmAnswer
<1>3. CASE ~(Reply(c, "401") /\ UNCHANGED <<session, issued>>)
  <2>1. PICK s \in Sids :
            /\ session[s].life = "none"
            /\ issued' = issued + 1
            /\ session' = [session EXCEPT ![s] = [token |-> issued', life |-> "live"]]
            /\ call' = [call EXCEPT ![c] = Granted(c, "reply", s, issued')]
    BY <1>3, Zenon DEF Login, Granted
  <2> DEFINE r == Granted(c, "reply", s, issued')
  <2>2. r.pc = "reply" /\ r.answer = "ok" /\ r.kind = "login" /\ r.carries = NewCookies(s, issued')
    BY <1>1, CallFields DEF Granted, Call
  <2>3. session'[s] = [token |-> issued', life |-> "live"]
        /\ \A t \in Sids \ {s} : session'[t] = session[t]
    BY <2>1 DEF RestOK
  <2>4. CalmCall(r, jar', session')
    BY <2>2, <2>3 DEF CalmCall, Current, KeptIn, NewCookies
  <2>5. \A d \in Calls \ {c} : call'[d] = call[d]
    BY <2>1 DEF CallsOK
  <2> HIDE DEF r
  <2>6. CallsCalm'
    BY <1>1, <2>1, <2>4, CalmExchange DEF Exchanging, r
  <2>7. jar.sid # s
    BY <2>1 DEF JarInv
  <2>8. \A d \in Calls : /\ Renewed(d) => Renewed(d)'
                         /\ LoggedOut(d) => LoggedOut(d)'
    BY <1>1, <2>5 DEF Renewed, LoggedOut, At
  <2> QED BY <1>1, <2>3, <2>6, <2>7, <2>8 DEF JarInv, KeptIn
<1> QED BY <1>2, <1>3

\* refreshHandler compares the token of the browser with that of the session, and finds them
\* equal.
LEMMA CalmRefresh ==
  ASSUME CallsOK, RestOK, CallsCalm, JarInv, ~Meeting, NEW c \in Calls, Refresh(c)
  PROVE  CallsCalm' /\ JarInv'
<1> DEFINE with == call[c].carries
<1>1. UNCHANGED <<jar, user>> /\ call[c].pc = "refresh"
  BY DEF Refresh, At
<1>2. with.sid = jar.sid /\ with.token = jar.token
  BY <1>1 DEF CallsCalm, CalmCall
<1>3. Live(with.sid) => with.token = session[with.sid].token
  <2>1. ASSUME NEW d \in Calls, Renewed(d) PROVE FALSE
    <3>1. c # d /\ Exchanging(c)
      BY <1>1, <2>1 DEF Renewed, At, Exchanging
    <3> QED BY <2>1, <3>1, Alone
  <2> QED BY <1>2, <2>1 DEF JarInv, Live, KeptIn
<1>4. session' = session /\ (Refused(c) \/ Goto(c, "rotate"))
  BY <1>3 DEF Refresh, server
<1> QED BY <1>1, <1>2, <1>4, CalmAnswer

\* So no token is taken for one that was used before.
LEMMA CalmNoReuse ==
  ASSUME CallsCalm, NEW c \in Calls, RevokeReused(c)
  PROVE  FALSE
BY DEF RevokeReused, At, CallsCalm, CalmCall

\* rotateSession hands the new tokens to the reply; nothing has revoked the session since it
\* was read.
LEMMA CalmRotate ==
  ASSUME CallsOK, RestOK, CallsCalm, JarInv, ~Meeting, NEW c \in Calls,
         RotateRead(c) \/ RotateSave(c)
  PROVE  CallsCalm' /\ JarInv'
<1>1. UNCHANGED <<jar, user>> /\ call[c].pc \in {"rotate", "rotateSave"} /\ call[c].carries.sid = jar.sid
  BY DEF RotateRead, RotateSave, At, server, CallsCalm, CalmCall
<1>2. CASE RotateRead(c)
  <2>1. session' = session /\ call[c].pc = "rotate"
    BY <1>2 DEF RotateRead, At, server
  <2>2. Refused(c) \/ (Goto(c, "rotateSave") /\ KeptIn(session, jar.sid))
    BY <1>1, <1>2 DEF RotateRead, Live, KeptIn
  <2> QED BY <1>1, <2>1, <2>2, CalmAnswer
<1>3. CASE RotateSave(c)
  <2> DEFINE s == jar.sid
             r == Granted(c, "refreshed", s, issued')
  <2>1. s \in Sids /\ session[s].life \in {"live", "expired"}
    BY <1>3 DEF RotateSave, At, CallsCalm, CalmCall, KeptIn
  <2>2. session'[s] = Rotated(s, issued') /\ call' = [call EXCEPT ![c] = r]
    BY <1>1, <1>3, <2>1, RotateEffect
  <2>3. r.pc = "refreshed" /\ r.answer = "ok" /\ r.carries = NewCookies(s, issued')
    BY CallFields DEF Granted, Call
  <2>4. session'[s].token = issued' /\ session'[s].life = "live"
    BY <2>1, <2>2 DEF Rotated
  <2>5. CalmCall(r, jar', session')
    BY <1>1, <2>1, <2>3, <2>4 DEF CalmCall, Current, KeptIn, NewCookies
  <2>6. Renewed(c)'
    BY <2>2, <2>3 DEF Renewed, At, CallsOK
  <2> HIDE DEF r
  <2>7. CallsCalm'
    BY <1>1, <2>2, <2>5, CalmExchange DEF Exchanging
  <2> QED BY <1>1, <2>1, <2>4, <2>6, <2>7 DEF JarInv, KeptIn
<1> QED BY <1>2, <1>3

\* A reply reaches the browser.
LEMMA CalmReply ==
  ASSUME CallsOK, RestOK, CallsCalm, JarInv, ~Meeting, NEW c \in Calls, GetReply(c)
  PROVE  CallsCalm' /\ JarInv'
<1> DEFINE ok == call[c].answer = "ok"
           kind == call[c].kind
           Out(k) == [[Idle EXCEPT !.kind = k] EXCEPT
                        !.pc = IF [Idle EXCEPT !.kind = k].kind = "initRefresh"
                               THEN "refresh" ELSE "sent", !.carries = jar]
<1>1. session' = session /\ call[c].pc = "reply" /\ call[c].answer # "csrf" /\ ~Renewed(c)
  BY DEF GetReply, At, server, CallsCalm, CalmCall, Renewed
<1>2. CASE Retries(c)
  <2> DEFINE r == [call[c] EXCEPT !.pc = "refresh", !.carries = jar]
  <2>1. call' = [call EXCEPT ![c] = r] /\ UNCHANGED <<jar, user>>
    BY <1>2, Zenon DEF GetReply
  <2>2. CalmCall(r, jar, session)
    BY <1>1, CallFields DEF CalmCall, Call
  <2>3. ~LoggedOut(c)
    BY <1>2 DEF Retries, LoggedOut
  <2> HIDE DEF r
  <2> QED BY <1>1, <2>1, <2>2, <2>3, CalmMove, JarKept
<1>3. CASE ~Retries(c)
  <2>1. SetCookies(c) /\ Ended(c, ok)
    BY <1>3 DEF GetReply
  <2>2. CalmCall(Idle, jar', session')
    BY DEF CalmCall, Idle
  <2>3. CASE kind = "login" /\ ok
    <3>1. jar' = call[c].carries /\ call' = [call EXCEPT ![c] = Idle] /\ user' = "in"
      BY <2>1, <2>3 DEF SetCookies, Ended
    <3>2. Current(session', jar')
      BY <1>1, <2>3, <3>1 DEF CallsCalm, CalmCall
    <3>3. CallsCalm'
      BY <2>2, <2>3, <3>1, CalmExchange DEF Exchanging
    <3> QED BY <3>2, <3>3 DEF JarInv, Current, KeptIn
  <2>4. CASE kind = "logout" /\ ok
    <3>1. jar' = NoCookies /\ call' = [call EXCEPT ![c] = Idle] /\ user' = "out"
      BY <2>1, <2>4 DEF SetCookies, Ended
    <3>2. jar'.sid \notin Sids
      BY <3>1 DEF NoCookies, Sids
    <3>3. CallsCalm'
      BY <2>2, <2>4, <3>1, CalmExchange DEF Exchanging
    <3> QED BY <3>1, <3>2, <3>3 DEF JarInv, KeptIn
  <2>5. CASE ~(kind \in {"login", "logout"} /\ ok)
    <3>1. jar' = jar
      BY <2>1, <2>5 DEF SetCookies
    <3>2. \E k \in {"initRefresh", "initAgain"} : call' = [call EXCEPT ![c] = Out(k)]
          \/ call' = [call EXCEPT ![c] = Idle]
      BY <2>1 DEF Ended, Dispatch
    <3>3. \A k \in {"initRefresh", "initAgain"} : CalmCall(Out(k), jar, session)
      BY DEF CalmCall, Idle
    <3>4. ~LoggedOut(c)
      BY <2>5 DEF LoggedOut
    <3>5. user' = "in" => user = "in" \/ (kind \in {"init", "initAgain", "me"} /\ ok)
      BY <2>1, <2>5 DEF Ended
    <3>6. user' = "in" => user = "in" \/ KeptIn(session, jar.sid)
      BY <1>1, <3>5 DEF CallsCalm, CalmCall
    <3> HIDE DEF Out
    <3>7. \E r : call' = [call EXCEPT ![c] = r] /\ CalmCall(r, jar, session)
      BY <1>1, <2>2, <3>1, <3>2, <3>3
    <3> QED BY <1>1, <3>1, <3>4, <3>6, <3>7, CalmMove, JarKept
  <2> QED BY <2>3, <2>4, <2>5
<1> QED BY <1>2, <1>3

\* The reply to a refresh reaches the browser, which takes the tokens over.
LEMMA CalmRefreshed ==
  ASSUME CallsOK, RestOK, CallsCalm, JarInv, ~Meeting, NEW c \in Calls, GetRefreshed(c)
  PROVE  CallsCalm' /\ JarInv'
<1> DEFINE ok == call[c].answer = "ok"
           now == IF ok THEN call[c].carries ELSE jar
           Sent(n, k, q) == [call[c] EXCEPT !.pc = "sent", !.carries = n, !.answer = "none",
                                            !.isRetry = q, !.kind = k]
           kind == Again(call[c].kind)
           again == call[c].kind # "initRefresh"
<1>1. session' = session /\ call[c].pc = "refreshed" /\ Exchanging(c) /\ call[c] \in Call
  BY CallFields DEF GetRefreshed, At, server, Exchanging
<1>2. /\ jar' = now
      /\ \/ call' = [call EXCEPT ![c] = Idle] /\ user' = "out"
         \/ call' = [call EXCEPT ![c] = Sent(now, kind, again)] /\ user' = user
  BY DEF GetRefreshed, RefreshedJar
<1>3. now.sid = jar.sid /\ (ok => Current(session, now))
  BY <1>1 DEF CallsCalm, CalmCall
<1>4. CalmCall(Sent(now, kind, again), now, session) /\ CalmCall(Idle, now, session)
  <2>1. ASSUME NEW n, NEW k, NEW q PROVE CalmCall(Sent(n, k, q), n, session)
    BY <1>1 DEF CalmCall, Call
  <2>2. CalmCall(Idle, now, session)
    BY DEF CalmCall, Idle
  <2> HIDE DEF Sent
  <2> QED BY <2>1, <2>2
<1>5. \A d \in Calls : ~LoggedOut(d) /\ (Renewed(d) => d = c)
  BY <1>1, Alone DEF LoggedOut, At
<1> HIDE DEF now, Sent, kind, again
<1>6. CallsCalm'
  BY <1>1, <1>2, <1>4, CalmExchange
<1>7. user' = "in" => KeptIn(session, jar.sid)
  BY <1>2, <1>5 DEF JarInv
<1>8. KeptIn(session, jar.sid) => now.token = session[jar.sid].token
  <2>1. CASE ok
    BY <1>3, <2>1 DEF Current
  <2>2. CASE ~ok
    <3>1. now = jar /\ ~Renewed(c)
      BY <2>2 DEF now, Renewed
    <3> QED BY <1>5, <3>1 DEF JarInv
  <2> QED BY <2>1, <2>2
<1>9. jar.sid \in Sids => session[jar.sid].life # "none"
  BY DEF JarInv
<1> QED BY <1>1, <1>2, <1>3, <1>6, <1>7, <1>8, <1>9 DEF JarInv, KeptIn

\* A step beside the calls: a record is stored, or an access token expires.
LEMMA CalmBeside ==
  ASSUME CallsOK, RestOK, CallsCalm, JarInv,
         jar'.sid = jar.sid, jar'.token = jar.token, UNCHANGED <<user, call>>,
         \A s \in Sids : /\ session'[s].token = session[s].token
                         /\ \/ session'[s].life = session[s].life
                            \/ session[s].life = "live" /\ session'[s].life = "expired"
  PROVE  CallsCalm' /\ JarInv'
<1>1. \A s : KeptIn(session', s) <=> KeptIn(session, s)
  BY DEF KeptIn
<1>2. \A k : Current(session, k) => Current(session', k)
  BY <1>1 DEF Current, KeptIn
<1>3. ASSUME NEW d \in Calls PROVE CalmCall(call'[d], jar', session')
  <2>1. CalmCall(call[d], jar, session)
    BY DEF CallsCalm
  <2> QED BY <1>1, <1>2, <2>1 DEF CalmCall
<1>4. JarInv'
  BY <1>1 DEF JarInv, KeptIn, Renewed, LoggedOut, At
<1> QED BY <1>3, <1>4 DEF CallsCalm

LEMMA CalmExpiry ==
  ASSUME CallsOK, RestOK, CallsCalm, JarInv, Expiry
  PROVE  CallsCalm' /\ JarInv'
<1>1. CASE AccessExpires
  <2>1. jar'.sid = jar.sid /\ jar'.token = jar.token /\ UNCHANGED <<user, call, session>>
    BY <1>1 DEF AccessExpires, server, RestOK, Cookies
  <2> QED BY <2>1, CalmBeside
<1>2. ASSUME NEW t \in Sids, SessionExpires(t) PROVE CallsCalm' /\ JarInv'
  <2>1. UNCHANGED <<jar, user, call>> /\ session[t].life = "live"
    BY <1>2 DEF SessionExpires
  <2>2. \A s \in Sids : /\ session'[s].token = session[s].token
                        /\ session'[s].life = IF s = t THEN "expired" ELSE session[s].life
    BY <1>2 DEF SessionExpires, RestOK, Session
  <2> QED BY <2>1, <2>2, CalmBeside
<1> QED BY <1>1, <1>2 DEF Expiry

LEMMA CalmStep ==
  ASSUME TypeOK, CalmInv, [Next]_vars
  PROVE  CalmInv'
<1>1. CallsOK /\ RestOK /\ BoundsOK
  BY TypeParts
<1>2. CASE Next
  <2>1. calm' = (calm /\ ~Meeting' /\ faults' = faults)
    BY <1>2, NextCases, Zenon DEF Observe
  <2> SUFFICES ASSUME calm' PROVE ~Meeting' /\ JarInv' /\ CallsCalm'
    BY DEF CalmInv
  <2>2. calm /\ ~Meeting' /\ faults' = faults
    BY <2>1
  <2>3. ~Meeting /\ JarInv /\ CallsCalm
    BY <2>2 DEF CalmInv
  <2>4. ~Fault
    BY <1>1, <2>2 DEF Fault, BoundsOK
  <2>5. ASSUME NEW c \in Calls, PageStep(c) \/ CallStep(c) PROVE JarInv' /\ CallsCalm'
    BY <1>1, <2>3, <2>5, CalmPage, CalmReply, CalmRefreshed, CalmAuthenticate, CalmWrite,
       CalmLogout, CalmLogin, CalmRefresh, CalmNoReuse, CalmRotate
       DEF CallStep, BrowserStep, ServerStep
  <2>6. ASSUME NEW c \in Calls, LoseReply(c) PROVE FALSE
    BY <2>4, <2>6 DEF LoseReply
  <2>7. ASSUME NEW k \in Keys, NEW b \in Bodies, Store(k, b) PROVE JarInv' /\ CallsCalm'
    BY <1>1, <2>3, <2>7, CalmBeside DEF Store
  <2>8. ASSUME NEW k \in Keys, NEW b \in Bodies, LoseRecord(k, b) PROVE FALSE
    BY <2>4, <2>8 DEF LoseRecord
  <2>9. CASE Expiry
    BY <1>1, <2>2, <2>3, <2>9, CalmExpiry
  <2> QED BY <1>2, <2>2, <2>5, <2>6, <2>7, <2>8, <2>9, NextCases
<1>3. CASE UNCHANGED vars
  <2>1. UNCHANGED <<jar, user, call, session, calm>>
    BY <1>3 DEF vars, server, history
  <2>2. Meeting' <=> Meeting
    BY <2>1 DEF Meeting, Exchanging, At
  <2> QED BY <1>1, <2>1, <2>2, CalmBeside DEF CalmInv
<1> QED BY <1>2, <1>3

LEMMA CalmInit == Init => CalmInv
<1> SUFFICES ASSUME Init PROVE ~Meeting /\ JarInv /\ CallsCalm
  BY DEF CalmInv
<1>1. PICK access \in AccessAtLoad, s \in Sids \cup {0} :
        /\ jar = [sid |-> s, token |-> 0, access |-> access /\ s # 0]
        /\ session = [t \in Sids |-> [token |-> 0, life |-> IF t = s THEN "live" ELSE "none"]]
  BY DEF Init
<1>2. jar.sid = s /\ jar.token = 0 /\ \A t \in Sids :
        session[t].token = 0 /\ session[t].life = IF t = s THEN "live" ELSE "none"
  BY <1>1
<1> DEFINE r == [Idle EXCEPT !.pc = "sent", !.kind = "init", !.carries = jar]
<1>3. \A c \in Calls : call[c] = IF c # InitCall THEN Idle ELSE r
  BY Zenon DEF Init
<1>4. /\ Idle.pc = "idle" /\ Idle.kind = "read" /\ Idle.answer = "none"
      /\ r.pc = "sent" /\ r.kind = "init" /\ r.answer = "none" /\ r.carries = jar
  BY DEF Idle
<1> HIDE DEF r
<1>5. CallsCalm
  BY <1>3, <1>4 DEF CallsCalm, CalmCall
<1>6. ~Meeting
  BY <1>3, <1>4 DEF Meeting, Exchanging
<1>7. JarInv
  BY <1>2 DEF JarInv, KeptIn, Init
<1> QED BY <1>5, <1>6, <1>7

\* As long as no exchange of cookies met another, a write or a call that tells who is signed
\* in, and nothing failed, the session of a signed-in browser is not revoked, although it may
\* have run out, the browser holds its tokens, and no request is refused for its CSRF token,
\* whatever number of calls overlap and whenever tokens and sessions expire (api.ts:35-41,
\* authController.ts:133-147, sessionService.ts:58-73).
THEOREM CalmKept == Spec => []CalmStaysIn
<1>1. TypeOK /\ CalmInv /\ [Next]_vars => CalmInv'
  BY CalmStep
<1>2. CalmInv => CalmStaysIn
  <2> SUFFICES ASSUME CalmInv, calm PROVE CalmStaysIn
    BY DEF CalmStaysIn
  <2>1. JarInv /\ CallsCalm
    BY DEF CalmInv
  <2>2. \A c \in Calls : call[c].answer # "csrf"
    BY <2>1 DEF CallsCalm, CalmCall
  <2>3. \A c \in Calls : ~Exchanging(c) => ~Renewed(c) /\ ~LoggedOut(c)
    BY DEF Exchanging, Renewed, LoggedOut, At
  <2> QED BY <2>1, <2>2, <2>3 DEF CalmStaysIn, JarInv, Live, KeptIn
<1> QED BY <1>1, <1>2, CalmInit, RequestsTypeCorrect, PTL DEF Spec
=============================================================================
