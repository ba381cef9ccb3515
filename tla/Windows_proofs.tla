--------------------------- MODULE Windows_proofs ---------------------------
(***************************************************************************)
(* Theorems about the rate limiter, for every number of keys and requests, *)
(* every limit and every window; about the notifications of a user, for    *)
(* every number of documents, of jobs and of those retained; and about the *)
(* log of a test run, for every budget and every mix of chunks.  Each is   *)
(* about the specification of its component; EachPart shows that the       *)
(* instance the runs check implements all of them.                         *)
(***************************************************************************)
EXTENDS MCWindows, FiniteSetTheorems, WellFoundedInduction, TLAPS

USE ClockAssumption, WindowsAssumption, NotificationsAssumption
    DEF ClockAssumption, WindowsAssumption, NotificationsAssumption
-----------------------------------------------------------------------------
(* rateLimit()                                                             *)

LEMMA Division ==
  ASSUME NEW t \in Nat, NEW s \in Nat \ {0}
  PROVE  s * ((t + s - 1) \div s) >= t /\ (t + s - 1) \div s \in Nat
<1> DEFINE a == t + s - 1
<1>1. a \in Nat
  OBVIOUS
<1> HIDE DEF a
<1>2. a = s * (a \div s) + (a % s) /\ a % s \in 0..(s - 1) /\ a \div s \in Int
  BY <1>1
<1>3. a \div s \in Nat
  BY <1>1
<1>4. s * (a \div s) \in Int
  BY <1>3
<1> QED BY <1>2, <1>3, <1>4 DEF a

\* A set of numbers has a least one: that with the fewest below it.
LEMMA Smallest ==
  ASSUME NEW S \in SUBSET Nat, S # {}
  PROVE  Oldest(S) \in S
<1> DEFINE Below(n) == {m \in S : m < n}
           T == {Below(n) : n \in S}
<1>0. \A n \in S : n \in Nat /\ n \in Int /\ 0 \in Int
  OBVIOUS
<1>1. ASSUME NEW n \in S PROVE Below(n) \in FiniteSubsetsOf(Nat)
  <2>1. Below(n) \subseteq 0..n
    <3> SUFFICES ASSUME NEW m \in S, m < n PROVE m \in 0..n
      OBVIOUS
    <3>1. m \in Nat /\ n \in Nat
      BY <1>0
    <3> QED BY <3>1
  <2>2. IsFiniteSet(0..n)
    BY <1>0, FS_Interval
  <2>3. IsFiniteSet(Below(n))
    BY <2>1, <2>2, FS_Subset
  <2> QED BY <1>0, <2>3 DEF FiniteSubsetsOf
<1>2. T \subseteq FiniteSubsetsOf(Nat) /\ T # {}
  BY <1>1
<1>3. PICK D \in T : \A E \in T : <<E, D>> \notin StrictSubsetOrdering(Nat)
  BY <1>2, FS_StrictSubsetOrderingWellFounded, WFMin
<1>4. PICK n \in S : D = Below(n)
  BY <1>3
<1>5. ASSUME NEW m \in S, m < n PROVE FALSE
  <2>1. Below(m) \subseteq Below(n) /\ Below(m) # Below(n)
    <3>1. m \in Below(n) /\ m \notin Below(m)
      BY <1>5
    <3>2. Below(m) \subseteq Below(n)
      <4> SUFFICES ASSUME NEW x \in S, x < m PROVE x < n
        OBVIOUS
      <4>1. x \in Nat /\ m \in Nat /\ n \in Nat
        BY <1>0
      <4> QED BY <1>5, <4>1
    <3> QED BY <3>1, <3>2
  <2>2. Below(m) \in SUBSET Nat /\ Below(n) \in SUBSET Nat
    OBVIOUS
  <2>3. <<Below(m), Below(n)>> \in StrictSubsetOrdering(Nat)
    <3> HIDE DEF Below
    <3> QED BY <2>1, <2>2 DEF StrictSubsetOrdering
  <2> QED BY <1>3, <1>4, <2>3
<1>6. \A m \in S : n <= m
  BY <1>5
<1> HIDE DEF T, Below
<1> QED BY <1>6 DEF Oldest

LimiterType ==
    /\ now \in Nat /\ count \in Nat
    /\ request \in [Arrived -> Request]
    /\ \A n \in Arrived : request[n].at <= now
    /\ hits \in [Keys -> SUBSET Arrived]
    /\ retryAt \in [Keys -> Int]

\* A bucket holds every admitted request of its key that is still in the window.
BucketsFull ==
    \A n \in Arrived : request[n].admitted /\ Recent(n) => n \in hits[request[n].key]
\* It holds no more than are allowed, and one of them leaves by the time the caller was told.
BucketsBound ==
    \A k \in Keys :
        /\ Cardinality(hits[k]) <= PerMinute
        /\ retryAt[k] # 0 => \E n \in hits[k] : request[n].at + Window <= retryAt[k]
Stretch(n) ==
    {m \in 1..n : request[m].admitted /\ request[m].key = request[n].key
                  /\ request[n].at - request[m].at < Window}

LimiterInv == LimiterType /\ BucketsFull /\ BucketsBound /\ RateBound

LEMMA HitsFinite ==
  ASSUME LimiterType, NEW k \in Keys
  PROVE  /\ IsFiniteSet(hits[k]) /\ IsFiniteSet(Kept(k))
         /\ Cardinality(hits[k]) \in Nat /\ Cardinality(Kept(k)) \in Nat
         /\ Kept(k) \subseteq hits[k] /\ hits[k] \subseteq Arrived /\ hits[k] \subseteq Nat
         /\ Cardinality(Kept(k)) <= Cardinality(hits[k])
<1>1. hits[k] \subseteq Arrived /\ Kept(k) \subseteq hits[k]
  BY DEF LimiterType, Kept
<1>2. IsFiniteSet(Arrived)
  BY FS_Interval DEF Arrived, LimiterType
<1>3. IsFiniteSet(hits[k])
  BY <1>1, <1>2, FS_Subset
<1>4. IsFiniteSet(Kept(k)) /\ Cardinality(Kept(k)) <= Cardinality(hits[k])
  BY <1>1, <1>3, FS_Subset
<1> QED BY <1>1, <1>3, <1>4, FS_CardinalityType DEF Arrived, LimiterType

LEMMA LimiterInit == WindowsInit => LimiterInv
<1> SUFFICES ASSUME WindowsInit PROVE LimiterInv
  OBVIOUS
<1>1. Arrived = {} /\ Cardinality({}) = 0
  BY FS_EmptySet DEF WindowsInit, Arrived
<1> QED BY <1>1 DEF WindowsInit, LimiterInv, LimiterType, BucketsFull, BucketsBound,
          RateBound, Kept

\* What an arrival leaves of the requests before it, and what it adds.
LEMMA ArrivalFields ==
  ASSUME LimiterType, NEW k \in Keys, NEW b \in BOOLEAN, Arrives(k, b)
  PROVE  LET new == count + 1 IN
         /\ now' = now /\ count' = new /\ Arrived' = Arrived \cup {new} /\ new \notin Arrived
         /\ request' \in [Arrived' -> Request]
         /\ \A n \in Arrived : request'[n] = request[n]
         /\ request'[new].key = k /\ request'[new].at = now /\ request'[new].admitted = b
<1> DEFINE r == [key |-> k, at |-> now, admitted |-> b, end |-> -1]
<1>1. /\ count' = count + 1 /\ now' = now
      /\ request' = [n \in 1..count + 1 |-> IF n <= count THEN request[n] ELSE r]
  BY DEF Arrives
<1>2. count \in Nat /\ Arrived = 1..count /\ Arrived' = 1..(count + 1)
  BY <1>1 DEF LimiterType, Arrived
<1>3. Arrived' = Arrived \cup {count + 1} /\ count + 1 \notin Arrived
  BY <1>2
<1>4. r.key = k /\ r.at = now /\ r.admitted = b /\ r \in Request
  BY DEF LimiterType, Request
<1> HIDE DEF r
<1>5. request'[count + 1] = r /\ \A n \in Arrived : request'[n] = request[n]
  BY <1>1, <1>2
<1>6. request' \in [Arrived' -> Request]
  BY <1>1, <1>2, <1>4 DEF LimiterType
<1> QED BY <1>1, <1>2, <1>3, <1>4, <1>5, <1>6

LEMMA AdmitStep ==
  ASSUME LimiterInv, NEW k \in Keys, Admit(k)
  PROVE  LimiterInv'
<1> DEFINE new == count + 1
<1>1. /\ LimiterType /\ Arrives(k, TRUE) /\ ~Full(k)
      /\ hits' = [hits EXCEPT ![k] = Kept(k) \cup {new}]
      /\ retryAt' = [retryAt EXCEPT ![k] = 0]
  BY DEF LimiterInv, Admit
<1>2. /\ now' = now /\ count' = new /\ Arrived' = Arrived \cup {new} /\ new \notin Arrived
      /\ request' \in [Arrived' -> Request]
      /\ \A n \in Arrived : request'[n] = request[n]
      /\ request'[new].key = k /\ request'[new].at = now /\ request'[new].admitted = TRUE
  BY <1>1, ArrivalFields
<1>3. /\ IsFiniteSet(Kept(k)) /\ Cardinality(Kept(k)) \in Nat
      /\ Kept(k) \subseteq hits[k] /\ hits[k] \subseteq Arrived
  BY <1>1, HitsFinite
<1>4. hits'[k] = Kept(k) \cup {new} /\ \A j \in Keys : j # k => hits'[j] = hits[j]
  BY <1>1 DEF LimiterType
<1>5. retryAt'[k] = 0 /\ \A j \in Keys : j # k => retryAt'[j] = retryAt[j]
  BY <1>1 DEF LimiterType
<1>6. LimiterType'
  <2>1. hits' \in [Keys -> SUBSET Arrived']
    BY <1>1, <1>2, <1>3 DEF LimiterType
  <2>2. retryAt' \in [Keys -> Int]
    BY <1>1 DEF LimiterType
  <2>3. now' \in Nat /\ count' \in Nat /\ \A n \in Arrived' : request'[n].at <= now'
    BY <1>1, <1>2 DEF LimiterType, Request
  <2> QED BY <1>2, <2>1, <2>2, <2>3 DEF LimiterType
<1>7. ASSUME NEW n \in Arrived PROVE Recent(n)' = Recent(n)
  BY <1>2 DEF Recent
<1>8. BucketsFull'
  <2>1. ASSUME NEW n \in Arrived, request[n].admitted, Recent(n) PROVE n \in hits'[request[n].key]
    <3>1. n \in hits[request[n].key] /\ request[n].key \in Keys
      BY <1>1, <2>1 DEF LimiterInv, LimiterType, Request, BucketsFull
    <3> QED BY <1>4, <2>1, <3>1 DEF Kept
  <2>2. new \in hits'[request'[new].key]
    BY <1>2, <1>4
  <2>3. ASSUME NEW n \in Arrived, request'[n].admitted, Recent(n)'
        PROVE  n \in hits'[request'[n].key]
    BY <1>2, <1>7, <2>1, <2>3
  <2>4. \A n \in Arrived' : n = new \/ n \in Arrived
    BY <1>2
  <2> HIDE DEF new
  <2> SUFFICES ASSUME NEW n \in Arrived', request'[n].admitted, Recent(n)'
               PROVE  n \in hits'[request'[n].key]
    BY Zenon DEF BucketsFull
  <2> QED BY <2>2, <2>3, <2>4
<1>9. Cardinality(Kept(k) \cup {new}) = Cardinality(Kept(k)) + 1 /\ Cardinality(Kept(k)) < PerMinute
       /\ IsFiniteSet(Kept(k) \cup {new})
  <2>1. new \notin Kept(k)
    BY <1>2, <1>3
  <2> HIDE DEF new
  <2>2. Cardinality(Kept(k) \cup {new}) = Cardinality(Kept(k)) + 1 /\ IsFiniteSet(Kept(k) \cup {new})
    BY <1>3, <2>1, FS_AddElement
  <2> QED BY <1>1, <1>3, <2>2 DEF Full
<1>10. BucketsBound'
  <2>1. ASSUME NEW j \in Keys, j # k
        PROVE  /\ Cardinality(hits'[j]) <= PerMinute
               /\ retryAt'[j] # 0 => \E n \in hits'[j] : request'[n].at + Window <= retryAt'[j]
    <3>1. hits'[j] = hits[j] /\ retryAt'[j] = retryAt[j] /\ hits[j] \subseteq Arrived
      BY <1>1, <1>4, <1>5, <2>1, HitsFinite
    <3> QED BY <1>2, <3>1 DEF LimiterInv, BucketsBound
  <2>2. Cardinality(hits'[k]) <= PerMinute
    BY <1>3, <1>4, <1>9
  <2> QED BY <1>5, <2>1, <2>2 DEF BucketsBound
<1>11. RateBound'
  <2>1. ASSUME NEW n \in Arrived, request[n].admitted PROVE Cardinality(Stretch(n)') <= PerMinute
    <3>1. n \in Nat /\ 1..n \subseteq Arrived
      BY <1>1 DEF Arrived, LimiterType
    <3>2. \A m \in 1..n : request'[m] = request[m]
      BY <1>2, <3>1
    <3>3. Stretch(n)' = Stretch(n)
      BY <1>2, <2>1, <3>2 DEF Stretch
    <3>4. Cardinality(Stretch(n)) <= PerMinute
      BY <2>1 DEF LimiterInv, RateBound, Stretch
    <3> QED BY <3>3, <3>4
  <2>2. ASSUME NEW w, w = new PROVE Cardinality(Stretch(w)') <= PerMinute
    <3>1. ASSUME NEW m \in 1..w, request'[m].admitted, request'[m].key = k,
                 now - request'[m].at < Window
          PROVE  m \in Kept(k) \cup {w}
      <4>1. CASE m = w
        BY <4>1
      <4>2. CASE m # w
        <5>1. m \in Arrived
          BY <1>1, <2>2, <4>2 DEF Arrived, LimiterType
        <5>2. request'[m] = request[m]
          BY <1>2, <5>1
        <5>3. Recent(m) /\ m \in hits[k]
          BY <3>1, <5>1, <5>2 DEF Recent, LimiterInv, BucketsFull
        <5> QED BY <5>3 DEF Kept
      <4> QED BY <4>1, <4>2
    <3>2. Stretch(w)' \subseteq Kept(k) \cup {w}
      BY <1>2, <2>2, <3>1 DEF Stretch
    <3>3. Cardinality(Stretch(w)') <= Cardinality(Kept(k) \cup {w})
      BY <1>9, <2>2, <3>2, FS_Subset
    <3>4. Cardinality(Stretch(w)') \in Nat
      BY <1>9, <2>2, <3>2, FS_Subset, FS_CardinalityType
    <3> QED BY <1>3, <1>9, <2>2, <3>3, <3>4
  <2>3. \A n \in Arrived' : request'[n].admitted => Cardinality(Stretch(n)') <= PerMinute
    BY <1>2, <2>1, <2>2
  <2> QED BY <2>3 DEF RateBound, Stretch
<1> QED BY <1>6, <1>8, <1>10, <1>11 DEF LimiterInv

LEMMA RefuseStep ==
  ASSUME LimiterInv, NEW k \in Keys, Refuse(k)
  PROVE  LimiterInv'
<1> DEFINE o == Oldest(Kept(k))
           left == Window - (now - request[o].at)
<1>1. /\ LimiterType /\ Arrives(k, FALSE) /\ Full(k)
      /\ hits' = [hits EXCEPT ![k] = Kept(k)]
      /\ retryAt' = [retryAt EXCEPT ![k] = now + Second * RetryAfter(k)]
  BY DEF LimiterInv, Refuse
<1>2. /\ now' = now /\ count' = count + 1 /\ Arrived' = Arrived \cup {count + 1}
      /\ count + 1 \notin Arrived /\ request' \in [Arrived' -> Request]
      /\ \A n \in Arrived : request'[n] = request[n]
      /\ request'[count + 1].at = now /\ request'[count + 1].admitted = FALSE
  BY <1>1, ArrivalFields
<1>3. /\ IsFiniteSet(Kept(k)) /\ Cardinality(Kept(k)) \in Nat /\ Cardinality(hits[k]) \in Nat
      /\ Kept(k) \subseteq hits[k] /\ hits[k] \subseteq Arrived /\ hits[k] \subseteq Nat
      /\ Cardinality(Kept(k)) <= Cardinality(hits[k])
  BY <1>1, HitsFinite
<1>4. o \in Kept(k)
  <2>1. Kept(k) # {}
    BY <1>1, FS_EmptySet DEF Full
  <2>2. Kept(k) \in SUBSET Nat
    BY <1>3
  <2> QED BY <2>1, <2>2, Smallest
<1>5. /\ o \in Arrived /\ request[o].at \in Nat /\ request[o].at <= now /\ now \in Nat
      /\ now - request[o].at < Window
  BY <1>1, <1>3, <1>4 DEF LimiterType, Request, Kept, Recent
<1>6. left \in Nat /\ left <= Second * RetryAfter(k) /\ Second * RetryAfter(k) \in Int
  <2>1. left \in Nat
    BY <1>5
  <2>2. RetryAfter(k) = AtLeast1(Wait(left))
    BY DEF RetryAfter
  <2> HIDE DEF left
  <2>3. Second * Wait(left) >= left /\ Wait(left) \in Nat
    BY <2>1, Division DEF Wait
  <2>4. CASE Wait(left) = 0
    <3>1. RetryAfter(k) = 1 /\ left <= 0
      BY <2>1, <2>2, <2>3, <2>4 DEF AtLeast1
    <3> QED BY <2>1, <3>1
  <2>5. CASE Wait(left) # 0
    <3>1. RetryAfter(k) = Wait(left)
      BY <2>2, <2>3, <2>5 DEF AtLeast1
    <3> QED BY <2>1, <2>3, <3>1
  <2> QED BY <2>4, <2>5
<1>7. hits'[k] = Kept(k) /\ \A j \in Keys : j # k => hits'[j] = hits[j]
  BY <1>1 DEF LimiterType
<1>8. /\ retryAt'[k] = now + Second * RetryAfter(k)
      /\ \A j \in Keys : j # k => retryAt'[j] = retryAt[j]
  BY <1>1 DEF LimiterType
<1>9. LimiterType'
  <2>1. hits' \in [Keys -> SUBSET Arrived']
    BY <1>1, <1>2, <1>3 DEF LimiterType
  <2>2. now + Second * RetryAfter(k) \in Int
    BY <1>5, <1>6
  <2>3. retryAt' \in [Keys -> Int]
    BY <1>1, <2>2 DEF LimiterType
  <2>4. now' \in Nat /\ count' \in Nat /\ \A n \in Arrived' : request'[n].at <= now'
    BY <1>1, <1>2 DEF LimiterType, Request
  <2> QED BY <1>2, <2>1, <2>3, <2>4 DEF LimiterType
<1>10. BucketsFull'
  <2>1. ASSUME NEW n \in Arrived, request[n].admitted, Recent(n) PROVE n \in hits'[request[n].key]
    <3>1. n \in hits[request[n].key] /\ request[n].key \in Keys
      BY <1>1, <2>1 DEF LimiterInv, LimiterType, Request, BucketsFull
    <3> QED BY <1>7, <2>1, <3>1 DEF Kept
  <2>2. \A n \in Arrived : Recent(n)' = Recent(n)
    BY <1>2 DEF Recent
  <2> QED BY <1>2, <2>1, <2>2 DEF BucketsFull
<1>11. BucketsBound'
  <2>1. ASSUME NEW j \in Keys, j # k
        PROVE  /\ Cardinality(hits'[j]) <= PerMinute
               /\ retryAt'[j] # 0 => \E n \in hits'[j] : request'[n].at + Window <= retryAt'[j]
    <3>1. hits'[j] = hits[j] /\ retryAt'[j] = retryAt[j] /\ hits[j] \subseteq Arrived
      BY <1>1, <1>7, <1>8, <2>1, HitsFinite
    <3> QED BY <1>2, <3>1 DEF LimiterInv, BucketsBound
  <2>2. Cardinality(hits'[k]) <= PerMinute
    BY <1>3, <1>7 DEF LimiterInv, BucketsBound
  <2>3. request[o].at + Window <= retryAt'[k]
    <3>1. \A r \in Int : left <= r => request[o].at + Window <= now + r
      BY <1>5
    <3> QED BY <1>6, <1>8, <3>1
  <2>4. \E n \in hits'[k] : request'[n].at + Window <= retryAt'[k]
    BY <1>2, <1>4, <1>5, <1>7, <2>3
  <2> QED BY <2>1, <2>2, <2>4 DEF BucketsBound
<1>12. RateBound'
  <2>1. ASSUME NEW n \in Arrived, request[n].admitted PROVE Cardinality(Stretch(n)') <= PerMinute
    <3>1. n \in Nat /\ 1..n \subseteq Arrived
      BY <1>1 DEF Arrived, LimiterType
    <3>2. \A m \in 1..n : request'[m] = request[m]
      BY <1>2, <3>1
    <3>3. Stretch(n)' = Stretch(n)
      BY <1>2, <2>1, <3>2 DEF Stretch
    <3>4. Cardinality(Stretch(n)) <= PerMinute
      BY <2>1 DEF LimiterInv, RateBound, Stretch
    <3> QED BY <3>3, <3>4
  <2>2. \A n \in Arrived' : request'[n].admitted => Cardinality(Stretch(n)') <= PerMinute
    BY <1>2, <2>1
  <2> QED BY <2>2 DEF RateBound, Stretch
<1> QED BY <1>9, <1>10, <1>11, <1>12 DEF LimiterInv

\* The end of a response and the passing of time leave the buckets alone.
LEMMA OtherWindowSteps ==
  ASSUME LimiterInv, \/ \E n \in Arrived : Finish(n)
                     \/ Tick /\ UNCHANGED windowVars
                     \/ UNCHANGED <<now, windowVars>>
  PROVE  LimiterInv'
<1>1. LimiterType
  BY DEF LimiterInv
<1>2. /\ count' = count /\ hits' = hits /\ retryAt' = retryAt
      /\ now' = now \/ now' = now + 1
  BY DEF Finish, limiter, Tick, windowVars
<1>3. /\ request' \in [Arrived -> Request]
      /\ \A n \in Arrived : /\ request'[n].at = request[n].at /\ request'[n].key = request[n].key
                            /\ request'[n].admitted = request[n].admitted
  <2>1. ASSUME NEW n \in Arrived, Finish(n)
        PROVE  /\ request' \in [Arrived -> Request]
               /\ \A m \in Arrived : /\ request'[m].at = request[m].at
                                     /\ request'[m].key = request[m].key
                                     /\ request'[m].admitted = request[m].admitted
    <3>1. request' = [request EXCEPT ![n] = [request[n] EXCEPT !.end = now]]
      BY <2>1, Zenon DEF Finish
    <3>2. request \in [Arrived -> Request] /\ now \in Nat
      BY <1>1 DEF LimiterType
    <3>3. [request[n] EXCEPT !.end = now] \in Request
      BY <3>2 DEF Request
    <3>4. /\ [request[n] EXCEPT !.end = now].at = request[n].at
          /\ [request[n] EXCEPT !.end = now].key = request[n].key
          /\ [request[n] EXCEPT !.end = now].admitted = request[n].admitted
      BY <3>2 DEF Request
    <3> QED BY <3>1, <3>2, <3>3, <3>4
  <2>2. CASE request' = request
    BY <1>1, <2>2 DEF LimiterType
  <2> QED BY <2>1, <2>2 DEF windowVars
<1>4. Arrived' = Arrived
  BY <1>2 DEF Arrived
<1>5. LimiterType'
  <2>1. \A n \in Arrived : request[n].at \in Nat /\ request[n].at <= now /\ now \in Nat
    BY <1>1 DEF LimiterType, Request
  <2>2. \A n \in Arrived : request'[n].at <= now'
    BY <1>2, <1>3, <2>1
  <2> QED BY <1>1, <1>2, <1>3, <1>4, <2>2 DEF LimiterType
<1>6. BucketsFull'
  <2>1. ASSUME NEW n \in Arrived, Recent(n)' PROVE Recent(n)
    BY <1>1, <1>2, <1>3, <2>1 DEF Recent, LimiterType, Request
  <2> QED BY <1>2, <1>3, <1>4, <2>1 DEF LimiterInv, BucketsFull
<1>7. BucketsBound'
  <2>1. \A k \in Keys : hits[k] \subseteq Arrived
    BY <1>1 DEF LimiterType
  <2> QED BY <1>2, <1>3, <2>1 DEF LimiterInv, BucketsBound
<1>8. RateBound'
  <2>1. ASSUME NEW n \in Arrived PROVE Stretch(n)' = Stretch(n)
    <3>1. 1..n \subseteq Arrived
      BY <1>1 DEF Arrived, LimiterType
    <3> QED BY <1>3, <3>1 DEF Stretch
  <2>2. \A n \in Arrived : request[n].admitted => Cardinality(Stretch(n)) <= PerMinute
    BY DEF LimiterInv, RateBound, Stretch
  <2>3. \A n \in Arrived' : request'[n].admitted => Cardinality(Stretch(n)') <= PerMinute
    BY <1>3, <1>4, <2>1, <2>2
  <2> QED BY <2>3 DEF RateBound, Stretch
<1> QED BY <1>5, <1>6, <1>7, <1>8 DEF LimiterInv

LEMMA LimiterInvariant == WindowsSpec => []LimiterInv
<1>1. LimiterInv /\ [WindowsNext]_<<now, windowVars>> => LimiterInv'
  BY AdmitStep, RefuseStep, OtherWindowSteps DEF WindowsNext, WindowsStep
<1> QED BY <1>1, LimiterInit, PTL DEF WindowsSpec

\* No key is ever admitted more often than allowed in any stretch as long as the window,
\* wherever the stretch begins (rateLimit.ts:38-44).
THEOREM RateBounded == WindowsSpec => []RateBound
BY LimiterInvariant, PTL DEF LimiterInv

\* The wait a refused caller is told, rounded up to seconds, is long enough: one of the
\* requests that filled its bucket has left the window by then (rateLimit.ts:39-43).
THEOREM RetrySuffices == WindowsSpec => []RetryIsEnough
<1>1. LimiterInv => RetryIsEnough
  <2> SUFFICES ASSUME LimiterInv, NEW k \in Keys, retryAt[k] # 0, now >= retryAt[k]
               PROVE  ~Full(k)
    BY DEF RetryIsEnough
  <2>1. LimiterType /\ Cardinality(hits[k]) <= PerMinute
    BY DEF LimiterInv, BucketsBound
  <2>2. PICK n \in hits[k] : request[n].at + Window <= retryAt[k]
    BY DEF LimiterInv, BucketsBound
  <2>3. /\ IsFiniteSet(hits[k]) /\ Cardinality(hits[k]) \in Nat /\ Cardinality(Kept(k)) \in Nat
        /\ Kept(k) \subseteq hits[k] /\ hits[k] \subseteq Arrived
    BY <2>1, HitsFinite
  <2>4. n \notin Kept(k)
    <3>1. request[n].at \in Nat /\ now \in Nat /\ retryAt[k] \in Int
      BY <2>1, <2>3 DEF LimiterType, Request
    <3> QED BY <2>2, <3>1 DEF Kept, Recent
  <2>5. Cardinality(hits[k]) # Cardinality(Kept(k)) /\ Cardinality(Kept(k)) <= Cardinality(hits[k])
    BY <2>2, <2>3, <2>4, FS_Subset
  <2> QED BY <2>1, <2>3, <2>5 DEF Full
<1> QED BY <1>1, LimiterInvariant, PTL
-----------------------------------------------------------------------------
(* Notifications.                                                          *)

\* Each document is inserted by one call, and the one marked as read has been inserted.
NotesType ==
    /\ NotesTypeOK /\ now \in Nat
    /\ \A i, j \in Jobs : JobAt(i, "insert") /\ JobAt(j, "insert") /\ job[i].note = job[j].note => i = j
    /\ marking # NoNote => state[marking] \in {"unread", "read", "pruned"}

\* The documents there are or have been, and those of them created no earlier than n.
Seen == {n \in Notes : state[n] \in {"unread", "read", "pruned"}}
Newer(n) == {m \in Notes \ {n} : state[m] \in {"unread", "read", "pruned"}
                                 /\ createdAt[m] >= createdAt[n]}

\* What a job has found to delete, and still is to be deleted.
JobsFit ==
    \A j \in Jobs : JobAt(j, "delete") =>
        \A n \in job[j].ids : n \in Seen /\ Cardinality(Newer(n)) >= Retention
Doomed == {n \in Notes : \E j \in Jobs : JobAt(j, "delete") /\ n \in job[j].ids}

\* Unless a job has yet to look, what no job is about to delete is not too much.
Room == noteFaults = 0 => \/ \E j \in Jobs : JobAt(j, "find")
                          \/ Cardinality(Present \ Doomed) <= Retention

NotesInv == NotesType /\ JobsFit /\ Room

JobStep(j) ==
    \/ \E n \in Notes : CreateNotification(j, n)
    \/ StartScript(j) \/ Insert(j) \/ FindExcess(j) \/ DeleteExcess(j) \/ JobFails(j)
PageStep == (\E n \in Notes : FindToMark(n)) \/ SaveMarked \/ MarkAllRead
StillStep == (Tick /\ UNCHANGED noteVars) \/ UNCHANGED <<now, noteVars>>

LEMMA NotesFinite ==
  ASSUME NEW S \in SUBSET Notes
  PROVE  IsFiniteSet(S) /\ Cardinality(S) \in Nat
         /\ \A T \in SUBSET S : Cardinality(T) <= Cardinality(S) /\ Cardinality(T) \in Nat
<1>1. IsFiniteSet(S)
  BY FS_Subset
<1>2. \A T \in SUBSET S : IsFiniteSet(T) /\ Cardinality(T) <= Cardinality(S)
  BY <1>1, FS_Subset
<1> QED BY <1>1, <1>2, FS_CardinalityType

\* What a step does to the documents.
LEMMA DocumentSteps ==
  ASSUME NotesType, NEW n \in Notes,
         (\E j \in Jobs : JobStep(j)) \/ PageStep \/ StillStep
  PROVE  \/ state'[n] = state[n] /\ createdAt'[n] = createdAt[n]
         \/ state[n] = "new" /\ state'[n] = "made" /\ createdAt'[n] = now
         \/ /\ createdAt'[n] = createdAt[n]
            /\ \/ state[n] = "made" /\ state'[n] = "unread"
               \/ state[n] = "unread" /\ state'[n] = "read"
               \/ state'[n] = "pruned"
                  /\ \E j \in Jobs : JobAt(j, "delete") /\ n \in job[j].ids
<1>1. /\ state \in [Notes -> {"new", "made", "unread", "read", "pruned"}]
      /\ createdAt \in [Notes -> Nat]
  BY DEF NotesType, NotesTypeOK
<1>2. ASSUME NEW j \in Jobs, NEW m \in Notes, CreateNotification(j, m)
      PROVE  \/ state'[n] = state[n] /\ createdAt'[n] = createdAt[n]
             \/ state[n] = "new" /\ state'[n] = "made" /\ createdAt'[n] = now
  <2>1. /\ state' = [state EXCEPT ![m] = "made"] /\ state[m] = "new"
        /\ createdAt' = [createdAt EXCEPT ![m] = now]
    BY <1>2 DEF CreateNotification
  <2> QED BY <1>1, <2>1
<1>3. ASSUME NEW j \in Jobs, Insert(j)
      PROVE  /\ createdAt'[n] = createdAt[n]
             /\ state'[n] = state[n] \/ (state[n] = "made" /\ state'[n] = "unread")
  <2>1. state[job[j].note] = "made"
    BY <1>3 DEF NotesType, NotesTypeOK, Insert, JobAt
  <2>2. state' = [state EXCEPT ![job[j].note] = "unread"] /\ createdAt' = createdAt
    BY <1>3 DEF Insert
  <2> QED BY <1>1, <2>1, <2>2
<1>4. ASSUME NEW j \in Jobs, DeleteExcess(j)
      PROVE  /\ createdAt'[n] = createdAt[n]
             /\ state'[n] = state[n]
                \/ (state'[n] = "pruned" /\ JobAt(j, "delete") /\ n \in job[j].ids)
  BY <1>1, <1>4 DEF DeleteExcess
<1>5. ASSUME NEW j \in Jobs, StartScript(j) \/ FindExcess(j) \/ JobFails(j)
      PROVE  state' = state /\ createdAt' = createdAt
  BY <1>5 DEF StartScript, FindExcess, JobFails
<1>6. CASE SaveMarked
  <2>1. /\ state' = [state EXCEPT ![marking] = Marked(state[marking])] /\ createdAt' = createdAt
        /\ state[marking] \in {"unread", "read", "pruned"}
    BY <1>6 DEF SaveMarked, NotesType
  <2>2. \/ state[marking] = "unread" /\ Marked(state[marking]) = "read"
        \/ Marked(state[marking]) = state[marking]
    BY <2>1 DEF Marked
  <2> QED BY <1>1, <2>1, <2>2
<1>7. CASE MarkAllRead
  BY <1>1, <1>7 DEF MarkAllRead, Present
<1>8. CASE (\E m \in Notes : FindToMark(m)) \/ StillStep
  BY <1>8 DEF FindToMark, StillStep, noteVars
<1> QED BY <1>2, <1>3, <1>4, <1>5, <1>6, <1>7, <1>8 DEF JobStep, PageStep

LEMMA SeenGrows ==
  ASSUME NotesType, (\E j \in Jobs : JobStep(j)) \/ PageStep \/ StillStep
  PROVE  /\ \A m \in Seen : m \in Seen' /\ createdAt'[m] = createdAt[m]
         /\ \A n \in Seen : Newer(n) \subseteq Newer(n)'
<1>1. \A m \in Notes : state[m] \in {"unread", "read", "pruned"} =>
            state'[m] \in {"unread", "read", "pruned"} /\ createdAt'[m] = createdAt[m]
  BY DocumentSteps
<1> QED BY <1>1 DEF Seen, Newer

LEMMA NotesTypeStep ==
  ASSUME NotesType, JobsFit, (\E j \in Jobs : JobStep(j)) \/ PageStep \/ StillStep
  PROVE  NotesType'
<1>1. /\ state \in [Notes -> {"new", "made", "unread", "read", "pruned"}]
      /\ createdAt \in [Notes -> Nat] /\ job \in [Jobs -> Job] /\ now \in Nat
      /\ marking \in Notes \cup {NoNote} /\ noteFaults \in 0..MaxFaults
  BY DEF NotesType, NotesTypeOK
<1> DEFINE InsertsFit(f, st) ==
             /\ f \in [Jobs -> Job]
             /\ \A j \in Jobs : f[j].pc = "insert" => f[j].note \in Notes /\ st[f[j].note] = "made"
             /\ \A i, j \in Jobs : f[i].pc = "insert" /\ f[j].pc = "insert"
                                     /\ f[i].note = f[j].note => i = j
<1>2. InsertsFit(job, state)
  BY DEF NotesType, NotesTypeOK, JobAt
<1>3. now' \in Nat
  <2>1. now' = now \/ now' = now + 1
    BY DEF JobStep, PageStep, StillStep, CreateNotification, StartScript, Insert, FindExcess,
       DeleteExcess, JobFails, FindToMark, SaveMarked, MarkAllRead, Tick
  <2> QED BY <1>1, <2>1
<1>4. noteFaults' \in 0..MaxFaults
  <2>1. noteFaults' = noteFaults \/ (noteFaults < MaxFaults /\ noteFaults' = noteFaults + 1)
    BY DEF JobStep, PageStep, StillStep, CreateNotification, StartScript, Insert, FindExcess,
       DeleteExcess, JobFails, FindToMark, SaveMarked, MarkAllRead, noteVars
  <2> QED BY <1>1, <2>1
<1>5. /\ marking' \in Notes \cup {NoNote}
      /\ marking' # NoNote => state'[marking'] \in {"unread", "read", "pruned"}
  <2>1. CASE marking' = marking
    <3>1. marking # NoNote => marking \in Seen
      BY <1>1 DEF NotesType, Seen
    <3> QED BY <1>1, <2>1, <3>1, SeenGrows DEF Seen
  <2>2. ASSUME NEW n \in Notes, FindToMark(n)
        PROVE  marking' \in Notes /\ state'[marking'] \in {"unread", "read", "pruned"}
    BY <2>2 DEF FindToMark, Present
  <2>3. SaveMarked => marking' = NoNote
    BY DEF SaveMarked
  <2>4. ASSUME NEW j \in Jobs, JobStep(j) PROVE marking' = marking
    BY <2>4 DEF JobStep, CreateNotification, StartScript, Insert, FindExcess, DeleteExcess, JobFails
  <2>5. MarkAllRead \/ StillStep => marking' = marking
    BY DEF MarkAllRead, StillStep, noteVars
  <2> QED BY <2>1, <2>2, <2>3, <2>4, <2>5 DEF PageStep
<1>6. state' \in [Notes -> {"new", "made", "unread", "read", "pruned"}]
      /\ createdAt' \in [Notes -> Nat]
  <2>1. ASSUME NEW j \in Jobs, JobStep(j)
        PROVE  state' \in [Notes -> {"new", "made", "unread", "read", "pruned"}]
               /\ createdAt' \in [Notes -> Nat]
    <3>1. ASSUME NEW n \in Notes, CreateNotification(j, n)
          PROVE  state' \in [Notes -> {"new", "made", "unread", "read", "pruned"}]
                 /\ createdAt' \in [Notes -> Nat]
      BY <1>1, <3>1 DEF CreateNotification
    <3>2. CASE Insert(j)
      BY <1>1, <3>2 DEF Insert
    <3>3. CASE DeleteExcess(j)
      BY <1>1, <3>3 DEF DeleteExcess
    <3>4. CASE StartScript(j) \/ FindExcess(j) \/ JobFails(j)
      BY <1>1, <3>4 DEF StartScript, FindExcess, JobFails
    <3> QED BY <2>1, <3>1, <3>2, <3>3, <3>4 DEF JobStep
  <2>2. CASE PageStep
    BY <1>1, <2>2 DEF PageStep, FindToMark, SaveMarked, MarkAllRead, Marked
  <2>3. CASE StillStep
    BY <1>1, <2>3 DEF StillStep, noteVars
  <2> QED BY <2>1, <2>2, <2>3
<1>7. InsertsFit(job', state')
  <2>1. ASSUME NEW j \in Jobs, NEW r \in Job, job' = [job EXCEPT ![j] = r],
               \A n \in Notes : state[n] = "made" =>
                    state'[n] = "made" \/ (JobAt(j, "insert") /\ job[j].note = n),
               r.pc = "insert" => r.note \in Notes /\ state[r.note] = "new" /\ state'[r.note] = "made"
        PROVE  InsertsFit(job', state')
    <3>1. job'[j] = r /\ \A i \in Jobs : i # j => job'[i] = job[i]
      BY <1>1, <2>1
    <3>2. \A i \in Jobs : i # j /\ job[i].pc = "insert" =>
            /\ job[i].note \in Notes /\ state[job[i].note] = "made" /\ state'[job[i].note] = "made"
      BY <1>2, <2>1 DEF JobAt
    <3>3. job' \in [Jobs -> Job]
      BY <1>1, <2>1
    <3>4. \A i \in Jobs : job'[i].pc = "insert" => job'[i].note \in Notes /\ state'[job'[i].note] = "made"
      BY <2>1, <3>1, <3>2
    <3>5. \A i \in Jobs : i # j /\ job[i].pc = "insert" /\ r.pc = "insert" => job[i].note # r.note
      BY <2>1, <3>2
    <3>6. \A i, k \in Jobs : job'[i].pc = "insert" /\ job'[k].pc = "insert"
                               /\ job'[i].note = job'[k].note => i = k
      BY <1>2, <3>1, <3>5
    <3> QED BY <3>3, <3>4, <3>6
  <2>2. ASSUME job' = job, \A n \in Notes : state[n] = "made" => state'[n] = "made"
        PROVE  InsertsFit(job', state')
    BY <1>2, <2>2
  <2> HIDE DEF InsertsFit
  <2>3. IdleJob \in Job /\ IdleJob.pc = "idle"
        /\ [IdleJob EXCEPT !.pc = "find"] \in Job /\ [IdleJob EXCEPT !.pc = "find"].pc = "find"
    BY DEF IdleJob, Job
  <2>4. ASSUME NEW j \in Jobs, NEW n \in Notes, CreateNotification(j, n)
        PROVE  InsertsFit(job', state')
    <3> DEFINE r == [job[j] EXCEPT !.pc = "insert", !.note = n]
    <3>1. r \in Job /\ r.note = n /\ job[j] \in Job
      BY <1>1 DEF Job
    <3>2. job' = [job EXCEPT ![j] = r]
      BY <2>4, Zenon DEF CreateNotification
    <3>3. state[n] = "new" /\ state' = [state EXCEPT ![n] = "made"]
      BY <2>4 DEF CreateNotification
    <3> HIDE DEF r
    <3> QED BY <1>1, <2>1, <3>1, <3>2, <3>3
  <2>5. ASSUME NEW j \in Jobs, Insert(j) PROVE InsertsFit(job', state')
    <3>1. /\ job' = [job EXCEPT ![j] = [IdleJob EXCEPT !.pc = "find"]] /\ JobAt(j, "insert")
          /\ state' = [state EXCEPT ![job[j].note] = "unread"]
      BY <2>5, Zenon DEF Insert, AfterInsert
    <3> QED BY <1>1, <2>1, <2>3, <3>1
  <2>6. ASSUME NEW j \in Jobs, StartScript(j) PROVE InsertsFit(job', state')
    <3> DEFINE r == [job[j] EXCEPT !.pc = "find"]
    <3>1. r \in Job /\ r.pc = "find"
      BY <1>1 DEF Job
    <3>2. job' = [job EXCEPT ![j] = r] /\ state' = state
      BY <2>6, Zenon DEF StartScript
    <3> HIDE DEF r
    <3> QED BY <2>1, <3>1, <3>2
  <2>7. ASSUME NEW j \in Jobs, FindExcess(j) PROVE InsertsFit(job', state')
    <3>1. PICK excess \in SUBSET Present :
            job' = [job EXCEPT ![j] = IF excess = {} THEN IdleJob
                                      ELSE [job[j] EXCEPT !.pc = "delete", !.ids = excess]]
      BY <2>7, Zenon DEF FindExcess
    <3> DEFINE r == IF excess = {} THEN IdleJob ELSE [job[j] EXCEPT !.pc = "delete", !.ids = excess]
    <3>2. r \in Job /\ r.pc # "insert"
      BY <1>1, <2>3, <3>1 DEF Job, Present
    <3>3. job' = [job EXCEPT ![j] = r] /\ state' = state
      BY <2>7, <3>1 DEF FindExcess
    <3> HIDE DEF r
    <3> QED BY <2>1, <3>2, <3>3
  <2>8. ASSUME NEW j \in Jobs, DeleteExcess(j) PROVE InsertsFit(job', state')
    <3>1. \A n \in job[j].ids : state[n] # "made"
      BY <2>8 DEF DeleteExcess, JobsFit, Seen
    <3>2. /\ job' = [job EXCEPT ![j] = IdleJob]
          /\ \A n \in Notes : state[n] = "made" => state'[n] = "made"
      BY <2>8, <3>1 DEF DeleteExcess
    <3> QED BY <2>1, <2>3, <3>2
  <2>9. ASSUME NEW j \in Jobs, JobFails(j) PROVE InsertsFit(job', state')
    BY <2>1, <2>3, <2>9 DEF JobFails
  <2>10. PageStep \/ StillStep => InsertsFit(job', state')
    <3>1. PageStep \/ StillStep => job' = job
      BY DEF PageStep, FindToMark, SaveMarked, MarkAllRead, StillStep, noteVars
    <3>2. PageStep \/ StillStep => \A n \in Notes : state[n] = "made" => state'[n] = "made"
      <4>1. SaveMarked => \A n \in Notes : state[n] = "made" => state'[n] = "made"
        BY <1>1 DEF SaveMarked, NotesType
      <4>2. MarkAllRead => \A n \in Notes : state[n] = "made" => state'[n] = "made"
        BY DEF MarkAllRead, Present
      <4>3. (\E n \in Notes : FindToMark(n)) \/ StillStep => state' = state
        BY DEF FindToMark, StillStep, noteVars
      <4> QED BY <4>1, <4>2, <4>3 DEF PageStep
    <3> QED BY <2>2, <3>1, <3>2
  <2> QED BY <2>4, <2>5, <2>6, <2>7, <2>8, <2>9, <2>10 DEF JobStep
<1> QED BY <1>3, <1>4, <1>5, <1>6, <1>7 DEF NotesType, NotesTypeOK, JobAt

LEMMA PresentFinite ==
  ASSUME NEW S, S \subseteq Notes
  PROVE  IsFiniteSet(S) /\ Cardinality(S) \in Nat
BY NotesFinite

\* How a job goes on.
LEMMA JobSteps ==
  ASSUME NotesType, NEW j \in Jobs, JobStep(j)
  PROVE  /\ \A i \in Jobs : i # j => job'[i] = job[i]
         /\ \/ job'[j].pc = "insert" /\ JobAt(j, "idle")
            \/ job'[j].pc = "find"
            \/ JobAt(j, "find") /\ FindExcess(j)
            \/ JobAt(j, "delete") /\ DeleteExcess(j) /\ job'[j].pc = "idle"
            \/ JobFails(j) /\ job'[j].pc = "idle"
<1>1. job \in [Jobs -> Job] /\ job[j] \in Job
  BY DEF NotesType, NotesTypeOK
<1>2. IdleJob.pc = "idle" /\ [IdleJob EXCEPT !.pc = "find"].pc = "find"
  BY DEF IdleJob
<1>3. ASSUME NEW n \in Notes, CreateNotification(j, n)
      PROVE  /\ \A i \in Jobs : i # j => job'[i] = job[i]
             /\ job'[j].pc = "insert" /\ JobAt(j, "idle")
  <2>1. /\ job' = [job EXCEPT ![j] = [job[j] EXCEPT !.pc = "insert", !.note = n]]
        /\ JobAt(j, "idle")
    BY <1>3, Zenon DEF CreateNotification
  <2>2. [job[j] EXCEPT !.pc = "insert", !.note = n].pc = "insert"
    BY <1>1 DEF Job
  <2> QED BY <1>1, <2>1, <2>2
<1>4. CASE StartScript(j)
  <2>1. job' = [job EXCEPT ![j] = [job[j] EXCEPT !.pc = "find"]]
    BY <1>4, Zenon DEF StartScript
  <2>2. [job[j] EXCEPT !.pc = "find"].pc = "find"
    BY <1>1 DEF Job
  <2> QED BY <1>1, <2>1, <2>2
<1>5. CASE Insert(j)
  BY <1>1, <1>2, <1>5 DEF Insert, AfterInsert
<1>6. CASE FindExcess(j)
  <2>1. JobAt(j, "find") /\ \E r : job' = [job EXCEPT ![j] = r]
    BY <1>6, Zenon DEF FindExcess
  <2> QED BY <1>1, <1>6, <2>1
<1>7. CASE DeleteExcess(j) \/ JobFails(j)
  BY <1>1, <1>2, <1>7 DEF DeleteExcess, JobFails
<1> QED BY <1>3, <1>4, <1>5, <1>6, <1>7 DEF JobStep

\* What the query finds: as many newer documents as are retained are left out.
LEMMA Found ==
  ASSUME NotesType, NEW j \in Jobs, FindExcess(j)
  PROVE  \E excess \in SUBSET Present :
           /\ Cardinality(Present \ excess) <= Retention
           /\ \/ excess = {} /\ job'[j].pc = "idle"
              \/ job'[j].pc = "delete" /\ job'[j].ids = excess
           /\ \A n \in excess : Cardinality(Newer(n)) >= Retention
<1>1. job \in [Jobs -> Job] /\ job[j] \in Job
  BY DEF NotesType, NotesTypeOK
<1>2. PICK excess \in SUBSET Present :
        /\ Sorted(Present \ excess, excess)
        /\ IF Cardinality(Present) <= Skipped THEN excess = {}
           ELSE Cardinality(Present \ excess) = Skipped
        /\ job' = [job EXCEPT ![j] = IF excess = {} THEN IdleJob
                                     ELSE [job[j] EXCEPT !.pc = "delete", !.ids = excess]]
  BY Zenon DEF FindExcess
<1>3. Cardinality(Present \ excess) <= Retention
  <2>1. CASE excess = {}
    <3>1. Present \ {} = Present
      OBVIOUS
    <3> QED BY <1>2, <2>1, <3>1 DEF Skipped
  <2>2. CASE excess # {}
    BY <1>2, <2>2 DEF Skipped
  <2> QED BY <2>1, <2>2
<1>4. \/ excess = {} /\ job'[j].pc = "idle"
      \/ job'[j].pc = "delete" /\ job'[j].ids = excess
  <2>1. IdleJob.pc = "idle"
    BY DEF IdleJob
  <2>2. /\ [job[j] EXCEPT !.pc = "delete", !.ids = excess].pc = "delete"
        /\ [job[j] EXCEPT !.pc = "delete", !.ids = excess].ids = excess
    BY <1>1 DEF Job
  <2> QED BY <1>1, <1>2, <2>1, <2>2
<1>5. ASSUME NEW n \in excess PROVE Cardinality(Newer(n)) >= Retention
  <2>1. Cardinality(Present \ excess) = Retention
    BY <1>2, <1>5 DEF Skipped
  <2>2. Present \ excess \subseteq Newer(n)
    BY <1>2, <1>5 DEF Present, Newer, Sorted
  <2>3. Newer(n) \in SUBSET Notes /\ Present \ excess \in SUBSET Newer(n)
    BY <2>2 DEF Newer
  <2>4. Cardinality(Present \ excess) <= Cardinality(Newer(n)) /\ Cardinality(Newer(n)) \in Nat
    BY <2>3, NotesFinite
  <2> QED BY <2>1, <2>4
<1> QED BY <1>3, <1>4, <1>5

LEMMA JobsFitStep ==
  ASSUME NotesType, JobsFit, (\E j \in Jobs : JobStep(j)) \/ PageStep \/ StillStep
  PROVE  JobsFit'
<1>1. \A m \in Seen : m \in Seen' /\ createdAt'[m] = createdAt[m]
  BY SeenGrows
<1>2. ASSUME NEW n \in Seen, Cardinality(Newer(n)) >= Retention
      PROVE  n \in Seen' /\ Cardinality(Newer(n)') >= Retention
  <2>1. Newer(n) \subseteq Newer(n)' /\ Newer(n)' \in SUBSET Notes
    BY SeenGrows DEF Newer
  <2>2. /\ Cardinality(Newer(n)) <= Cardinality(Newer(n)')
        /\ Cardinality(Newer(n)) \in Nat /\ Cardinality(Newer(n)') \in Nat
    BY <2>1, NotesFinite
  <2> QED BY <1>1, <1>2, <2>2
<1>3. SUFFICES ASSUME NEW i \in Jobs, job'[i].pc = "delete", NEW n \in job'[i].ids
               PROVE  n \in Seen' /\ Cardinality(Newer(n)') >= Retention
  BY DEF JobsFit, JobAt
<1>4. CASE job'[i] = job[i]
  BY <1>2, <1>3, <1>4 DEF JobsFit, JobAt
<1>5. CASE FindExcess(i)
  <2>1. n \in Present /\ Cardinality(Newer(n)) >= Retention
    BY <1>3, <1>5, Found
  <2>2. n \in Seen
    BY <2>1 DEF Present, Seen
  <2> QED BY <1>2, <2>1, <2>2
<1>6. PageStep \/ StillStep => job' = job
  BY DEF PageStep, FindToMark, SaveMarked, MarkAllRead, StillStep, noteVars
<1> QED BY <1>3, <1>4, <1>5, <1>6, JobSteps

\* Every document that is inserted is followed by a look, and every look leaves no more
\* than are retained to those that nobody is about to delete.
LEMMA RoomStep ==
  ASSUME NotesType, JobsFit, Room, (\E j \in Jobs : JobStep(j)) \/ PageStep \/ StillStep
  PROVE  Room'
<1>1. ASSUME job' = job, noteFaults' = noteFaults, Present' \subseteq Present PROVE Room'
  <2>1. Doomed' = Doomed /\ ((\E j \in Jobs : JobAt(j, "find"))' <=> \E j \in Jobs : JobAt(j, "find"))
    BY <1>1 DEF Doomed, JobAt
  <2>2. Present' \ Doomed' \in SUBSET (Present \ Doomed) /\ Present \ Doomed \in SUBSET Notes
    BY <1>1, <2>1 DEF Present
  <2>3. Cardinality(Present' \ Doomed') <= Cardinality(Present \ Doomed)
        /\ Cardinality(Present \ Doomed) \in Nat /\ Cardinality(Present' \ Doomed') \in Nat
    BY <2>2, NotesFinite
  <2> QED BY <1>1, <2>1, <2>3 DEF Room
<1>2. CASE PageStep
  <2>1. job' = job /\ noteFaults' = noteFaults
    BY <1>2 DEF PageStep, FindToMark, SaveMarked, MarkAllRead
  <2>2. Present' \subseteq Present
    <3>1. CASE SaveMarked
      <4>1. /\ state' = [state EXCEPT ![marking] = Marked(state[marking])]
            /\ state[marking] \in {"unread", "read", "pruned"}
        BY <3>1 DEF SaveMarked, NotesType
      <4>2. state[marking] = "pruned" => Marked(state[marking]) = "pruned"
        BY DEF Marked
      <4> QED BY <4>1, <4>2 DEF Present, NotesType, NotesTypeOK
    <3>2. CASE MarkAllRead \/ \E n \in Notes : FindToMark(n)
      BY <3>2 DEF MarkAllRead, FindToMark, Present
    <3> QED BY <1>2, <3>1, <3>2 DEF PageStep
  <2> QED BY <1>1, <2>1, <2>2
<1>3. CASE StillStep
  BY <1>1, <1>3 DEF StillStep, noteVars, Present
<1>4. ASSUME NEW j \in Jobs, JobStep(j) PROVE Room'
  <2>1. \A i \in Jobs : i # j => job'[i] = job[i]
    BY <1>4, JobSteps
  <2>2. CASE job'[j].pc = "find"
    BY <2>2 DEF Room, JobAt
  <2>3. CASE JobFails(j)
    BY <2>3 DEF JobFails, Room, NotesType, NotesTypeOK
  <2>4. CASE FindExcess(j)
    <3>1. PICK excess \in SUBSET Present :
            /\ Cardinality(Present \ excess) <= Retention
            /\ \/ excess = {} /\ job'[j].pc = "idle"
               \/ job'[j].pc = "delete" /\ job'[j].ids = excess
      BY <2>4, Found
    <3>2. state' = state
      BY <2>4 DEF FindExcess
    <3>3. Present' = Present /\ excess \subseteq Doomed'
      BY <3>1, <3>2 DEF Present, Doomed, JobAt
    <3>4. Present' \ Doomed' \in SUBSET (Present \ excess) /\ Present \ excess \in SUBSET Notes
      BY <3>3 DEF Present
    <3>5. Cardinality(Present' \ Doomed') <= Cardinality(Present \ excess)
          /\ Cardinality(Present \ excess) \in Nat /\ Cardinality(Present' \ Doomed') \in Nat
      BY <3>4, NotesFinite
    <3> QED BY <3>1, <3>5 DEF Room
  <2>5. ASSUME noteFaults' = noteFaults, Present' \ Doomed' \subseteq Present \ Doomed,
               ~JobAt(j, "find")
        PROVE  Room'
    <3>1. (\E i \in Jobs : JobAt(i, "find")) => \E i \in Jobs : job'[i].pc = "find"
      BY <2>1, <2>5 DEF JobAt
    <3>2. Present' \ Doomed' \in SUBSET (Present \ Doomed) /\ Present \ Doomed \in SUBSET Notes
      BY <2>5 DEF Present
    <3>3. Cardinality(Present' \ Doomed') <= Cardinality(Present \ Doomed)
          /\ Cardinality(Present \ Doomed) \in Nat /\ Cardinality(Present' \ Doomed') \in Nat
      BY <3>2, NotesFinite
    <3> QED BY <2>5, <3>1, <3>3 DEF Room, JobAt
  <2>6. CASE JobAt(j, "delete") /\ DeleteExcess(j)
    <3>1. /\ state' = [n \in Notes |-> IF n \in job[j].ids THEN "pruned" ELSE state[n]]
          /\ noteFaults' = noteFaults
      BY <2>6 DEF DeleteExcess
    <3>2. Present' \subseteq Present \ job[j].ids
      BY <3>1 DEF Present
    <3>3. Doomed \ job[j].ids \subseteq Doomed'
      BY <2>1 DEF Doomed, JobAt
    <3>4. Present' \ Doomed' \subseteq Present \ Doomed
      BY <3>2, <3>3
    <3> QED BY <2>5, <2>6, <3>1, <3>4 DEF JobAt
  <2>7. CASE job'[j].pc = "insert" /\ JobAt(j, "idle")
    <3>1. \E n \in Notes : CreateNotification(j, n)
      <4>1. /\ Insert(j) => JobAt(j, "insert")
            /\ FindExcess(j) => JobAt(j, "find")
            /\ DeleteExcess(j) => JobAt(j, "delete")
            /\ JobFails(j) => ~JobAt(j, "idle")
        BY Zenon DEF Insert, FindExcess, DeleteExcess, JobFails
      <4>2. StartScript(j) => job'[j].pc = "find"
        <5>1. StartScript(j) => job' = [job EXCEPT ![j] = [job[j] EXCEPT !.pc = "find"]]
          BY Zenon DEF StartScript
        <5> QED BY <5>1 DEF NotesType, NotesTypeOK, Job
      <4> QED BY <1>4, <2>7, <4>1, <4>2 DEF JobStep, JobAt
    <3>2. PICK n \in Notes : CreateNotification(j, n)
      BY <3>1
    <3>3. state' = [state EXCEPT ![n] = "made"] /\ noteFaults' = noteFaults
      BY <3>2 DEF CreateNotification
    <3>4. Present' \subseteq Present
      BY <3>3 DEF Present, NotesType, NotesTypeOK
    <3>5. Doomed \subseteq Doomed'
      BY <2>1, <2>7 DEF Doomed, JobAt
    <3> QED BY <2>5, <2>7, <3>3, <3>4, <3>5 DEF JobAt
  <2> QED BY <1>4, <2>2, <2>3, <2>4, <2>6, <2>7, JobSteps
<1> QED BY <1>2, <1>3, <1>4

LEMMA NotesSteps ==
  ASSUME [NotesNext \/ (Tick /\ UNCHANGED noteVars)]_<<now, noteVars>>
  PROVE  (\E j \in Jobs : JobStep(j)) \/ PageStep \/ StillStep
BY DEF NotesNext, NotificationsPage, JobStep, PageStep, StillStep

LEMMA NotesStart == now = 0 /\ NotesInit => NotesInv
<1> SUFFICES ASSUME now = 0, NotesInit PROVE NotesInv
  OBVIOUS
<1>1. /\ state = [n \in Notes |-> "new"] /\ createdAt = [n \in Notes |-> 0]
      /\ job = [j \in Jobs |-> IdleJob] /\ marking = NoNote /\ noteFaults = 0
  BY DEF NotesInit
<1>2. IdleJob \in Job /\ IdleJob.pc = "idle"
  BY DEF IdleJob, Job
<1>3. NotesType
  BY <1>1, <1>2 DEF NotesType, NotesTypeOK, JobAt
<1>4. JobsFit
  BY <1>1, <1>2 DEF JobsFit, JobAt
<1>5. Room
  <2>1. Present \ Doomed = {}
    BY <1>1 DEF Present
  <2>2. Cardinality(Present \ Doomed) = 0
    BY <2>1, FS_EmptySet
  <2> QED BY <2>2 DEF Room
<1> QED BY <1>3, <1>4, <1>5 DEF NotesInv

LEMMA NotesInvariant == NotesSpec => []NotesInv
<1>1. NotesInv /\ [NotesNext \/ (Tick /\ UNCHANGED noteVars)]_<<now, noteVars>> => NotesInv'
  BY NotesSteps, NotesTypeStep, JobsFitStep, RoomStep DEF NotesInv
<1> QED BY <1>1, NotesStart, PTL DEF NotesSpec

\* When every job is done and none failed, no more notifications are left than are retained,
\* however many jobs overlapped (prune.ts:5-16).
THEOREM RetentionKept == NotesSpec => []RetentionHolds
<1>1. NotesInv => RetentionHolds
  <2> SUFFICES ASSUME NotesInv, noteFaults = 0, \A j \in Jobs : JobAt(j, "idle")
               PROVE  Cardinality(Present) <= Retention
    BY DEF RetentionHolds
  <2>1. Present \ Doomed = Present
    BY DEF Doomed, JobAt
  <2> QED BY <2>1 DEF NotesInv, Room, JobAt
<1> QED BY <1>1, NotesInvariant, PTL

\* Although a job deletes what it found some time before, it only takes a document when as many
\* as are retained were created no earlier (prune.ts:8-14).
THEOREM NewestSpared == NotesSpec => PruneSparesNewest
<1>1. NotesInv /\ [NotesNext \/ (Tick /\ UNCHANGED noteVars)]_<<now, noteVars>> =>
        [\A n \in Notes : state[n] # "pruned" /\ state'[n] = "pruned" =>
            Cardinality({m \in Notes \ {n} : state[m] \in {"unread", "read", "pruned"}
                            /\ createdAt[m] >= createdAt[n]}) >= Retention]_state
  <2> SUFFICES ASSUME NotesInv, (\E j \in Jobs : JobStep(j)) \/ PageStep \/ StillStep,
                      NEW n \in Notes, state[n] # "pruned", state'[n] = "pruned"
               PROVE  Cardinality(Newer(n)) >= Retention
    BY NotesSteps DEF Newer
  <2>1. \E j \in Jobs : JobAt(j, "delete") /\ n \in job[j].ids
    BY DocumentSteps DEF NotesInv
  <2> QED BY <2>1 DEF NotesInv, JobsFit
<1> QED BY <1>1, NotesInvariant, PTL DEF NotesSpec, PruneSparesNewest

\* No notification that was read or pruned comes back, whatever markRead saves after a job
\* has deleted it (notificationsController.ts:38-46).
THEOREM NeverComesBack == NotesSpec => NeverBack
<1>1. NotesInv /\ [NotesNext \/ (Tick /\ UNCHANGED noteVars)]_<<now, noteVars>> =>
        [\A n \in Notes :
            /\ state[n] = "pruned" => state'[n] = "pruned"
            /\ state[n] = "read" => state'[n] \in {"read", "pruned"}]_state
  BY NotesSteps, DocumentSteps DEF NotesInv
<1> QED BY <1>1, NotesInvariant, PTL DEF NotesSpec, NeverBack
-----------------------------------------------------------------------------
(* The log of a test run.                                                  *)

HIDE DEF ClockAssumption, WindowsAssumption, NotificationsAssumption
USE TextsAssumption DEF TextsAssumption

Bytes(text) == {b \in (DOMAIN text) \X (1..3) : b[2] <= Width(text[b[1]])}

LEMMA UnitWidths ==
  /\ \A u \in Units : Width(u) \in 1..3
  /\ \A u \in Units : u # Broken => u \in Widths /\ Width(u) = u
  /\ Width(1) = 1 /\ Width(Broken) = 3 /\ Broken \in Units /\ Widths \subseteq Units
<1>1. \A u \in Units : u = Broken \/ (u # Broken /\ u \in 1..3 /\ u \in Widths)
  BY DEF Units
<1> QED BY <1>1 DEF Width, Broken, Units

LEMMA UpTo ==
  ASSUME NEW n \in Nat
  PROVE  IsFiniteSet(1..n) /\ Cardinality(1..n) = n
<1>1. n \in Int /\ 1 \in Int /\ n >= 0
  OBVIOUS
<1>2. IsFiniteSet(1..n) /\ Cardinality(1..n) = IF 1 > n THEN 0 ELSE n - 1 + 1
  BY <1>1, FS_Interval
<1> QED BY <1>1, <1>2

LEMMA BytesFinite ==
  ASSUME NEW text \in Seq(Units)
  PROVE  IsFiniteSet(Bytes(text))
<1>1. DOMAIN text = 1..Len(text) /\ Len(text) \in Nat
  OBVIOUS
<1>2. IsFiniteSet(1..Len(text)) /\ IsFiniteSet(1..3)
  BY <1>1, UpTo
<1>3. IsFiniteSet((1..Len(text)) \X (1..3))
  BY <1>2, FS_Product
<1>4. Bytes(text) \subseteq (1..Len(text)) \X (1..3)
  BY <1>1 DEF Bytes
<1> QED BY <1>3, <1>4, FS_Subset

\* A text has one to three bytes for every unit, and one if each unit has one.
LEMMA BytesAndUnits ==
  ASSUME NEW text \in Seq(Units)
  PROVE  /\ ByteLength(text) \in Nat /\ Len(text) <= ByteLength(text)
         /\ ByteLength(text) <= 3 * Len(text)
         /\ (\A i \in DOMAIN text : text[i] = 1) => ByteLength(text) = Len(text)
<1> DEFINE first == (1..Len(text)) \X {1}
<1>1. DOMAIN text = 1..Len(text) /\ Len(text) \in Nat
  OBVIOUS
<1>2. IsFiniteSet(1..Len(text)) /\ Cardinality(1..Len(text)) = Len(text)
  BY <1>1, UpTo
<1>3. IsFiniteSet(first) /\ Cardinality(first) = Len(text)
  <2>1. IsFiniteSet({1}) /\ Cardinality({1}) = 1
    BY FS_Singleton
  <2>2. /\ IsFiniteSet((1..Len(text)) \X {1})
        /\ Cardinality((1..Len(text)) \X {1}) = Cardinality(1..Len(text)) * Cardinality({1})
    BY <1>2, <2>1, FS_Product
  <2>3. Cardinality(first) = Len(text) * 1
    BY <1>2, <2>1, <2>2
  <2> QED BY <1>1, <2>2, <2>3
<1>4. /\ IsFiniteSet((1..Len(text)) \X (1..3))
      /\ Cardinality((1..Len(text)) \X (1..3)) = 3 * Len(text)
  <2>1. IsFiniteSet(1..3) /\ Cardinality(1..3) = 3
    BY UpTo
  <2>2. Cardinality((1..Len(text)) \X (1..3)) = Cardinality(1..Len(text)) * Cardinality(1..3)
    BY <1>2, <2>1, FS_Product
  <2>3. Cardinality((1..Len(text)) \X (1..3)) = Len(text) * 3
    BY <1>2, <2>1, <2>2
  <2> QED BY <1>1, <1>2, <2>1, <2>3, FS_Product
<1>5. Bytes(text) \subseteq (1..Len(text)) \X (1..3)
  BY <1>1 DEF Bytes
<1>6. /\ IsFiniteSet(Bytes(text)) /\ Cardinality(Bytes(text)) \in Nat
      /\ Cardinality(Bytes(text)) <= 3 * Len(text)
  <2>1. Cardinality(Bytes(text)) <= Cardinality((1..Len(text)) \X (1..3))
    BY <1>4, <1>5, FS_Subset
  <2>2. IsFiniteSet(Bytes(text))
    BY BytesFinite
  <2>3. Cardinality(Bytes(text)) \in Nat
    BY <2>2, FS_CardinalityType
  <2>4. Cardinality(Bytes(text)) <= 3 * Len(text)
    BY <1>4, <2>1, Zenon
  <2> QED BY <2>2, <2>3, <2>4
<1>7. \A i \in 1..Len(text) : Width(text[i]) \in 1..3
  <2>1. \A i \in 1..Len(text) : text[i] \in Units
    OBVIOUS
  <2> QED BY <2>1, UnitWidths, Zenon
<1>8. first \subseteq Bytes(text)
  BY <1>1, <1>7 DEF Bytes
<1>9. Len(text) <= Cardinality(Bytes(text))
  BY <1>3, <1>6, <1>8, FS_Subset
<1>10. ASSUME \A i \in DOMAIN text : text[i] = 1 PROVE Bytes(text) = first
  <2>1. Width(1) = 1
    BY UnitWidths
  <2>2. \A i \in 1..Len(text) : Width(text[i]) = 1
    BY <1>1, <1>10, <2>1
  <2> QED BY <1>1, <1>8, <2>2 DEF Bytes
<1>11. ByteLength(text) = Cardinality(Bytes(text))
  BY Zenon DEF ByteLength, Bytes
<1> HIDE DEF first
<1> QED BY <1>1, <1>3, <1>6, <1>9, <1>10, <1>11

\* The bytes of two texts are those of the one, and those of the other behind them.
LEMMA BytesAdd ==
  ASSUME NEW s \in Seq(Units), NEW t \in Seq(Units)
  PROVE  s \o t \in Seq(Units) /\ ByteLength(s \o t) = ByteLength(s) + ByteLength(t)
<1> DEFINE m == Len(s)
           n == Len(t)
           moved == {<<b[1] + m, b[2]>> : b \in Bytes(t)}
           move == [b \in Bytes(t) |-> <<b[1] + m, b[2]>>]
<1>1. /\ s \o t \in Seq(Units) /\ Len(s \o t) = m + n /\ m \in Nat /\ n \in Nat
      /\ DOMAIN s = 1..m /\ DOMAIN t = 1..n /\ DOMAIN (s \o t) = 1..(m + n)
  OBVIOUS
<1>2. /\ \A i \in 1..m : (s \o t)[i] = s[i]
      /\ \A i \in 1..n : (s \o t)[i + m] = t[i]
  <2>1. ASSUME NEW i \in 1..n PROVE (s \o t)[i + m] = t[i]
    <3> DEFINE k == i + m
    <3>1. k \in 1..(m + n) /\ k > m /\ k - m = i
      BY <1>1
    <3> HIDE DEF k
    <3>2. (s \o t)[k] = t[k - m]
      BY <1>1, <3>1
    <3> QED BY <3>1, <3>2 DEF k
  <2>2. \A i \in 1..m : (s \o t)[i] = s[i]
    BY <1>1
  <2> QED BY <2>1, <2>2
<1>3. \A b \in Bytes(t) : b = <<b[1], b[2]>> /\ b[1] \in 1..n /\ b[2] \in 1..3
  BY <1>1 DEF Bytes
<1>4. \A b \in Bytes(s) : b = <<b[1], b[2]>> /\ b[1] \in 1..m /\ b[2] \in 1..3
  BY <1>1 DEF Bytes
<1> HIDE DEF m, n
<1>5. Bytes(s \o t) = Bytes(s) \cup moved
  <2>1. ASSUME NEW b \in Bytes(s \o t) PROVE b \in Bytes(s) \cup moved
    <3>1. b = <<b[1], b[2]>> /\ b[1] \in 1..(m + n) /\ b[2] \in 1..3
          /\ b[2] <= Width((s \o t)[b[1]])
      BY <1>1 DEF Bytes
    <3>2. CASE b[1] <= m
      <4>1. b[1] \in 1..m /\ b[2] <= Width(s[b[1]])
        BY <1>1, <1>2, <3>1, <3>2
      <4> QED BY <1>1, <3>1, <4>1 DEF Bytes
    <3>3. CASE b[1] > m
      <4> DEFINE c == <<b[1] - m, b[2]>>
      <4>1. b[1] - m \in 1..n /\ b[1] - m + m = b[1]
        BY <1>1, <3>1, <3>3
      <4>2. b[2] <= Width(t[b[1] - m])
        BY <1>2, <3>1, <4>1
      <4>3. c \in Bytes(t) /\ c[1] = b[1] - m /\ c[2] = b[2]
        BY <1>1, <3>1, <4>1, <4>2 DEF Bytes
      <4>4. b = <<c[1] + m, c[2]>>
        BY <3>1, <4>1, <4>3
      <4> QED BY <4>3, <4>4
    <3> QED BY <1>1, <3>1, <3>2, <3>3
  <2>2. ASSUME NEW b \in Bytes(s) PROVE b \in Bytes(s \o t)
    BY <1>1, <1>2 DEF Bytes
  <2>3. ASSUME NEW b \in Bytes(t) PROVE <<b[1] + m, b[2]>> \in Bytes(s \o t)
    <3>1. b[1] \in 1..n /\ b[2] \in 1..3 /\ b[2] <= Width(t[b[1]])
      BY <1>1 DEF Bytes
    <3>2. b[1] + m \in 1..(m + n) /\ b[2] <= Width((s \o t)[b[1] + m])
      BY <1>1, <1>2, <3>1
    <3> QED BY <1>1, <3>1, <3>2 DEF Bytes
  <2> QED BY <2>1, <2>2, <2>3
<1>6. Bytes(s) \cap moved = {}
  <2>1. \A b \in moved : b[1] > m
    BY <1>1, <1>3
  <2>2. \A b \in Bytes(s) : b[1] <= m
    BY <1>1, <1>4
  <2> QED BY <1>1, <1>4, <2>1, <2>2
<1>7. IsFiniteSet(Bytes(s)) /\ IsFiniteSet(Bytes(t))
  BY BytesFinite
<1>8. IsFiniteSet(moved) /\ Cardinality(moved) = Cardinality(Bytes(t))
  <2>1. move \in Bijection(Bytes(t), moved)
    <3>1. move \in [Bytes(t) -> moved]
      OBVIOUS
    <3>2. ASSUME NEW b \in Bytes(t), NEW c \in Bytes(t), move[b] = move[c] PROVE b = c
      <4>1. b[1] + m = c[1] + m /\ b[2] = c[2]
        BY <3>2
      <4>2. b[1] = c[1]
        BY <1>1, <1>3, <4>1
      <4> QED BY <1>3, <4>1, <4>2
    <3>3. \A x \in moved : \E b \in Bytes(t) : move[b] = x
      OBVIOUS
    <3> HIDE DEF move, moved
    <3>4. move \in Injection(Bytes(t), moved)
      BY <3>1, <3>2 DEF Injection, IsInjective
    <3> QED BY <3>1, <3>3, <3>4 DEF Bijection, Surjection
  <2> HIDE DEF move, moved
  <2>2. ExistsBijection(Bytes(t), moved)
    BY <2>1 DEF ExistsBijection
  <2> QED BY <1>7, <2>2, FS_Bijection
<1> HIDE DEF moved
<1>9. Cardinality(Bytes(s) \cup moved) = Cardinality(Bytes(s)) + Cardinality(moved)
  <2>1. /\ IsFiniteSet({}) /\ Cardinality({}) = 0
        /\ Cardinality(Bytes(s)) \in Nat /\ Cardinality(moved) \in Nat
    BY <1>7, <1>8, FS_EmptySet, FS_CardinalityType
  <2>2. Cardinality(Bytes(s) \cup moved)
          = Cardinality(Bytes(s)) + Cardinality(moved) - Cardinality(Bytes(s) \cap moved)
    BY <1>7, <1>8, FS_Union
  <2>3. Cardinality(Bytes(s) \cap moved) = 0
    BY <1>6, <2>1, Zenon
  <2> DEFINE b == Cardinality(Bytes(s))
             c == Cardinality(moved)
             d == Cardinality(Bytes(s) \cap moved)
             e == Cardinality(Bytes(s) \cup moved)
  <2>4. b \in Nat /\ c \in Nat /\ d = 0 /\ e = b + c - d
    BY <2>1, <2>2, <2>3
  <2> HIDE DEF b, c, d, e
  <2>5. e = b + c
    BY <2>4
  <2> QED BY <2>5, Zenon DEF b, c, e
<1>10. \A x : ByteLength(x) = Cardinality(Bytes(x))
  BY Zenon DEF ByteLength, Bytes
<1> QED BY <1>1, <1>5, <1>8, <1>9, <1>10

\* What begins a text, unit by unit.
Begins(s, t) == Len(s) <= Len(t) /\ \A i \in 1..Len(s) : s[i] = t[i]

LEMMA BeginsIsPrefix ==
  ASSUME NEW S, NEW s \in Seq(S), NEW t \in Seq(S), Begins(s, t)
  PROVE  IsPrefix(s, t)
<1>1. Len(s) \in Nat /\ Len(t) \in Nat /\ Len(s) <= Len(t)
  BY DEF Begins
<1>2. SubSeq(s, 1, Len(s)) = [i \in 1..Len(s) |-> s[i]]
  BY <1>1
<1>3. SubSeq(t, 1, Len(s)) = [i \in 1..Len(s) |-> t[i]]
  BY <1>1
<1>4. SubSeq(s, 1, Len(s)) = SubSeq(t, 1, Len(s))
  BY <1>2, <1>3 DEF Begins
<1> QED BY <1>1, <1>4 DEF IsPrefix

\* A text goes on with a chunk, and what is kept of it with a part of the chunk.
LEMMA BeginsGoesOn ==
  ASSUME NEW S, NEW s \in Seq(S), NEW part \in Seq(S), NEW chunk \in Seq(S), Begins(part, chunk)
  PROVE  /\ Begins(s \o part, s \o chunk) /\ s \o part \in Seq(S) /\ s \o chunk \in Seq(S)
         /\ Len(s \o part) = Len(s) + Len(part) /\ Len(s \o chunk) = Len(s) + Len(chunk)
<1>1. /\ s \o part \in Seq(S) /\ s \o chunk \in Seq(S)
      /\ Len(s \o part) = Len(s) + Len(part) /\ Len(s \o chunk) = Len(s) + Len(chunk)
      /\ Len(s) \in Nat /\ Len(part) \in Nat /\ Len(chunk) \in Nat
  OBVIOUS
<1>2. Len(part) <= Len(chunk) /\ \A i \in 1..Len(part) : part[i] = chunk[i]
  BY DEF Begins
<1>3. ASSUME NEW i \in 1..Len(s) + Len(part) PROVE (s \o part)[i] = (s \o chunk)[i]
  <2>1. CASE i <= Len(s)
    BY <1>1, <1>2, <2>1
  <2>2. CASE i > Len(s)
    <3>1. i - Len(s) \in 1..Len(part)
      BY <1>1, <2>2
    <3>2. (s \o part)[i] = part[i - Len(s)] /\ (s \o chunk)[i] = chunk[i - Len(s)]
      BY <1>1, <1>2, <2>2
    <3> QED BY <1>2, <3>1, <3>2
  <2>3. i \in Int /\ Len(s) \in Int
    BY <1>1
  <2>4. i <= Len(s) \/ i > Len(s)
    BY <2>3
  <2> QED BY <2>1, <2>2, <2>4
<1> QED BY <1>1, <1>2, <1>3 DEF Begins

LEMMA BeginsLonger ==
  ASSUME NEW S, NEW s \in Seq(S), NEW t \in Seq(S), NEW chunk \in Seq(S), Begins(s, t)
  PROVE  Begins(s, t \o chunk)
<1>1. /\ Len(t \o chunk) = Len(t) + Len(chunk) /\ Len(t) \in Nat /\ Len(chunk) \in Nat
      /\ Len(s) \in Nat /\ Len(s) <= Len(t)
  BY DEF Begins
<1>2. \A i \in 1..Len(s) : (t \o chunk)[i] = t[i]
  BY <1>1
<1> QED BY <1>1, <1>2 DEF Begins

LEMMA CutBegins ==
  ASSUME NEW S, NEW chunk \in Seq(S), NEW cut \in 0..Len(chunk)
  PROVE  SubSeq(chunk, 1, cut) \in Seq(S) /\ Len(SubSeq(chunk, 1, cut)) = cut
         /\ Begins(SubSeq(chunk, 1, cut), chunk)
<1>1. SubSeq(chunk, 1, cut) \in Seq(S) /\ Len(SubSeq(chunk, 1, cut)) = cut /\ cut <= Len(chunk)
  OBVIOUS
<1>2. \A i \in 1..cut : SubSeq(chunk, 1, cut)[i] = chunk[i]
  OBVIOUS
<1> QED BY <1>1, <1>2 DEF Begins

Log == [stdout : Seq(Units), stderr : Seq(Units), bytesUsed : 0..Budget, truncated : BOOLEAN]
LogType == decoded \in [Streams -> Seq(Units)] /\ chunks \in 0..MaxChunks /\ log \in Log

\* All that was decoded so far has one byte to a unit.
Single == \A s \in Streams : \A i \in DOMAIN decoded[s] : decoded[s][i] = 1

\* What is kept is a beginning, of everything until the flag is set; and from then on, of
\* texts of single bytes, something is missing.
LogInv ==
    /\ LogType
    /\ \A s \in Streams : Begins(log[s], decoded[s])
    /\ ~log.truncated => \A s \in Streams : log[s] = decoded[s]
    /\ Len(log.stdout) + Len(log.stderr) <= log.bytesUsed
    /\ log.truncated /\ Single => \E s \in Streams : Len(log[s]) < Len(decoded[s])

\* What a chunk of a stream makes of a log: a part of it is kept, so many bytes are used up,
\* and the flag is set or not.
Becomes(new, to, part, used, flag) ==
    /\ new \in Log /\ new.bytesUsed = used /\ new.truncated = flag
    /\ \A s \in Streams : new[s] = IF s = to THEN log[s] \o part ELSE log[s]

LEMMA KeepFields ==
  ASSUME LogType, NEW to \in Streams, NEW part \in Seq(Units), NEW bytes \in Nat,
         log.bytesUsed + bytes <= Budget
  PROVE  /\ Becomes(Keep(to, part, bytes), to, part, log.bytesUsed + bytes, log.truncated)
         /\ Becomes(Truncated(Keep(to, part, bytes)), to, part, log.bytesUsed + bytes, TRUE)
<1> DEFINE text == log[to] \o part
           used == log.bytesUsed + bytes
           kept == [log EXCEPT ![to] = text, !.bytesUsed = used]
<1>1. /\ log \in Log /\ log[to] \in Seq(Units) /\ used \in 0..Budget
      /\ log.stdout \in Seq(Units) /\ log.stderr \in Seq(Units) /\ log.truncated \in BOOLEAN
  BY DEF LogType, Log, Streams
<1>2. text \in Seq(Units)
  BY <1>1
<1>3. Keep(to, part, bytes) = kept
  BY DEF Keep
<1> HIDE DEF text, used
<1>4. kept \in Log /\ [kept EXCEPT !.truncated = TRUE] \in Log
  BY <1>1, <1>2 DEF Log, Streams
<1>5. /\ kept.bytesUsed = used /\ kept.truncated = log.truncated
      /\ \A s \in Streams : kept[s] = IF s = to THEN text ELSE log[s]
  BY <1>1 DEF Log, Streams
<1>6. \A f \in {"stdout", "stderr", "bytesUsed"} : [kept EXCEPT !.truncated = TRUE][f] = kept[f]
  BY <1>1 DEF Log
<1>7. [kept EXCEPT !.truncated = TRUE].truncated = TRUE
  BY <1>1 DEF Log
<1> HIDE DEF kept
<1> QED BY <1>3, <1>4, <1>5, <1>6, <1>7 DEF Becomes, Truncated, Streams, text, used

\* appendLog, by what the budget allows.
Available == Budget - log.bytesUsed
AppendOutcome(new, to, chunk) ==
    \/ log.truncated /\ new = log
    \/ ~log.truncated /\ Available = 0 /\ Becomes(new, to, <<>>, log.bytesUsed, TRUE)
    \/ ~log.truncated /\ ByteLength(chunk) <= Available
       /\ Becomes(new, to, chunk, log.bytesUsed + ByteLength(chunk), FALSE)
    \/ ~log.truncated /\ Available > 0 /\ ByteLength(chunk) > Available
       /\ \E k \in 0..Len(chunk) :
            /\ k <= Available /\ (k = Available \/ k = Len(chunk))
            /\ Becomes(new, to, SubSeq(chunk, 1, k), Budget, TRUE)

LEMMA AppendCases ==
  ASSUME LogType, NEW to \in Streams, NEW chunk \in Seq(Units), Len(chunk) > 0
  PROVE  AppendOutcome(AppendLog(chunk, to), to, chunk)
<1> DEFINE new == AppendLog(chunk, to)
           available == Available
           bytes == ByteLength(chunk)
           cut == IF available < Len(chunk) THEN available ELSE Len(chunk)
<1>1. log \in Log /\ available \in Nat /\ log.bytesUsed \in 0..Budget /\ log.truncated \in BOOLEAN
      /\ Len(chunk) \in Nat /\ log.stdout \in Seq(Units) /\ log.stderr \in Seq(Units)
      /\ log.bytesUsed + available = Budget
  BY DEF LogType, Log, Available
<1>2. bytes \in Nat
  BY BytesAndUnits
<1>3. cut \in 0..Len(chunk) /\ cut <= available /\ (cut = available \/ cut = Len(chunk))
  BY <1>1
<1>4. SubSeq(chunk, 1, cut) \in Seq(Units)
  BY <1>3, CutBegins
<1>5. new = IF log.truncated THEN log
            ELSE IF available <= 0 THEN Truncated(log)
            ELSE IF bytes <= available THEN Keep(to, chunk, bytes)
            ELSE Truncated(Keep(to, SubSeq(chunk, 1, cut), available))
  BY Zenon DEF AppendLog, Fits, Available
<1> HIDE DEF new, available, bytes, cut
<1>6. CASE log.truncated
  BY <1>5, <1>6 DEF AppendOutcome, new
<1>7. CASE ~log.truncated /\ available = 0
  <2>1. new = Truncated(log)
    BY <1>5, <1>7
  <2>2. \A s \in Streams : log[s] \o <<>> = log[s]
    BY <1>1 DEF Streams
  <2>3. Becomes(new, to, <<>>, log.bytesUsed, TRUE)
    BY <1>1, <2>1, <2>2 DEF Becomes, Truncated, Log, Streams
  <2> QED BY <1>7, <2>3, Zenon DEF AppendOutcome, new, available
<1>8. CASE ~log.truncated /\ available > 0 /\ bytes <= available
  <2>1. new = Keep(to, chunk, bytes)
    BY <1>1, <1>2, <1>5, <1>8
  <2>2. log.bytesUsed + bytes <= Budget
    BY <1>1, <1>2, <1>8
  <2>3. Becomes(new, to, chunk, log.bytesUsed + bytes, FALSE)
    <3>1. log.truncated = FALSE
      BY <1>1, <1>8
    <3> QED BY <1>2, <2>1, <2>2, <3>1, KeepFields
  <2> QED BY <1>8, <2>3, Zenon DEF AppendOutcome, new, available, bytes
<1>9. CASE ~log.truncated /\ available > 0 /\ bytes > available
  <2>1. new = Truncated(Keep(to, SubSeq(chunk, 1, cut), available))
    BY <1>1, <1>2, <1>5, <1>9
  <2>2. log.bytesUsed + available <= Budget
    BY <1>1
  <2>3. Becomes(new, to, SubSeq(chunk, 1, cut), Budget, TRUE)
    BY <1>1, <1>4, <2>1, <2>2, KeepFields
  <2>4. \E k \in 0..Len(chunk) :
            /\ k <= available /\ (k = available \/ k = Len(chunk))
            /\ Becomes(new, to, SubSeq(chunk, 1, k), Budget, TRUE)
    BY <1>3, <2>3, Zenon
  <2> QED BY <1>9, <2>4, Zenon DEF AppendOutcome, new, available, bytes
<1>10. available = 0 \/ (available > 0 /\ (bytes <= available \/ bytes > available))
  BY <1>1, <1>2
<1> QED BY <1>6, <1>7, <1>8, <1>9, <1>10, Zenon

LEMMA LogInit == TextsInit => LogInv
<1> SUFFICES ASSUME TextsInit PROVE LogInv
  OBVIOUS
<1>1. decoded = [s \in Streams |-> <<>>] /\ chunks = 0
      /\ log = [stdout |-> <<>>, stderr |-> <<>>, bytesUsed |-> 0, truncated |-> FALSE]
  BY DEF TextsInit, NothingYet
<1>2. <<>> \in Seq(Units) /\ Len(<<>>) = 0
  OBVIOUS
<1>3. LogType
  BY <1>1, <1>2 DEF LogType, Log
<1>4. \A s \in Streams : log[s] = <<>> /\ decoded[s] = <<>>
  BY <1>1 DEF Streams
<1>5. log.stdout = <<>> /\ log.stderr = <<>> /\ log.bytesUsed = 0 /\ log.truncated = FALSE
  BY <1>1
<1>6. \A s \in Streams : Begins(log[s], decoded[s])
  BY <1>2, <1>4 DEF Begins
<1> QED BY <1>2, <1>3, <1>4, <1>5, <1>6 DEF LogInv

\* One chunk, of which a part is kept.
LEMMA PartStep ==
  ASSUME LogInv, LogType', NEW to \in Streams, NEW chunk \in Seq(Units), Len(chunk) > 0,
         decoded' = [decoded EXCEPT ![to] = @ \o chunk],
         NEW part \in Seq(Units), NEW used \in 0..Budget, NEW flag \in BOOLEAN,
         ~log.truncated, Becomes(log', to, part, used, flag), Begins(part, chunk),
         log.bytesUsed + Len(part) <= used, ~flag => part = chunk,
         flag /\ (\A i \in DOMAIN chunk : chunk[i] = 1) => Len(part) < Len(chunk)
  PROVE  LogInv'
<1>1. /\ decoded \in [Streams -> Seq(Units)]
      /\ \A s \in Streams : decoded'[s] = IF s = to THEN decoded[s] \o chunk ELSE decoded[s]
  BY DEF LogInv, LogType
<1>2. \A s \in Streams : log[s] = decoded[s] /\ log[s] \in Seq(Units)
  BY <1>1 DEF LogInv
<1>3. /\ log'.bytesUsed = used /\ log'.truncated = flag
      /\ \A s \in Streams : log'[s] = IF s = to THEN log[s] \o part ELSE log[s]
  BY DEF Becomes
<1>4. /\ Begins(log[to] \o part, log[to] \o chunk)
      /\ Len(log[to] \o part) = Len(log[to]) + Len(part)
      /\ Len(log[to] \o chunk) = Len(log[to]) + Len(chunk)
  BY <1>2, BeginsGoesOn
<1>5. ASSUME NEW s \in Streams PROVE Begins(log'[s], decoded'[s])
  <2>1. CASE s = to
    BY <1>1, <1>2, <1>3, <1>4, <2>1
  <2>2. CASE s # to
    <3>1. log'[s] = decoded'[s]
      BY <1>1, <1>2, <1>3, <2>2
    <3> QED BY <1>1, <1>2, <1>3, <2>2, <3>1 DEF Begins
  <2> QED BY <2>1, <2>2
<1>6. ~log'.truncated => \A s \in Streams : log'[s] = decoded'[s]
  BY <1>1, <1>2, <1>3
<1>7. Len(log'.stdout) + Len(log'.stderr) <= log'.bytesUsed
  <2> DEFINE m == Len(log.stdout)
             n == Len(log.stderr)
             p == Len(part)
             m2 == Len(log'.stdout)
             n2 == Len(log'.stderr)
  <2>1. to \in {"stdout", "stderr"} /\ "stdout" \in Streams /\ "stderr" \in Streams
    BY DEF Streams
  <2>2. log.stdout \in Seq(Units) /\ log.stderr \in Seq(Units) /\ log.bytesUsed \in Nat
    BY DEF LogInv, LogType, Log
  <2>3. m \in Nat /\ n \in Nat /\ p \in Nat
    BY <2>2
  <2>4. m + n <= log.bytesUsed /\ log.bytesUsed + p <= used
    BY DEF LogInv
  <2>5. to = "stdout" => m2 = m + p /\ n2 = n
    BY <1>3, <1>4, <2>1
  <2>6. to = "stderr" => m2 = m /\ n2 = n + p
    BY <1>3, <1>4, <2>1
  <2>7. log'.bytesUsed = used /\ used \in Nat
    BY <1>3
  <2> HIDE DEF m, n, p, m2, n2
  <2>8. m2 + n2 <= used
    BY <2>1, <2>2, <2>3, <2>4, <2>5, <2>6, <2>7
  <2> QED BY <2>7, <2>8 DEF m2, n2
<1>8. decoded'[to] = log[to] \o chunk /\ log'[to] = log[to] \o part
  <2>1. decoded'[to] = decoded[to] \o chunk
    BY <1>1
  <2>2. decoded[to] = log[to]
    BY <1>2
  <2>3. log'[to] = log[to] \o part
    BY <1>3
  <2> QED BY <2>1, <2>2, <2>3, Zenon
<1>9. ASSUME log'.truncated, Single' PROVE Len(log'[to]) < Len(decoded'[to])
  <2>1. \A i \in DOMAIN chunk : chunk[i] = 1
    <3> SUFFICES ASSUME NEW i \in 1..Len(chunk) PROVE chunk[i] = 1
      OBVIOUS
    <3>1. Len(log[to]) \in Nat /\ Len(chunk) \in Nat
      BY <1>2
    <3>2. Len(log[to]) + i \in 1..Len(log[to] \o chunk)
      BY <1>4, <3>1
    <3>3. (log[to] \o chunk)[Len(log[to]) + i] = chunk[i]
      <4> DEFINE k == Len(log[to]) + i
      <4>1. k \in 1..Len(log[to]) + Len(chunk) /\ k > Len(log[to]) /\ k - Len(log[to]) = i
        BY <3>1
      <4> HIDE DEF k
      <4>2. (log[to] \o chunk)[k] = chunk[k - Len(log[to])]
        BY <1>2, <3>1, <4>1
      <4> QED BY <4>1, <4>2 DEF k
    <3>4. DOMAIN decoded'[to] = 1..Len(log[to] \o chunk)
      <4>1. log[to] \o chunk \in Seq(Units)
        BY <1>2, BeginsGoesOn
      <4>2. DOMAIN (log[to] \o chunk) = 1..Len(log[to] \o chunk)
        BY <4>1
      <4> QED BY <1>8, <4>2, Zenon
    <3>5. \A j \in DOMAIN decoded'[to] : decoded'[to][j] = 1
      BY <1>9 DEF Single
    <3>6. decoded'[to][Len(log[to]) + i] = 1
      BY <3>2, <3>4, <3>5
    <3> QED BY <1>8, <3>3, <3>6, Zenon
  <2>2. Len(part) < Len(chunk) /\ Len(part) \in Nat /\ Len(chunk) \in Nat /\ Len(log[to]) \in Nat
    BY <1>2, <1>3, <1>9, <2>1
  <2>3. Len(log[to] \o part) < Len(log[to] \o chunk)
    BY <1>4, <2>2
  <2> QED BY <1>8, <2>3, Zenon
<1>10. log'.truncated /\ Single' => \E s \in Streams : Len(log'[s]) < Len(decoded'[s])
  BY <1>9
<1> QED BY <1>5, <1>6, <1>7, <1>10 DEF LogInv

LEMMA TextStep ==
  ASSUME LogInv, NEW to \in Streams, NEW chunk \in Seq(Units), Len(chunk) > 0,
         decoded' = [decoded EXCEPT ![to] = @ \o chunk], log' = AppendLog(chunk, to),
         chunks' \in 0..MaxChunks
  PROVE  LogInv'
<1> DEFINE available == Available
           bytes == ByteLength(chunk)
           single == \A i \in DOMAIN chunk : chunk[i] = 1
<1>1. chunk \in Seq(Units) /\ Len(chunk) > 0 /\ Len(chunk) \in Nat
  OBVIOUS
<1>2. LogType /\ log \in Log /\ decoded \in [Streams -> Seq(Units)]
      /\ log.bytesUsed \in 0..Budget /\ available \in Nat /\ log.truncated \in BOOLEAN
  BY DEF LogInv, LogType, Log, Available
<1>3. bytes \in Nat /\ Len(chunk) <= bytes /\ (single => bytes = Len(chunk))
  BY <1>1, BytesAndUnits
<1>4. decoded' = [decoded EXCEPT ![to] = @ \o chunk] /\ log' = AppendLog(chunk, to)
      /\ chunks' \in 0..MaxChunks
  OBVIOUS
<1>5. \A s \in Streams : decoded'[s] = IF s = to THEN decoded[s] \o chunk ELSE decoded[s]
  BY <1>2, <1>4
<1>6. decoded' \in [Streams -> Seq(Units)]
  <2>1. decoded[to] \o chunk \in Seq(Units)
    BY <1>1, <1>2
  <2> QED BY <1>2, <1>4, <2>1
<1> HIDE DEF available, bytes, single
<1>7. CASE log.truncated /\ log' = log
  <2>1. ASSUME NEW s \in Streams
        PROVE  /\ Begins(log[s], decoded'[s])
               /\ Len(decoded[s]) <= Len(decoded'[s]) /\ Len(decoded[s]) \in Nat
               /\ Len(decoded'[s]) \in Nat /\ Len(log[s]) \in Nat
               /\ \A i \in DOMAIN decoded[s] : i \in DOMAIN decoded'[s]
                                               /\ decoded'[s][i] = decoded[s][i]
    <3>1. log[s] \in Seq(Units) /\ decoded[s] \in Seq(Units) /\ Begins(log[s], decoded[s])
      BY <1>2 DEF Streams, Log, LogInv
    <3>2. Begins(log[s], decoded[s] \o chunk)
      BY <1>1, <3>1, BeginsLonger
    <3>3. CASE s # to
      BY <1>5, <3>1, <3>3
    <3>4. CASE s = to
      <4>1. decoded'[s] = decoded[s] \o chunk
        BY <1>5, <3>4
      <4>2. \A i \in DOMAIN decoded[s] : i \in DOMAIN (decoded[s] \o chunk)
                                         /\ (decoded[s] \o chunk)[i] = decoded[s][i]
        BY <1>1, <3>1
      <4>3. Len(decoded[s] \o chunk) = Len(decoded[s]) + Len(chunk)
            /\ Len(decoded[s]) \in Nat /\ Len(log[s]) \in Nat
        BY <1>1, <3>1
      <4> QED BY <1>1, <3>2, <4>1, <4>2, <4>3
    <3> QED BY <3>3, <3>4
  <2>2. Single' => Single
    BY <2>1 DEF Single
  <2>3. Single' => \E s \in Streams : Len(log'[s]) < Len(decoded'[s])
    <3>1. SUFFICES ASSUME Single' PROVE \E s \in Streams : Len(log[s]) < Len(decoded'[s])
      BY <1>7
    <3>2. PICK s \in Streams : Len(log[s]) < Len(decoded[s])
      BY <1>7, <2>2, <3>1 DEF LogInv
    <3>3. Len(log[s]) < Len(decoded'[s])
      BY <2>1, <3>2
    <3> QED BY <3>3
  <2>4. LogType'
    BY <1>2, <1>4, <1>6, <1>7 DEF LogType
  <2>5. \A s \in Streams : Begins(log'[s], decoded'[s])
    BY <1>7, <2>1
  <2>6. Len(log'.stdout) + Len(log'.stderr) <= log'.bytesUsed
    BY <1>7 DEF LogInv
  <2> QED BY <1>7, <2>3, <2>4, <2>5, <2>6 DEF LogInv
<1>8. ASSUME ~log.truncated, NEW part \in Seq(Units), NEW used \in 0..Budget,
             NEW flag \in BOOLEAN,
             Becomes(log', to, part, used, flag), Begins(part, chunk),
             log.bytesUsed + Len(part) <= used, ~flag => part = chunk,
             flag /\ single => Len(part) < Len(chunk)
      PROVE  LogInv'
  <2>1. LogType'
    BY <1>4, <1>6, <1>8 DEF LogType, Becomes, Log
  <2> QED BY <1>1, <1>4, <1>8, <2>1, PartStep DEF single
<1>9. CASE ~log.truncated /\ available = 0 /\ Becomes(log', to, <<>>, log.bytesUsed, TRUE)
  <2>1. <<>> \in Seq(Units) /\ Len(<<>>) = 0 /\ Begins(<<>>, chunk) /\ log.bytesUsed + 0 <= log.bytesUsed
    BY <1>1, <1>2 DEF Begins
  <2> QED BY <1>1, <1>2, <1>8, <1>9, <2>1
<1>10. CASE ~log.truncated /\ bytes <= available
            /\ Becomes(log', to, chunk, log.bytesUsed + bytes, FALSE)
  <2>1. log.bytesUsed + bytes \in 0..Budget /\ log.bytesUsed + Len(chunk) <= log.bytesUsed + bytes
    BY <1>1, <1>2, <1>3, <1>10 DEF available, Available
  <2>2. Begins(chunk, chunk)
    BY <1>1 DEF Begins
  <2> QED BY <1>1, <1>8, <1>10, <2>1, <2>2
<1>11. ASSUME ~log.truncated, available > 0, bytes > available, NEW k \in 0..Len(chunk),
              k <= available, k = available \/ k = Len(chunk),
              Becomes(log', to, SubSeq(chunk, 1, k), Budget, TRUE)
       PROVE  LogInv'
  <2>1. SubSeq(chunk, 1, k) \in Seq(Units) /\ Len(SubSeq(chunk, 1, k)) = k
        /\ Begins(SubSeq(chunk, 1, k), chunk)
    BY <1>1, CutBegins
  <2>2. Budget \in 0..Budget /\ log.bytesUsed + k <= Budget
    BY <1>2, <1>11 DEF available, Available
  <2>3. single => k < Len(chunk)
    BY <1>1, <1>2, <1>3, <1>11
  <2> QED BY <1>8, <1>11, <2>1, <2>2, <2>3
<1>12. \/ log.truncated /\ log' = log
       \/ ~log.truncated /\ available = 0 /\ Becomes(log', to, <<>>, log.bytesUsed, TRUE)
       \/ ~log.truncated /\ bytes <= available
          /\ Becomes(log', to, chunk, log.bytesUsed + bytes, FALSE)
       \/ ~log.truncated /\ available > 0 /\ bytes > available /\ \E k \in 0..Len(chunk) :
              /\ k <= available /\ (k = available \/ k = Len(chunk))
              /\ Becomes(log', to, SubSeq(chunk, 1, k), Budget, TRUE)
  <2>1. LogType /\ chunk \in Seq(Units) /\ Len(chunk) > 0 /\ log' = AppendLog(chunk, to)
    BY <1>1, <1>2, <1>4
  <2>2. AppendOutcome(AppendLog(chunk, to), to, chunk)
    BY <2>1, AppendCases, Zenon
  <2> QED BY <2>1, <2>2, Zenon DEF AppendOutcome, available, bytes
<1> QED BY <1>7, <1>9, <1>10, <1>11, <1>12

\* The bytes of what is kept are those used up, as long as nothing was cut.
BytesInv ==
    /\ LogInv
    /\ ~log.truncated => ByteLength(log.stdout) + ByteLength(log.stderr) <= log.bytesUsed

LEMMA BytesStep ==
  ASSUME BytesInv, LogInv', NEW to \in Streams, NEW chunk \in Seq(Units), Len(chunk) > 0,
         log' = AppendLog(chunk, to)
  PROVE  BytesInv'
<1>1. LogType /\ log \in Log /\ log.stdout \in Seq(Units) /\ log.stderr \in Seq(Units)
      /\ log.bytesUsed \in Nat
  BY DEF BytesInv, LogInv, LogType, Log
<1>2. AppendOutcome(log', to, chunk)
  BY <1>1, AppendCases
<1>3. SUFFICES ASSUME log'.truncated = FALSE
               PROVE  ByteLength(log'.stdout) + ByteLength(log'.stderr) <= log'.bytesUsed
  <2>1. log'.truncated \in BOOLEAN
    BY DEF LogInv, LogType, Log
  <2> QED BY <2>1 DEF BytesInv
<1>4. /\ log.truncated = FALSE
      /\ Becomes(log', to, chunk, log.bytesUsed + ByteLength(chunk), FALSE)
  <2>1. log.truncated \in BOOLEAN
    BY <1>1 DEF Log
  <2>2. ASSUME NEW part, NEW used PROVE ~Becomes(log', to, part, used, TRUE)
    BY <1>3 DEF Becomes
  <2>3. ~(log.truncated /\ log' = log)
    BY <1>3
  <2>4. ~log.truncated /\ Becomes(log', to, chunk, log.bytesUsed + ByteLength(chunk), FALSE)
    BY <1>2, <2>2, <2>3, Zenon DEF AppendOutcome
  <2> QED BY <2>1, <2>4
<1> DEFINE kept == IF to = "stdout" THEN log.stdout ELSE log.stderr
           other == IF to = "stdout" THEN log.stderr ELSE log.stdout
<1>5. /\ ByteLength(kept \o chunk) = ByteLength(kept) + ByteLength(chunk)
      /\ ByteLength(kept) \in Nat /\ ByteLength(chunk) \in Nat /\ ByteLength(other) \in Nat
  BY <1>1, BytesAdd, BytesAndUnits
<1>6. ByteLength(kept) + ByteLength(other) <= log.bytesUsed
  <2>1. ByteLength(log.stdout) + ByteLength(log.stderr) <= log.bytesUsed
    BY <1>4 DEF BytesInv
  <2>2. ByteLength(log.stdout) \in Nat /\ ByteLength(log.stderr) \in Nat
    BY <1>1, BytesAndUnits
  <2> QED BY <2>1, <2>2
<1>7. /\ log'.bytesUsed = log.bytesUsed + ByteLength(chunk)
      /\ \A s \in Streams : log'[s] = IF s = to THEN log[s] \o chunk ELSE log[s]
  BY <1>4 DEF Becomes
<1>8. CASE to = "stdout"
  <2>1. log'.stdout = kept \o chunk /\ log'.stderr = other
    BY <1>7, <1>8 DEF Streams
  <2> HIDE DEF kept, other
  <2> QED BY <1>1, <1>5, <1>6, <1>7, <2>1
<1>9. CASE to = "stderr"
  <2>1. log'.stderr = kept \o chunk /\ log'.stdout = other
    BY <1>7, <1>9 DEF Streams
  <2> HIDE DEF kept, other
  <2> QED BY <1>1, <1>5, <1>6, <1>7, <2>1
<1> QED BY <1>8, <1>9 DEF Streams

\* What a chunk is decoded to, and which characters it brings or begins.
More(chunk) == chunk.whole \o chunk.begun

LEMMA ChunkText ==
  ASSUME NEW chunk \in Chunks
  PROVE  /\ ToText(chunk) \in Seq(Units) /\ More(chunk) \in Seq(Widths)
         /\ chunk.brought \in 0..2 /\ chunk.whole \in Seq(Widths)
         /\ Len(More(chunk)) = Len(chunk.whole) + Len(chunk.begun)
         /\ chunk.begun = <<>> => More(chunk) = chunk.whole
         /\ chunk.begun # <<>> => /\ Len(chunk.begun) = 1 /\ chunk.begun[1] \in Widths \ {1}
                                  /\ More(chunk)[Len(chunk.whole) + 1] # 1
         /\ \A i \in 1..Len(chunk.whole) : More(chunk)[i] = chunk.whole[i]
         /\ chunk.brought = 0 =>
                /\ Len(ToText(chunk)) = Len(chunk.whole) + Len(chunk.begun)
                /\ chunk.begun = <<>> => ToText(chunk) = chunk.whole
                /\ chunk.begun # <<>> => ToText(chunk)[Len(chunk.whole) + 1] = Broken
                /\ \A i \in 1..Len(chunk.whole) : ToText(chunk)[i] = chunk.whole[i]
<1> DEFINE a == [i \in 1..chunk.brought |-> Broken]
           w == chunk.whole
           g == chunk.begun
           b == [i \in DOMAIN chunk.begun |-> Broken]
<1>1. chunk.brought \in 0..2 /\ w \in Seq(Widths) /\ Len(w) \in Nat /\ g \in Seq(Widths)
  <2>1. PICK n \in 0..MaxChunk : w \in [1..n -> Widths]
    BY DEF Chunks
  <2>2. w \in Seq(Widths) /\ Len(w) \in Nat
    BY <2>1
  <2>3. \A v \in Widths : <<v>> \in Seq(Widths)
    OBVIOUS
  <2>4. g \in {<<>>} \cup {<<v>> : v \in Widths \ {1}}
    BY DEF Chunks
  <2>5. g \in Seq(Widths)
    <3>1. CASE g = <<>>
      BY <3>1
    <3>2. ASSUME NEW v \in Widths, g = <<v>> PROVE g \in Seq(Widths)
      BY <2>3, <3>2, Zenon
    <3> QED BY <2>4, <3>1, <3>2
  <2> QED BY <2>2, <2>5 DEF Chunks
<1>2. g = <<>> \/ \E v \in Widths \ {1} : g = <<v>>
  BY DEF Chunks
<1>3. /\ a \in Seq(Units) /\ Len(a) = chunk.brought /\ (chunk.brought = 0 => a = <<>>)
      /\ b \in Seq(Units) /\ Len(b) = Len(g) /\ Len(g) \in Nat
      /\ \A i \in 1..Len(g) : b[i] = Broken
  <2>1. Broken \in Units
    BY UnitWidths
  <2>2. a \in [1..chunk.brought -> Units] /\ chunk.brought \in Nat
    BY <1>1, <2>1
  <2>3. DOMAIN g = 1..Len(g) /\ Len(g) \in Nat
    BY <1>1
  <2>4. b \in [1..Len(g) -> Units]
    BY <2>1, <2>3
  <2>5. a \in Seq(Units) /\ Len(a) = chunk.brought
    BY <2>2
  <2>6. b \in Seq(Units) /\ Len(b) = Len(g)
    BY <2>3, <2>4
  <2>7. chunk.brought = 0 => a = <<>>
    BY <2>5
  <2> QED BY <2>3, <2>5, <2>6, <2>7
<1>4. ToText(chunk) = a \o w \o b /\ More(chunk) = w \o g
  BY DEF ToText, More
<1>5. w \in Seq(Units) /\ Widths \subseteq Units
  <2>1. Widths \subseteq Units
    BY UnitWidths
  <2>2. \A i \in 1..Len(w) : w[i] \in Units
    <3>1. \A i \in 1..Len(w) : w[i] \in Widths
      BY <1>1
    <3> QED BY <2>1, <3>1, Zenon
  <2> QED BY <1>1, <2>1, <2>2
<1> HIDE DEF a, w, g, b
<1>6. ToText(chunk) \in Seq(Units) /\ More(chunk) \in Seq(Widths)
      /\ Len(More(chunk)) = Len(w) + Len(g)
      /\ \A i \in 1..Len(w) : More(chunk)[i] = w[i]
  BY <1>1, <1>3, <1>4, <1>5
<1>7. g = <<>> => More(chunk) = w
  BY <1>1, <1>4
<1>8. ASSUME g # <<>>
      PROVE  Len(g) = 1 /\ g[1] \in Widths \ {1} /\ More(chunk)[Len(w) + 1] # 1
  <2>1. PICK v \in Widths \ {1} : g = <<v>>
    BY <1>2, <1>8
  <2>2. Len(g) = 1 /\ g[1] = v
    BY <2>1
  <2>3. (w \o g)[Len(w) + 1] = g[1]
    <3> DEFINE k == Len(w) + 1
    <3>1. k \in 1..(Len(w) + Len(g)) /\ k > Len(w) /\ k - Len(w) = 1
      BY <1>1, <2>2
    <3> HIDE DEF k
    <3>2. (w \o g)[k] = g[k - Len(w)]
      BY <1>1, <3>1
    <3> QED BY <3>1, <3>2 DEF k
  <2> QED BY <1>4, <2>2, <2>3
<1>9. ASSUME chunk.brought = 0
      PROVE  /\ Len(ToText(chunk)) = Len(w) + Len(g)
             /\ g = <<>> => ToText(chunk) = w
             /\ g # <<>> => ToText(chunk)[Len(w) + 1] = Broken
             /\ \A i \in 1..Len(w) : ToText(chunk)[i] = w[i]
  <2>1. a \o w = w
    BY <1>3, <1>5, <1>9
  <2>2. ToText(chunk) = w \o b
    BY <1>4, <2>1
  <2>3. g = <<>> => b = <<>>
    BY <1>3
  <2>4. g = <<>> => w \o b = w
    BY <1>5, <2>3
  <2>5. g # <<>> => (w \o b)[Len(w) + 1] = b[1] /\ b[1] = Broken
    BY <1>1, <1>3, <1>5, <1>8
  <2>6. Len(w \o b) = Len(w) + Len(g) /\ \A i \in 1..Len(w) : (w \o b)[i] = w[i]
    BY <1>3, <1>5
  <2> QED BY <2>2, <2>4, <2>5, <2>6
<1> QED BY <1>1, <1>6, <1>7, <1>8, <1>9 DEF w, g

\* As far as no character of a stream was split, what was decoded is the stream; and
\* characters of one byte are not split.
OneByte(text) == \A i \in 1..Len(text) : text[i] = 1
Same(d, w, left) ==
    /\ Whole(d, Len(d)) => d = w /\ left = 0
    /\ \A n \in 1..Len(d) : Whole(d, n) => n <= Len(w) /\ d[n] = w[n]
    /\ OneByte(w) => OneByte(d)

SplitInv ==
    /\ written \in [Streams -> Seq(Widths)] /\ missing \in [Streams -> 0..2]
    /\ decoded \in [Streams -> Seq(Units)]
    /\ \A s \in Streams : Same(decoded[s], written[s], missing[s])

LEMMA SameGoesOn ==
  ASSUME NEW chunk \in Chunks, NEW d \in Seq(Units), NEW w \in Seq(Widths), NEW left \in Nat,
         NEW then \in Nat, Same(d, w, left), chunk.brought <= left,
         chunk.begun = <<>> => then = left - chunk.brought
  PROVE  Same(d \o ToText(chunk), w \o More(chunk), then)
<1> DEFINE t == ToText(chunk)
           more == More(chunk)
           k == Len(chunk.whole)
           D == d \o t
           W == w \o more
<1>1. /\ t \in Seq(Units) /\ more \in Seq(Widths) /\ k \in Nat /\ chunk.brought \in 0..2
      /\ Len(more) \in Nat /\ Len(t) \in Nat /\ Len(d) \in Nat /\ Len(w) \in Nat
      /\ chunk.whole \in Seq(Widths)
  <2>1. t \in Seq(Units) /\ more \in Seq(Widths) /\ chunk.whole \in Seq(Widths)
        /\ chunk.brought \in 0..2
    BY ChunkText
  <2> QED BY <2>1
<1> HIDE DEF t, more
<1>2. /\ D \in Seq(Units) /\ Len(D) = Len(d) + Len(t) /\ W \in Seq(Widths)
      /\ Len(W) = Len(w) + Len(more)
      /\ \A i \in 1..Len(d) : D[i] = d[i]
      /\ \A i \in 1..Len(w) : W[i] = w[i]
  BY <1>1
<1>3. /\ \A i \in 1..Len(t) : Len(d) + i \in 1..Len(D) /\ D[Len(d) + i] = t[i]
      /\ \A i \in 1..Len(more) : Len(w) + i \in 1..Len(W) /\ W[Len(w) + i] = more[i]
  <2>1. ASSUME NEW S, NEW p \in Seq(S), NEW q \in Seq(S), NEW i \in 1..Len(q)
        PROVE  Len(p) + i \in 1..Len(p \o q) /\ (p \o q)[Len(p) + i] = q[i]
    <3> DEFINE j == Len(p) + i
    <3>1. Len(p) \in Nat /\ Len(q) \in Nat /\ Len(p \o q) = Len(p) + Len(q)
      OBVIOUS
    <3>2. j \in 1..(Len(p) + Len(q)) /\ j > Len(p) /\ j - Len(p) = i
      BY <3>1
    <3> HIDE DEF j
    <3>3. (p \o q)[j] = q[j - Len(p)]
      BY <3>1, <3>2
    <3> QED BY <3>1, <3>2, <3>3 DEF j
  <2> QED BY <1>1, <2>1
<1> HIDE DEF D, W, k
<1>4. ASSUME OneByte(W) PROVE OneByte(w) /\ OneByte(more)
  <2>1. \A i \in 1..Len(w) : i \in 1..Len(W)
    BY <1>1, <1>2
  <2>2. OneByte(w)
    BY <1>2, <1>4, <2>1 DEF OneByte
  <2>3. OneByte(more)
    <3>1. SUFFICES ASSUME NEW i \in 1..Len(more) PROVE more[i] = 1
      BY DEF OneByte
    <3>2. Len(w) + i \in 1..Len(W) /\ W[Len(w) + i] = more[i]
      BY <1>3
    <3> QED BY <1>4, <3>2 DEF OneByte
  <2> QED BY <2>2, <2>3
<1>5. CASE ~Whole(d, Len(d))
  <2>1. PICK i \in 1..Len(d) : d[i] = Broken
    BY <1>5 DEF Whole
  <2>2. i \in 1..Len(D) /\ D[i] = Broken
    BY <1>1, <1>2, <2>1
  <2>3. ASSUME NEW n \in 1..Len(D), Whole(D, n) PROVE n <= Len(W) /\ D[n] = W[n]
    <3>1. n < i
      BY <1>1, <1>2, <2>1, <2>2, <2>3 DEF Whole
    <3>2. n \in 1..Len(d) /\ \A j \in 1..n : j \in 1..Len(d)
      BY <1>1, <2>1, <3>1
    <3>3. Whole(d, n)
      BY <1>2, <2>3, <3>2 DEF Whole
    <3>4. n <= Len(w) /\ d[n] = w[n]
      BY <3>2, <3>3 DEF Same
    <3>5. n \in 1..Len(w) /\ Len(w) <= Len(W)
      BY <1>1, <1>2, <3>2, <3>4
    <3>6. n <= Len(W)
      BY <1>1, <1>2, <3>5
    <3>7. D[n] = d[n] /\ W[n] = w[n]
      BY <1>2, <3>2, <3>5
    <3> QED BY <3>4, <3>6, <3>7
  <2>4. ~OneByte(d)
    BY <2>1 DEF OneByte, Broken
  <2>5. ~OneByte(W)
    BY <1>4, <2>4 DEF Same
  <2>6. ~Whole(D, Len(D))
    BY <2>2 DEF Whole
  <2>7. Same(D, W, then)
    BY <2>3, <2>5, <2>6 DEF Same
  <2> QED BY <2>7 DEF D, W, t, more
<1>6. CASE Whole(d, Len(d))
  <2>1. d = w /\ chunk.brought = 0 /\ left = 0
    BY <1>1, <1>6 DEF Same
  <2>2. CASE chunk.begun = <<>>
    <3>1. t = more /\ then = 0
      <4>1. ToText(chunk) = chunk.whole /\ More(chunk) = chunk.whole
        BY <2>1, <2>2, ChunkText, Zenon
      <4>2. then = 0 - 0
        BY <2>1, <2>2, Zenon
      <4> QED BY <4>1, <4>2 DEF t, more
    <3>2. D = W
      BY <2>1, <3>1 DEF D, W
    <3>3. Same(D, W, then)
      BY <1>1, <1>2, <3>1, <3>2 DEF Same
    <3> QED BY <3>3 DEF D, W, t, more
  <2>3. CASE chunk.begun # <<>>
    <3>1. /\ Len(t) = k + 1 /\ Len(more) = k + 1 /\ t[k + 1] = Broken /\ more[k + 1] # 1
          /\ \A i \in 1..k : t[i] = more[i]
      BY <1>1, <2>1, <2>3, ChunkText DEF t, more, k
    <3>2. k + 1 \in 1..Len(t) /\ k + 1 \in 1..Len(more)
      BY <1>1, <3>1
    <3>3. D[Len(d) + (k + 1)] = Broken /\ Len(d) + (k + 1) \in 1..Len(D)
      BY <1>3, <3>1, <3>2
    <3>4. ~Whole(D, Len(D))
      BY <3>3 DEF Whole
    <3>5. ~OneByte(W)
      <4>1. ~OneByte(more)
        BY <3>1, <3>2 DEF OneByte
      <4> QED BY <1>4, <4>1
    <3>6. ASSUME NEW n \in 1..Len(D), Whole(D, n) PROVE n <= Len(W) /\ D[n] = W[n]
      <4>1. n < Len(d) + (k + 1)
        BY <1>1, <3>3, <3>6 DEF Whole
      <4>2. n <= Len(W) /\ n \in Nat /\ Len(w) = Len(d)
        BY <1>1, <1>2, <2>1, <3>1, <4>1
      <4>3. CASE n <= Len(d)
        <5>1. n \in 1..Len(d) /\ n \in 1..Len(w)
          BY <4>2, <4>3
        <5>2. D[n] = d[n] /\ W[n] = w[n]
          BY <1>2, <5>1
        <5> QED BY <2>1, <4>2, <5>2
      <4>4. CASE n > Len(d)
        <5> DEFINE i == n - Len(d)
        <5>1. i \in 1..k /\ Len(d) + i = n /\ i \in 1..Len(t) /\ i \in 1..Len(more)
          BY <1>1, <3>1, <4>1, <4>2, <4>4
        <5> HIDE DEF i
        <5>2. D[Len(d) + i] = t[i] /\ W[Len(w) + i] = more[i]
          BY <1>3, <5>1
        <5>3. t[i] = more[i]
          BY <3>1, <5>1
        <5> QED BY <4>2, <5>1, <5>2, <5>3
      <4> QED BY <1>1, <4>2, <4>3, <4>4
    <3>7. Same(D, W, then)
      BY <3>4, <3>5, <3>6 DEF Same
    <3> QED BY <3>7 DEF D, W, t, more
  <2> QED BY <2>2, <2>3
<1> QED BY <1>5, <1>6

LEMMA SplitStep ==
  ASSUME SplitInv, NEW to \in Streams, NEW chunk \in Chunks, Data(to, chunk)
  PROVE  SplitInv'
<1>1. /\ written \in [Streams -> Seq(Widths)] /\ missing \in [Streams -> 0..2]
      /\ decoded \in [Streams -> Seq(Units)]
      /\ \A s \in Streams : Same(decoded[s], written[s], missing[s])
  BY DEF SplitInv
<1>2. /\ ToText(chunk) \in Seq(Units) /\ More(chunk) \in Seq(Widths) /\ chunk.brought \in 0..2
      /\ chunk.begun # <<>> => chunk.begun[1] \in Widths
  BY ChunkText
<1>3. /\ chunk.brought <= missing[to]
      /\ written' = [written EXCEPT ![to] = @ \o More(chunk)]
      /\ decoded' = [decoded EXCEPT ![to] = @ \o ToText(chunk)]
  BY DEF Data, More
<1>4. /\ missing' \in [Streams -> 0..2]
      /\ \A s \in Streams \ {to} : missing'[s] = missing[s]
      /\ chunk.begun = <<>> => missing'[to] = missing[to] - chunk.brought
  <2>1. CASE chunk.begun = <<>>
    <3>1. missing' = [missing EXCEPT ![to] = missing[to] - chunk.brought]
      BY <2>1 DEF Data
    <3>2. missing[to] - chunk.brought \in 0..2
      <4>1. missing[to] \in 0..2
        BY <1>1
      <4> QED BY <1>2, <1>3, <4>1
    <3> QED BY <1>1, <3>1, <3>2
  <2>2. CASE chunk.begun # <<>>
    <3>1. PICK n \in 1..(chunk.begun[1] - 1) : missing' = [missing EXCEPT ![to] = n]
      BY <2>2 DEF Data
    <3>2. n \in 0..2
      <4>1. chunk.begun[1] \in Widths
        BY <1>2, <2>2, Zenon
      <4>2. chunk.begun[1] \in 1..3
        BY <4>1
      <4> DEFINE v == chunk.begun[1]
      <4>3. v \in 1..3 /\ n \in 1..(v - 1)
        BY <3>1, <4>2
      <4> HIDE DEF v
      <4> QED BY <4>3
    <3> QED BY <1>1, <2>2, <3>1, <3>2
  <2> QED BY <2>1, <2>2
<1>5. /\ decoded[to] \in Seq(Units) /\ written[to] \in Seq(Widths)
      /\ missing[to] \in Nat /\ missing'[to] \in Nat
      /\ decoded[to] \o ToText(chunk) \in Seq(Units) /\ written[to] \o More(chunk) \in Seq(Widths)
  <2>1. decoded[to] \in Seq(Units) /\ written[to] \in Seq(Widths)
    BY <1>1
  <2>2. missing[to] \in 0..2 /\ missing'[to] \in 0..2
    BY <1>1, <1>4
  <2> QED BY <1>2, <2>1, <2>2
<1>6. written' \in [Streams -> Seq(Widths)] /\ decoded' \in [Streams -> Seq(Units)]
  BY <1>1, <1>3, <1>5
<1>7. Same(decoded[to] \o ToText(chunk), written[to] \o More(chunk), missing'[to])
  BY <1>1, <1>3, <1>4, <1>5, SameGoesOn
<1>8. /\ decoded'[to] = decoded[to] \o ToText(chunk) /\ written'[to] = written[to] \o More(chunk)
      /\ \A s \in Streams \ {to} : decoded'[s] = decoded[s] /\ written'[s] = written[s]
  BY <1>1, <1>3
<1>9. ASSUME NEW s \in Streams PROVE Same(decoded'[s], written'[s], missing'[s])
  <2>1. CASE s = to
    BY <1>7, <1>8, <2>1
  <2>2. CASE s # to
    BY <1>1, <1>4, <1>8, <2>2
  <2> QED BY <2>1, <2>2
<1> QED BY <1>4, <1>6, <1>9 DEF SplitInv

LEMMA TextInvariant == TextsSpec => [](BytesInv /\ SplitInv)
<1>1. TextsInit => BytesInv /\ SplitInv
  <2> SUFFICES ASSUME TextsInit PROVE BytesInv /\ SplitInv
    OBVIOUS
  <2>1. LogInv
    BY LogInit
  <2>2. log.stdout = <<>> /\ log.stderr = <<>> /\ log.bytesUsed = 0
    BY DEF TextsInit, NothingYet
  <2>3. ByteLength(<<>>) = 0
    <3>1. <<>> \in Seq(Units) /\ Len(<<>>) = 0
      OBVIOUS
    <3>2. ByteLength(<<>>) \in Nat /\ ByteLength(<<>>) <= 3 * Len(<<>>)
      BY <3>1, BytesAndUnits
    <3> QED BY <3>1, <3>2
  <2>4. BytesInv
    BY <2>1, <2>2, <2>3 DEF BytesInv
  <2>5. SplitInv
    <3>1. written = [s \in Streams |-> <<>>] /\ decoded = [s \in Streams |-> <<>>]
          /\ missing = [s \in Streams |-> 0]
      BY DEF TextsInit
    <3>2. Same(<<>>, <<>>, 0)
      BY DEF Same, OneByte
    <3>3. <<>> \in Seq(Units) /\ <<>> \in Seq(Widths)
      OBVIOUS
    <3> QED BY <3>1, <3>2, <3>3 DEF SplitInv
  <2> QED BY <2>4, <2>5
<1>2. BytesInv /\ SplitInv /\ [TextsStep]_textVars => (BytesInv /\ SplitInv)'
  <2> SUFFICES ASSUME BytesInv, SplitInv, [TextsStep]_textVars PROVE (BytesInv /\ SplitInv)'
    OBVIOUS
  <2>1. CASE UNCHANGED textVars
    BY <2>1 DEF textVars, BytesInv, LogInv, LogType, Single, SplitInv
  <2>2. ASSUME NEW to \in Streams, NEW chunk \in Chunks, Data(to, chunk)
        PROVE  (BytesInv /\ SplitInv)'
    <3>1. ToText(chunk) \in Seq(Units)
      BY ChunkText
    <3>2. chunks \in 0..MaxChunks
      BY DEF BytesInv, LogInv, LogType
    <3>3. /\ Len(ToText(chunk)) > 0 /\ log' = AppendLog(ToText(chunk), to)
          /\ decoded' = [decoded EXCEPT ![to] = @ \o ToText(chunk)]
      BY <2>2 DEF Data
    <3>4. chunks' \in 0..MaxChunks
      BY <2>2, <3>2 DEF Data
    <3>5. LogInv
      BY DEF BytesInv
    <3>6. LogInv'
      BY <3>1, <3>3, <3>4, <3>5, TextStep
    <3>7. BytesInv'
      BY <3>1, <3>3, <3>6, BytesStep
    <3> QED BY <2>2, <3>7, SplitStep
  <2> QED BY <2>1, <2>2 DEF TextsStep
<1> QED BY <1>1, <1>2, PTL DEF TextsSpec

\* testRunner.ts:38-60: whatever the chunks of the two streams and however they mix and
\* split characters, what is kept of each is the beginning of what was decoded of it, and of
\* the stream itself as far as no character was split; nothing is missing without the flag,
\* and for streams of single bytes the flag means that something is missing; no more bytes
\* than the budget are kept without the flag, and no more than three times as many with it.
THEOREM LogKept == TextsSpec => []LogBudget
<1>1. BytesInv /\ SplitInv => LogBudget
  <2> SUFFICES ASSUME BytesInv, SplitInv PROVE LogBudget
    OBVIOUS
  <2>1. /\ LogInv /\ log \in Log /\ log.truncated \in BOOLEAN /\ log.bytesUsed \in 0..Budget
        /\ log.stdout \in Seq(Units) /\ log.stderr \in Seq(Units)
        /\ \A s \in Streams : log[s] \in Seq(Units) /\ decoded[s] \in Seq(Units)
    BY DEF BytesInv, LogInv, LogType, Log, Streams
  <2>2. \A s \in Streams : Begins(log[s], decoded[s])
    BY <2>1 DEF LogInv
  <2>3. \A s \in Streams : IsPrefix(log[s], decoded[s])
    BY <2>1, <2>2, BeginsIsPrefix
  <2>4. ASSUME NEW s \in Streams, NEW n \in 1..Len(log[s]), Whole(log[s], n)
        PROVE  n <= Len(written[s]) /\ log[s][n] = written[s][n]
    <3>1. /\ Len(log[s]) \in Nat /\ Len(decoded[s]) \in Nat /\ Len(log[s]) <= Len(decoded[s])
          /\ \A i \in 1..Len(log[s]) : log[s][i] = decoded[s][i]
      BY <2>1, <2>2 DEF Begins
    <3>2. n \in 1..Len(decoded[s]) /\ \A i \in 1..n : i \in 1..Len(log[s])
      BY <3>1
    <3>3. Whole(decoded[s], n)
      BY <2>4, <3>1, <3>2 DEF Whole
    <3>4. n <= Len(written[s]) /\ decoded[s][n] = written[s][n]
      BY <3>2, <3>3 DEF SplitInv, Same
    <3> QED BY <3>1, <3>4
  <2>5. (~\A s \in Streams : log[s] = decoded[s]) => log.truncated
    BY <2>1 DEF LogInv
  <2>6. ASSUME \A s \in Streams : ToSet(written[s]) \subseteq {1}, log.truncated
        PROVE  ~\A s \in Streams : log[s] = decoded[s]
    <3>1. \A s \in Streams : OneByte(written[s])
      <4> SUFFICES ASSUME NEW s \in Streams, NEW i \in 1..Len(written[s])
                   PROVE  written[s][i] = 1
        BY DEF OneByte
      <4>1. written[s] \in Seq(Widths) /\ DOMAIN written[s] = 1..Len(written[s])
        BY DEF SplitInv
      <4>2. written[s][i] \in ToSet(written[s])
        BY <4>1 DEF ToSet
      <4> QED BY <2>6, <4>2
    <3>2. \A s \in Streams : OneByte(decoded[s])
      BY <3>1 DEF SplitInv, Same
    <3>3. Single
      BY <2>1, <3>2 DEF Single, OneByte
    <3>4. PICK s \in Streams : Len(log[s]) < Len(decoded[s])
      BY <2>1, <2>6, <3>3 DEF LogInv
    <3>5. Len(decoded[s]) \in Nat
      BY <2>1
    <3>6. log[s] # decoded[s]
      BY <3>4, <3>5
    <3> QED BY <3>6
  <2> DEFINE m == Len(log.stdout)
             n == Len(log.stderr)
             b == ByteLength(log.stdout)
             c == ByteLength(log.stderr)
  <2>7. /\ m \in Nat /\ n \in Nat /\ b \in Nat /\ c \in Nat /\ Budget \in Nat
        /\ m + n <= log.bytesUsed /\ b <= 3 * m /\ c <= 3 * n
        /\ ~log.truncated => b + c <= log.bytesUsed
    <3>1. b \in Nat /\ b <= 3 * m
      BY <2>1, BytesAndUnits, Zenon
    <3>2. c \in Nat /\ c <= 3 * n
      BY <2>1, BytesAndUnits, Zenon
    <3>3. m \in Nat /\ n \in Nat
      BY <2>1
    <3>4. m + n <= log.bytesUsed
      BY <2>1 DEF LogInv
    <3>5. ~log.truncated => b + c <= log.bytesUsed
      BY DEF BytesInv
    <3>6. Budget \in Nat
      OBVIOUS
    <3> HIDE DEF m, n, b, c
    <3> QED BY <3>1, <3>2, <3>3, <3>4, <3>5, <3>6, Zenon
  <2> HIDE DEF m, n, b, c
  <2>8. m + n <= Budget /\ b + c <= IF log.truncated THEN 3 * Budget ELSE Budget
    BY <2>1, <2>7
  <2>9. m + n = Len(log.stdout) + Len(log.stderr)
        /\ b + c = ByteLength(log.stdout) + ByteLength(log.stderr)
    BY DEF m, n, b, c
  <2> QED BY <2>1, <2>3, <2>4, <2>5, <2>6, <2>8, <2>9, Zenon DEF LogBudget
<1> QED BY <1>1, TextInvariant, PTL

LEMMA TextsTyped == TextsSpec => []TextsTypeOK
<1>1. BytesInv /\ SplitInv => TextsTypeOK
  BY DEF BytesInv, LogInv, LogType, Log, SplitInv, TextsTypeOK
<1> QED BY <1>1, TextInvariant, PTL
-----------------------------------------------------------------------------
(* The types of all of it.                                                 *)

USE DEF ClockAssumption, WindowsAssumption, NotificationsAssumption
HIDE DEF TextsAssumption

\* A finite set of numbers has an n-th one, for each n up to its size: no two of them have as
\* many below them.
LEMMA NthIsOne ==
  ASSUME NEW S \in SUBSET Nat, IsFiniteSet(S), NEW n \in 1..Cardinality(S)
  PROVE  Nth(S, n) \in S
<1> DEFINE Upto(i) == {j \in S : j <= i}
           rank == [i \in S |-> Cardinality(Upto(i))]
           size == Cardinality(S)
<1>1. size \in Nat
  BY FS_CardinalityType
<1>2. ASSUME NEW i \in S
      PROVE  IsFiniteSet(Upto(i)) /\ rank[i] = Cardinality(Upto(i)) /\ rank[i] \in 1..size
  <2>1. Upto(i) \subseteq S /\ Upto(i) # {} /\ i \in Nat
    OBVIOUS
  <2>2. IsFiniteSet(Upto(i)) /\ Cardinality(Upto(i)) <= size
    BY <2>1, FS_Subset
  <2>3. Cardinality(Upto(i)) \in Nat /\ Cardinality(Upto(i)) # 0
    BY <2>1, <2>2, FS_CardinalityType, FS_EmptySet
  <2> QED BY <1>1, <2>2, <2>3
<1>3. ASSUME NEW i \in S, NEW j \in S, i < j PROVE rank[i] # rank[j]
  <2>1. i \in Nat /\ j \in Nat
    OBVIOUS
  <2>2. Upto(i) \subseteq Upto(j)
    <3> SUFFICES ASSUME NEW k \in S, k <= i PROVE k <= j
      OBVIOUS
    <3>1. k \in Nat
      OBVIOUS
    <3> QED BY <1>3, <2>1, <3>1
  <2>3. j \in Upto(j) /\ j \notin Upto(i)
    BY <1>3, <2>1
  <2>4. Cardinality(Upto(i)) < Cardinality(Upto(j))
    BY <1>2, <2>2, <2>3, FS_Subset
  <2>5. rank[i] \in 1..size /\ rank[j] \in 1..size
    BY <1>2
  <2> QED BY <1>1, <1>2, <2>4, <2>5
<1>4. rank \in Injection(S, 1..size)
  <2>1. rank \in [S -> 1..size]
    BY <1>2
  <2>2. ASSUME NEW i \in S, NEW j \in S, rank[i] = rank[j] PROVE i = j
    <3>1. i \in Nat /\ j \in Nat
      OBVIOUS
    <3>2. ~(i < j) /\ ~(j < i)
      BY <1>3, <2>2
    <3> QED BY <3>1, <3>2
  <2> HIDE DEF rank
  <2> QED BY <2>1, <2>2 DEF Injection, IsInjective
<1>5. IsFiniteSet(1..size) /\ Cardinality(1..size) = size
  BY <1>1, UpTo
<1>6. rank \in Surjection(S, 1..size)
  BY <1>4, <1>5, FS_Injection
<1>7. PICK i \in S : rank[i] = n
  <2> HIDE DEF rank
  <2> QED BY <1>6 DEF Surjection
<1>8. \E k \in S : Cardinality({j \in S : j <= k}) = n
  BY <1>2, <1>7
<1> QED BY <1>8, Zenon DEF Nth

\* The timestamps and the latencies of a window are as many, and numbers of requests.
WindowInv ==
    /\ WindowsTypeOK
    /\ \A d \in Durations : Len(latencies[d]) = Len(timestamps[d])

LEMMA FilterTyped ==
  ASSUME WindowInv, NEW d \in Durations
  PROVE  /\ Timely(d) \in Seq(Numbers) /\ LatenciesKept(d) \in Seq(Numbers)
         /\ Len(LatenciesKept(d)) = Len(Timely(d))
<1> DEFINE kept == Recents(d)
           size == Cardinality(kept)
<1>1. /\ timestamps[d] \in Seq(Numbers) /\ latencies[d] \in Seq(Numbers)
      /\ Len(latencies[d]) = Len(timestamps[d]) /\ Len(timestamps[d]) \in Nat
      /\ DOMAIN timestamps[d] = 1..Len(timestamps[d])
  BY DEF WindowInv, WindowsTypeOK
<1>2. kept \subseteq 1..Len(timestamps[d]) /\ kept \in SUBSET Nat
  BY <1>1 DEF Recents
<1>3. IsFiniteSet(kept) /\ size \in Nat /\ size <= Len(timestamps[d])
  <2>1. IsFiniteSet(1..Len(timestamps[d]))
        /\ Cardinality(1..Len(timestamps[d])) = Len(timestamps[d])
    BY <1>1, UpTo
  <2>2. IsFiniteSet(kept) /\ size <= Cardinality(1..Len(timestamps[d]))
    BY <1>2, <2>1, FS_Subset
  <2> QED BY <2>1, <2>2, FS_CardinalityType
<1>4. \A n \in 1..size : Nth(kept, n) \in kept
  BY <1>2, <1>3, NthIsOne
<1> HIDE DEF kept, size
<1>5. Timely(d) = [n \in 1..size |-> timestamps[d][Nth(kept, n)]]
  BY Zenon DEF Timely, kept, size
<1>6. \A n \in 1..size : timestamps[d][Nth(kept, n)] \in Numbers
  <2>1. \A i \in kept : timestamps[d][i] \in Numbers
    BY <1>1, <1>2
  <2> QED BY <1>4, <2>1, Zenon
<1>7. Timely(d) \in Seq(Numbers) /\ Len(Timely(d)) = size
  BY <1>3, <1>5, <1>6
<1>8. SubSeq(latencies[d], 1, size) \in Seq(Numbers) /\ Len(SubSeq(latencies[d], 1, size)) = size
  BY <1>1, <1>3
<1> QED BY <1>7, <1>8 DEF LatenciesKept

LEMMA FinishTyped ==
  ASSUME WindowInv, NEW n \in Arrived, Finish(n)
  PROVE  WindowInv'
<1>1. /\ now \in 0..MaxNow /\ count \in 0..MaxRequests /\ request \in [Arrived -> Request]
      /\ UNCHANGED <<now, count, hits, retryAt>> /\ Arrived' = Arrived
  BY DEF WindowInv, WindowsTypeOK, Finish, limiter, Arrived
<1>2. request' \in [Arrived -> Request]
  <2>1. request' = [request EXCEPT ![n] = [request[n] EXCEPT !.end = now]]
    BY Zenon DEF Finish
  <2>2. [request[n] EXCEPT !.end = now] \in Request
    BY <1>1 DEF Request
  <2> QED BY <1>1, <2>1, <2>2
<1>3. n \in Numbers
  BY <1>1 DEF Numbers, Arrived
<1>4. ASSUME NEW d \in Durations
      PROVE  /\ timestamps'[d] \in Seq(Numbers) /\ latencies'[d] \in Seq(Numbers)
             /\ Len(latencies'[d]) = Len(timestamps'[d])
  <2>1. timestamps'[d] = Append(Timely(d), n) /\ latencies'[d] = Append(LatenciesKept(d), n)
    BY DEF Finish
  <2>2. /\ Timely(d) \in Seq(Numbers) /\ LatenciesKept(d) \in Seq(Numbers)
        /\ Len(LatenciesKept(d)) = Len(Timely(d))
    BY FilterTyped
  <2> QED BY <1>3, <2>1, <2>2
<1>5. timestamps' \in [Durations -> Seq(Numbers)] /\ latencies' \in [Durations -> Seq(Numbers)]
  <2>1. /\ timestamps' = [d \in Durations |-> Append(Timely(d), n)]
        /\ latencies' = [d \in Durations |-> Append(LatenciesKept(d), n)]
    BY DEF Finish
  <2> QED BY <1>4, <2>1
<1>6. WindowsTypeOK'
  BY <1>1, <1>2, <1>5 DEF WindowInv, WindowsTypeOK
<1> QED BY <1>4, <1>6 DEF WindowInv

LEMMA ArrivalTyped ==
  ASSUME WindowInv, LimiterInv, NEW k \in Keys, Admit(k) \/ Refuse(k)
  PROVE  WindowInv'
<1>1. LimiterType /\ now \in 0..MaxNow /\ count \in 0..MaxRequests
  BY DEF WindowInv, WindowsTypeOK, LimiterInv
<1>2. LimiterType' /\ UNCHANGED <<now, timestamps, latencies>> /\ count' \in 0..MaxRequests
  <2>1. LimiterInv'
    BY AdmitStep, RefuseStep
  <2> QED BY <1>1, <2>1 DEF LimiterInv, Admit, Refuse, Arrives, metrics
<1>3. retryAt' \in [Keys -> Nat]
  <2>1. retryAt \in [Keys -> Nat] /\ now \in Nat
    BY <1>1 DEF WindowInv, WindowsTypeOK
  <2>2. CASE Admit(k)
    BY <2>1, <2>2 DEF Admit
  <2>3. CASE Refuse(k)
    <3> DEFINE wait == Window - (now - request[Oldest(Kept(k))].at)
    <3>1. Kept(k) \subseteq Arrived /\ Kept(k) \in SUBSET Nat /\ Kept(k) # {}
      <4>1. Cardinality(Kept(k)) >= PerMinute
        BY <2>3 DEF Refuse, Full
      <4>2. PerMinute \in Nat /\ PerMinute >= 1
        OBVIOUS
      <4> QED BY <1>1, <4>1, <4>2, HitsFinite, FS_EmptySet
    <3>2. Oldest(Kept(k)) \in Arrived
      BY <3>1, Smallest
    <3>3. wait \in Int
      BY <1>1, <3>2 DEF LimiterType, Request
    <3> HIDE DEF wait
    <3>4. Wait(wait) \in Int
      BY <3>3 DEF Wait
    <3>5. RetryAfter(k) = AtLeast1(Wait(wait))
      BY DEF RetryAfter, wait
    <3>6. RetryAfter(k) \in Nat
      BY <3>4, <3>5 DEF AtLeast1
    <3>7. now + Second * RetryAfter(k) \in Nat
      BY <2>1, <3>6
    <3> QED BY <2>1, <2>3, <3>7 DEF Refuse
  <2> QED BY <2>2, <2>3
<1>4. WindowsTypeOK'
  BY <1>2, <1>3 DEF WindowInv, WindowsTypeOK, LimiterType
<1> QED BY <1>2, <1>4 DEF WindowInv

LEMMA WindowInvariant == WindowsSpec => []WindowInv
<1>1. WindowsInit => WindowInv
  <2> SUFFICES ASSUME WindowsInit PROVE WindowInv
    OBVIOUS
  <2>1. Arrived = {}
    BY DEF WindowsInit, Arrived
  <2> QED BY <2>1 DEF WindowsInit, WindowInv, WindowsTypeOK
<1>2. WindowInv /\ LimiterInv /\ [WindowsNext]_<<now, windowVars>> => WindowInv'
  <2> SUFFICES ASSUME WindowInv, LimiterInv, [WindowsNext]_<<now, windowVars>> PROVE WindowInv'
    OBVIOUS
  <2>1. CASE UNCHANGED windowVars /\ (Tick \/ now' = now)
    BY <2>1 DEF Tick, windowVars, limiter, metrics, WindowInv, WindowsTypeOK, Arrived
  <2> QED BY <2>1, ArrivalTyped, FinishTyped DEF WindowsNext, WindowsStep
<1> QED BY <1>1, <1>2, LimiterInvariant, PTL DEF WindowsSpec

\* A behaviour of the instance that the runs check is one of each of its parts.
LEMMA EachPart == Spec => WindowsSpec /\ NotesSpec /\ TextsSpec
<1>1. Init => WindowsInit /\ now = 0 /\ NotesInit /\ TextsInit
  BY DEF Init, WindowsInit
<1>2. [Next]_vars => [WindowsNext]_<<now, windowVars>>
  <2>1. NotesNext => now' = now
    BY DEF NotesNext, CreateNotification, StartScript, Insert, FindExcess, DeleteExcess,
           JobFails, NotificationsPage, FindToMark, MarkAllRead, SaveMarked
  <2> QED BY <2>1, Zenon DEF Next, vars, WindowsNext
<1>3. [Next]_vars => [NotesNext \/ (Tick /\ UNCHANGED noteVars)]_<<now, noteVars>>
  <2>1. WindowsStep => now' = now
    BY DEF WindowsStep, Admit, Refuse, Arrives, Finish
  <2> QED BY <2>1, Zenon DEF Next, vars
<1>4. [Next]_vars => [TextsStep]_textVars
  BY DEF Next, vars
<1> QED BY <1>1, <1>2, <1>3, <1>4, PTL DEF Spec, WindowsSpec, NotesSpec, TextsSpec

\* Every variable of the limiter, the metrics, the notifications and the texts keeps its type,
\* whatever the constants.
THEOREM WindowsTypeCorrect == Spec => []TypeOK
<1>1. WindowInv /\ NotesInv /\ TextsTypeOK => TypeOK
  BY DEF WindowInv, NotesInv, NotesType, TypeOK
<1> QED BY <1>1, EachPart, WindowInvariant, NotesInvariant, TextsTyped, PTL
=============================================================================
