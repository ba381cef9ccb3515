------------------------------- MODULE Windows -------------------------------
(***************************************************************************)
(* The two sliding windows a request passes: rateLimit()                   *)
(* (middleware/rateLimit.ts) when it arrives and, when its response has    *)
(* finished, the metrics of recordRequest() (metrics/metricsService.ts).   *)
(*                                                                         *)
(* Both run without an await.  Requests are numbered; an array of          *)
(* timestamps is the sequence, or the set, of the requests they belong to. *)
(***************************************************************************)
EXTENDS Clock, Sequences, FiniteSets

CONSTANTS
    Keys,               \* sessions, or addresses of requests without one
    PerMinute,          \* rateLimit.perMinute
    Window,             \* windowMs, in ticks
    Second,             \* ticks of a second
    Durations,          \* windowDurations, in ticks
    MaxRequests         \* bound

ASSUME WindowsAssumption ==
    /\ PerMinute \in Nat \ {0} /\ Window \in Nat \ {0} /\ Second \in Nat \ {0}
    /\ Durations \subseteq Nat \ {0}
    /\ MaxRequests \in Nat

VARIABLES
    request,            \* request[n]: when and with which result it came and ended
    count,              \* requests so far
    hits,               \* hits[k]: the bucket of a key, as requests
    retryAt,            \* retryAt[k]: the end of the wait a refused caller was told
    timestamps,         \* timestamps[d]: as the requests they are of
    latencies           \* latencies[d]: as the requests they are of

metrics == <<timestamps, latencies>>
limiter == <<hits, retryAt>>
windowVars == <<request, count, limiter, metrics>>

Numbers == 1..MaxRequests
Request == [key : Keys, at : Nat, admitted : BOOLEAN, end : Nat \cup {-1}]
Arrived == 1..count

WindowsTypeOK ==
    /\ now \in 0..MaxNow
    /\ count \in 0..MaxRequests
    /\ request \in [Arrived -> Request]
    /\ hits \in [Keys -> SUBSET Arrived]
    /\ retryAt \in [Keys -> Nat]
    /\ timestamps \in [Durations -> Seq(Numbers)]
    /\ latencies \in [Durations -> Seq(Numbers)]

WindowsInit ==
    /\ now = 0 /\ count = 0 /\ request = [n \in {} |-> {}]
    /\ hits = [k \in Keys |-> {}] /\ retryAt = [k \in Keys |-> 0]
    /\ timestamps = [d \in Durations |-> <<>>]
    /\ latencies = [d \in Durations |-> <<>>]
-----------------------------------------------------------------------------
(* rateLimit()                                                             *)

\* Mutant: a hit leaves the window a tick early.
RecentEarly(n) == now - request[n].at < Window - 1
Recent(n) == now - request[n].at < Window

Kept(k) == {n \in hits[k] : Recent(n)}

\* bucket.hits[0]
Oldest(S) == CHOOSE n \in S : \A m \in S : n <= m

\* Mutant: rounded down.
WaitFloor(ticks) == ticks \div Second
Wait(ticks) == (ticks + Second - 1) \div Second

AtLeast1(seconds) == IF seconds < 1 THEN 1 ELSE seconds
RetryAfter(k) == AtLeast1(Wait(Window - (now - request[Oldest(Kept(k))].at)))

Full(k) == Cardinality(Kept(k)) >= PerMinute

Arrives(k, admitted) ==
    /\ count < MaxRequests /\ count' = count + 1
    /\ request' = [n \in 1..count + 1 |-> IF n <= count THEN request[n]
            ELSE [key |-> k, at |-> now, admitted |-> admitted, end |-> -1]]
    /\ UNCHANGED <<now, metrics>>

Admit(k) ==
    /\ ~Full(k)
    /\ Arrives(k, TRUE)
    /\ hits' = [hits EXCEPT ![k] = Kept(k) \cup {count + 1}]
    /\ retryAt' = [retryAt EXCEPT ![k] = 0]

Refuse(k) ==
    /\ Full(k)
    /\ Arrives(k, FALSE)
    /\ hits' = [hits EXCEPT ![k] = Kept(k)]
    /\ retryAt' = [retryAt EXCEPT ![k] = now + Second * RetryAfter(k)]
-----------------------------------------------------------------------------
(* recordRequest() and getMetricsSnapshot(); a refused request counts too. *)

InWindow(n, d) == now - request[n].end < d

\* The filter of an array, by the indices it keeps: the n-th of them, in their order.
Recents(d) == {i \in DOMAIN timestamps[d] : InWindow(timestamps[d][i], d)}
Nth(S, n) == CHOOSE i \in S : Cardinality({j \in S : j <= i}) = n
Timely(d) ==
    LET kept == Recents(d) IN
    [n \in 1..Cardinality(kept) |-> timestamps[d][Nth(kept, n)]]

\* The filter asks by index, after the timestamps were filtered: the oldest latencies
\* are kept, as many as there are timestamps.  The rebuilding drops nothing more.
LatenciesKept(d) == SubSeq(latencies[d], 1, Len(Timely(d)))

Finish(n) ==
    /\ request[n].end = -1
    /\ request' = [request EXCEPT ![n].end = now]
    /\ timestamps' = [d \in Durations |-> Append(Timely(d), n)]
    /\ latencies' = [d \in Durations |-> Append(LatenciesKept(d), n)]
    /\ UNCHANGED <<now, count, limiter>>

\* What the snapshot counts for rpm, and whose latencies it averages.
Counted(d) == {timestamps[d][i] : i \in Recents(d)}
Averaged(d) == {latencies[d][i] : i \in Recents(d) \cap DOMAIN latencies[d]}
-----------------------------------------------------------------------------
WindowsStep ==
    \/ \E k \in Keys : Admit(k) \/ Refuse(k)
    \/ \E n \in Arrived : Finish(n)

WindowsNext == WindowsStep \/ (Tick /\ UNCHANGED windowVars)

WindowsSpec == WindowsInit /\ [][WindowsNext]_<<now, windowVars>>
-----------------------------------------------------------------------------
\* No key is admitted more than PerMinute times in any stretch of Window, wherever the
\* stretch begins (rateLimit.ts:38-44).
RateBound ==
    \A n \in Arrived : request[n].admitted =>
        Cardinality({m \in 1..n : request[m].admitted /\ request[m].key = request[n].key
                                  /\ request[n].at - request[m].at < Window}) <= PerMinute

\* A caller that was refused and waits as long as it was told is admitted, unless it
\* was admitted meanwhile (rateLimit.ts:39-43).
RetryIsEnough ==
    \A k \in Keys : retryAt[k] # 0 /\ now >= retryAt[k] => ~Full(k)

\* "Keep corresponding latencies ... keep them in sync by rebuilding"
\* (metricsService.ts:27, :30): the latencies averaged are those of the requests that
\* are counted.
LatenciesPaired == \A d \in Durations : Averaged(d) = Counted(d)
=============================================================================
