----------------------------- MODULE RateLimit ------------------------------
(***************************************************************************)
(* The rate limiting plugin, packages/rate-limit/src: the beforeHandle     *)
(* hook with its table of fixed windows, and the adaptive form, whose      *)
(* limit shrinks for keys with a high suspicion score.                     *)
(*                                                                         *)
(* Both hooks are synchronous, so a request is one step up to its handler; *)
(* the adaptive form's afterHandle hook runs when the handler has          *)
(* returned, after whatever other requests came meanwhile.  Time is a      *)
(* clock that ticks between requests.                                      *)
(***************************************************************************)
EXTENDS Integers, FiniteSets, Functions

CONSTANTS
    Clients,
    remoteOf,     \* the peer address the Node bridge attached, or None (Bun)
    forwardedOf,  \* the first hop of x-forwarded-for, or None
    TrustProxy,
    Local,        \* the key of clients nothing is known of
    None,
    Limit,        \* options.max
    Window,       \* windowMs, in ticks
    PruneAt,      \* 10_000 keys in the code
    Threshold,    \* tightenThreshold, in units
    Unit,         \* a score of 1; a power of two, so that halving is exact
    MaxNow,       \* bound: the clock stops here
    MaxBurst,     \* bound: requests per tick
    MaxPending    \* bound: handlers of one client that run at once

ASSUME LimitAssumption == Limit \in Nat \ {0} /\ Window \in Nat \ {0}
ASSUME BoundsAssumption ==
    /\ PruneAt \in Nat /\ MaxNow \in Nat /\ MaxBurst \in Nat /\ MaxPending \in Nat
    /\ Threshold \in Nat \ {0} /\ Unit \in Nat \ {0}
ASSUME UnitAssumption == Unit % (2 ^ (MaxNow \div Window)) = 0
ASSUME ClientsAssumption == \A c \in Clients : remoteOf[c] # Local /\ forwardedOf[c] # Local

VARIABLES
    adaptive,  \* which of the two forms was installed
    now,
    buckets,   \* the fixed form's table: key -> count and end of its window
    states,    \* the adaptive form's: key -> score, tightened and a bucket
    pending,   \* the handlers of each client that have not returned
    sent,      \* the number of requests in this tick
    admitted   \* history: how many requests of a key had passed when a tick began

vars == <<adaptive, now, buckets, states, pending, sent, admitted>>

\* clientIp and defaultKey.
clientIp(c) == IF TrustProxy /\ forwardedOf[c] # None THEN forwardedOf[c] ELSE Local
defaultKey(c) == IF remoteOf[c] # None THEN remoteOf[c] ELSE clientIp(c)
Keys == {defaultKey(c) : c \in Clients}

\* The beginnings of the ticks, and the end of the last one.
Ticks == 0..(MaxNow + 1)

Empty == [k \in {} |-> 0]
Put(f, k, v) == [x \in DOMAIN f \cup {k} |-> IF x = k THEN v ELSE f[x]]

Init ==
    /\ adaptive \in BOOLEAN
    /\ now = 0
    /\ buckets = Empty
    /\ states = Empty
    /\ pending = [c \in Clients |-> 0]
    /\ sent = 0
    /\ admitted = [k \in Keys |-> [t \in Ticks |-> 0]]

Tick ==
    /\ now < MaxNow
    /\ now' = now + 1
    /\ sent' = 0
    /\ UNCHANGED <<adaptive, buckets, states, pending, admitted>>

NewBucket == [count |-> 0, resetAt |-> now + Window]
Over(bucket) == now >= bucket.resetAt

Sends ==
    /\ sent < MaxBurst
    /\ sent' = sent + 1

\* A request that passes in this tick has passed when any later tick begins.
Judge(k, ok) ==
    admitted' = IF ok
                THEN [admitted EXCEPT ![k] = [t \in Ticks |-> IF t > now THEN @[t] + 1 ELSE @[t]]]
                ELSE admitted

-----------------------------------------------------------------------------
(* Fixed windows. *)

\* Slip: the table is cleared when it is full.
PrunedAll == IF Cardinality(DOMAIN buckets) < PruneAt THEN buckets ELSE Empty

\* pruneBuckets.
Pruned ==
    IF Cardinality(DOMAIN buckets) < PruneAt THEN buckets
    ELSE Restrict(buckets, {k \in DOMAIN buckets : ~Over(buckets[k])})

\* The bucket this request counts in, before it is counted.
CurrentBucket(k) ==
    IF k \in DOMAIN Pruned /\ ~Over(Pruned[k]) THEN Pruned[k] ELSE NewBucket

Within(bucket) == bucket.count <= Limit

FixedHook(c) ==
    LET k == defaultKey(c)
        counted == [CurrentBucket(k) EXCEPT !.count = @ + 1]
    IN /\ ~adaptive
       /\ Sends
       /\ buckets' = Put(Pruned, k, counted)
       /\ Judge(k, Within(counted))
       /\ UNCHANGED <<adaptive, now, states, pending>>

-----------------------------------------------------------------------------
(* The adaptive form: AdaptiveLimiter and the two hooks around it. *)

getOrCreate(k) ==
    IF k \in DOMAIN states THEN states[k]
    ELSE [score |-> 0, tightened |-> FALSE, bucket |-> NewBucket]

\* recordSuspicion, whose events weigh 1 for the two kinds the plugin records.
suspect(state) ==
    [state EXCEPT !.score = @ + Unit, !.tightened = state.score + Unit >= Threshold]

\* Slip: the window is renewed, but not the verdict.
rolledTight(state) ==
    IF Over(state.bucket)
    THEN [state EXCEPT !.bucket = NewBucket, !.score = @ \div 2]
    ELSE state

\* consume: the window is renewed, and the score halved.
rolled(state) ==
    IF Over(state.bucket)
    THEN [score |-> state.score \div 2,
          tightened |-> state.tightened /\ state.score \div 2 >= Threshold,
          bucket |-> NewBucket]
    ELSE state

\* consume: the limit that applies; tightenFactor is a quarter.
quota(state) ==
    IF state.tightened
    THEN IF Limit \div 4 < 1 THEN 1 ELSE Limit \div 4
    ELSE Limit

AdaptiveHook(c, badAgent) ==
    LET k == defaultKey(c)
        noted == IF badAgent THEN suspect(getOrCreate(k)) ELSE getOrCreate(k)
        state == [rolled(noted) EXCEPT !.bucket.count = @ + 1]
        ok == state.bucket.count <= quota(state)
    IN /\ adaptive
       /\ Sends
       /\ ok => pending[c] < MaxPending
       /\ states' = Put(states, k, state)
       /\ pending' = IF ok THEN [pending EXCEPT ![c] = @ + 1] ELSE pending
       /\ Judge(k, ok)
       /\ UNCHANGED <<adaptive, now, buckets>>

\* What the handler made of the request.  The hook reads ctx.pendingResult, which
\* is set only for the mapResponse hooks that come after it, and then ctx.set.
Results == {"found", "set404", "response404"}

AfterHandle(c, result) ==
    LET k == defaultKey(c)
    IN /\ adaptive
       /\ pending[c] > 0
       /\ pending' = [pending EXCEPT ![c] = @ - 1]
       /\ states' = IF result = "set404"
                    THEN Put(states, k, suspect(getOrCreate(k)))
                    ELSE states
       /\ UNCHANGED <<adaptive, now, buckets, sent, admitted>>

Finished ==
    /\ now = MaxNow
    /\ \/ sent = MaxBurst
       \/ adaptive /\ \A c \in Clients : pending[c] = MaxPending
    /\ UNCHANGED vars

Next ==
    \/ Tick
    \/ \E c \in Clients :
          \/ FixedHook(c)
          \/ \E bad \in BOOLEAN : AdaptiveHook(c, bad)
          \/ \E result \in Results : AfterHandle(c, result)
    \/ Finished

Spec == Init /\ [][Next]_vars

-----------------------------------------------------------------------------
(* Properties. *)

\* Windows start with the first request of a key and not on the clock: wherever
\* an interval of the window's length is laid, it holds at most twice the limit,
\* whatever was pruned and however often the limit was tightened.
AtMostTwiceTheLimit ==
    \A k \in Keys, t, u \in Ticks :
        t <= u /\ u - t <= Window => admitted[k][u] - admitted[k][t] <= 2 * Limit

\* A key is held to the tightened limit exactly as long as its score, which both
\* hooks and the passing of windows change, is at the threshold.
TightenedWhileSuspected ==
    \A k \in DOMAIN states : states[k].tightened <=> states[k].score >= Threshold

=============================================================================
