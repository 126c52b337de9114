-------------------------- MODULE RateLimit_proofs --------------------------
(***************************************************************************)
(* Theorems about both forms of RateLimit, for any clients, limit,         *)
(* window, threshold and number of handlers at once.                       *)
(***************************************************************************)
EXTENDS RateLimit, TLAPS

States == [score : Nat, tightened : BOOLEAN, bucket : [count : Nat, resetAt : Nat]]

\* The verdict of a key follows its score.
Follows(state) == state.tightened <=> state.score >= Threshold

TightInv ==
    /\ now \in Nat
    /\ \A k \in DOMAIN states : states[k] \in States /\ Follows(states[k])

\* A key that is seen for the first time starts without suspicion.
LEMMA CreatedFollows ==
    ASSUME TightInv, NEW k
    PROVE  getOrCreate(k) \in States /\ Follows(getOrCreate(k))
  <1>1. CASE k \in DOMAIN states
    BY <1>1 DEF getOrCreate, TightInv
  <1>2. CASE k \notin DOMAIN states
    BY <1>2, LimitAssumption, BoundsAssumption DEF getOrCreate, TightInv, States, Follows, NewBucket
  <1>3. QED
    BY <1>1, <1>2

\* recordSuspicion recomputes the verdict.
LEMMA SuspectFollows ==
    ASSUME NEW s \in States
    PROVE  suspect(s) \in States /\ Follows(suspect(s))
  <1> DEFINE score == s.score + Unit
  <1>1. score \in Nat
    BY BoundsAssumption DEF States
  <1>2. CASE score >= Threshold
    <2>1. suspect(s) = [s EXCEPT !.score = score, !.tightened = TRUE]
      BY <1>2, Zenon DEF suspect
    <2>2. QED
      BY <1>1, <1>2, <2>1 DEF States, Follows
  <1>3. CASE ~(score >= Threshold)
    <2>1. (score >= Threshold) = FALSE
      BY <1>3
    <2>2. suspect(s) = [s EXCEPT !.score = score, !.tightened = FALSE]
      BY <2>1, Zenon DEF suspect
    <2>3. QED
      BY <1>1, <1>3, <2>2 DEF States, Follows
  <1>4. QED
    BY <1>2, <1>3

\* A new window lifts the verdict of a key whose halved score is below the
\* threshold, and never imposes one: half a score is at most the score.
LEMMA RolledFollows ==
    ASSUME TightInv, NEW s \in States, Follows(s)
    PROVE  rolled(s) \in States /\ Follows(rolled(s))
  <1>1. CASE Over(s.bucket)
    <2> DEFINE half == s.score \div 2
    <2>1. half \in Nat /\ half <= s.score
      BY DEF States
    <2>2. rolled(s) =
            [score |-> half, tightened |-> s.tightened /\ half >= Threshold, bucket |-> NewBucket]
      BY <1>1 DEF rolled
    <2>3. NewBucket \in [count : Nat, resetAt : Nat]
      BY LimitAssumption DEF NewBucket, TightInv
    <2>4. (s.tightened /\ half >= Threshold) <=> half >= Threshold
      <3>1. s.score \in Nat /\ Threshold \in Nat
        BY BoundsAssumption DEF States
      <3>2. half >= Threshold => s.score >= Threshold
        BY <2>1, <3>1
      <3>3. QED
        BY <3>2, Zenon DEF Follows
    <2> DEFINE tight == s.tightened /\ half >= Threshold
    <2>5. tight \in BOOLEAN
      OBVIOUS
    <2>6. rolled(s).tightened = tight /\ rolled(s).score = half
      BY <2>2
    <2>7. rolled(s) \in States
      BY <2>1, <2>2, <2>3, <2>5 DEF States
    <2> HIDE DEF half, tight
    <2>8. QED
      BY <2>4, <2>6, <2>7, Zenon DEF Follows, tight
  <1>2. CASE ~Over(s.bucket)
    BY <1>2 DEF rolled
  <1>3. QED
    BY <1>1, <1>2

\* Counting a request does not touch the score.
LEMMA CountedFollows ==
    ASSUME NEW s \in States, Follows(s)
    PROVE  LET counted == [s EXCEPT !.bucket.count = @ + 1]
           IN  counted \in States /\ Follows(counted)
  BY DEF States, Follows

LEMMA PutKeeps ==
    ASSUME TightInv, NEW k, NEW s \in States, Follows(s), states' = Put(states, k, s), now' = now
    PROVE  TightInv'
  BY DEF TightInv, Put, Follows

LEMMA TightInit == Init => TightInv
  BY DEF Init, TightInv, Empty

LEMMA TightNext == TightInv /\ [Next]_vars => TightInv'
  <1> SUFFICES ASSUME TightInv, [Next]_vars PROVE TightInv'
    OBVIOUS
  <1>1. CASE Tick
    BY <1>1 DEF Tick, TightInv, Follows
  <1>2. ASSUME NEW c \in Clients, FixedHook(c) PROVE TightInv'
    BY <1>2 DEF FixedHook, TightInv, Follows
  <1>3. ASSUME NEW c \in Clients, NEW bad \in BOOLEAN, AdaptiveHook(c, bad) PROVE TightInv'
    <2> DEFINE k == defaultKey(c)
               noted == IF bad THEN suspect(getOrCreate(k)) ELSE getOrCreate(k)
               state == [rolled(noted) EXCEPT !.bucket.count = @ + 1]
    <2>1. states' = Put(states, k, state) /\ now' = now
      BY <1>3 DEF AdaptiveHook
    <2>2. noted \in States /\ Follows(noted)
      BY CreatedFollows, SuspectFollows
    <2>3. rolled(noted) \in States /\ Follows(rolled(noted))
      BY <2>2, RolledFollows
    <2>4. state \in States /\ Follows(state)
      BY <2>3, CountedFollows
    <2> HIDE DEF state, k
    <2>5. QED
      BY <2>1, <2>4, PutKeeps
  <1>4. ASSUME NEW c \in Clients, NEW result \in Results, AfterHandle(c, result) PROVE TightInv'
    <2>1. now' = now
      BY <1>4 DEF AfterHandle
    <2>2. CASE result = "set404"
      <3>1. states' = Put(states, defaultKey(c), suspect(getOrCreate(defaultKey(c))))
        BY <1>4, <2>2 DEF AfterHandle
      <3>2. QED
        BY <2>1, <3>1, CreatedFollows, SuspectFollows, PutKeeps
    <2>3. CASE result # "set404"
      BY <1>4, <2>1, <2>3 DEF AfterHandle, TightInv, Follows
    <2>4. QED
      BY <2>2, <2>3
  <1>5. CASE UNCHANGED vars
    BY <1>5 DEF vars, TightInv, Follows
  <1>6. QED
    BY <1>1, <1>2, <1>3, <1>4, <1>5 DEF Next, Finished

\* For every clock, window and load: the tightened limit applies to a key exactly
\* while its score is at the threshold (recordSuspicion, consume).
THEOREM TightenedFollowsScore == Spec => []TightenedWhileSuspected
  <1>1. TightInv => TightenedWhileSuspected
    BY DEF TightInv, TightenedWhileSuspected, Follows
  <1>2. QED
    BY <1>1, TightInit, TightNext, PTL DEF Spec

-----------------------------------------------------------------------------
(* How many requests of a key pass.  f is the key's history: f[t] of them  *)
(* had passed when tick t began, and f[Last] have in all.                  *)

Last == MaxNow + 1
Rises(f) == \A t, u \in Ticks : t <= u => f[t] <= f[u]
TwiceAtMost(f) ==
    \A t, u \in Ticks : t <= u /\ u - t <= Window => f[u] - f[t] <= 2 * Limit

\* What the table knows of a key's past while it has a bucket for it: since the
\* window began at most what was counted has passed, and no more than the limit;
\* so had any interval of a window's length that ended when this one began; and
\* nothing has passed since the window ended.
Counted(f, bucket, n) ==
    LET begun == bucket.resetAt - Window
    IN /\ bucket \in [count : Nat, resetAt : Int]
       /\ begun \in 0..n
       /\ \A t \in Ticks : t >= begun => f[t] - f[begun] <= bucket.count /\ f[t] - f[begun] <= Limit
       /\ \A t \in 0..begun : begun - t <= Window => f[begun] - f[t] <= Limit
       /\ \A t \in Ticks : t >= bucket.resetAt => f[t] = f[Last]

\* A key without a bucket has not passed more than the limit within a window of
\* now, and not at all in this tick.
Idle(f, n) ==
    /\ \A t \in 0..n : n - t <= Window => f[Last] - f[t] <= Limit
    /\ \A t \in Ticks : t >= n => f[t] = f[Last]

\* The bucket of a key, in the table of the form that is installed.
HasBucket(k) == IF adaptive THEN k \in DOMAIN states ELSE k \in DOMAIN buckets
BucketOf(k) == IF adaptive THEN states[k].bucket ELSE buckets[k]

KeyInv(k) ==
    /\ admitted[k] \in [Ticks -> Nat]
    /\ Rises(admitted[k])
    /\ TwiceAtMost(admitted[k])
    /\ HasBucket(k) => Counted(admitted[k], BucketOf(k), now)
    /\ ~HasBucket(k) => Idle(admitted[k], now)

LimitInv ==
    /\ adaptive \in BOOLEAN
    /\ now \in 0..MaxNow
    /\ admitted \in [Keys -> [Ticks -> Nat]]
    /\ \A k \in Keys : KeyInv(k)

\* The bounds on the two parts of an interval add up.
LEMMA PartsAddUp ==
    ASSUME NEW f \in [Ticks -> Nat], NEW bucket, NEW n \in 0..MaxNow,
           Counted(f, bucket, n), Rises(f),
           NEW t \in Ticks, NEW u \in Ticks,
           t <= u, u - t <= Window, bucket.resetAt - Window <= u
    PROVE  f[u] - f[t] <= 2 * Limit
  <1> DEFINE begun == bucket.resetAt - Window
  <1>1. begun \in 0..n /\ begun \in Ticks /\ begun \in Int /\ t \in Int /\ u \in Int
    BY BoundsAssumption DEF Counted, Ticks
  <1>2. f[u] - f[begun] <= Limit
    BY <1>1 DEF Counted
  <1>3. f[u] \in Nat /\ f[t] \in Nat /\ f[begun] \in Nat
    BY <1>1
  <1>4. CASE begun <= t
    <2>1. f[begun] <= f[t]
      BY <1>1, <1>4 DEF Rises
    <2>2. QED
      BY <1>2, <1>3, <2>1, LimitAssumption
  <1>5. CASE ~(begun <= t)
    <2>1. t \in 0..begun /\ begun - t <= Window
      BY <1>1, <1>5, LimitAssumption DEF Ticks
    <2>2. f[begun] - f[t] <= Limit
      BY <2>1 DEF Counted
    <2>3. QED
      BY <1>2, <1>3, <2>2, LimitAssumption
  <1>6. QED
    BY <1>4, <1>5

\* A bucket whose window is over can be forgotten.
LEMMA OverIsIdle ==
    ASSUME NEW f \in [Ticks -> Nat], NEW bucket, NEW n \in 0..MaxNow,
           Counted(f, bucket, n), n >= bucket.resetAt, Rises(f)
    PROVE  Idle(f, n)
  <1> DEFINE begun == bucket.resetAt - Window
  <1>1. /\ begun \in 0..n /\ begun \in Ticks /\ begun \in Int /\ bucket.resetAt \in Int
        /\ n \in Ticks /\ Last \in Ticks
    BY BoundsAssumption DEF Counted, Ticks, Last
  <1>2. ASSUME NEW t \in 0..n, n - t <= Window PROVE f[Last] - f[t] <= Limit
    <2>1. t \in Ticks /\ begun <= t
      BY <1>1, <1>2, LimitAssumption, BoundsAssumption DEF Ticks
    <2>2. f[begun] <= f[t]
      BY <1>1, <2>1 DEF Rises
    <2>3. f[Last] - f[begun] <= Limit
      <3>1. Last >= begun
        BY <1>1, BoundsAssumption DEF Last
      <3>2. QED
        BY <1>1, <3>1 DEF Counted
    <2>4. f[Last] \in Nat /\ f[begun] \in Nat /\ f[t] \in Nat
      BY <1>1, <2>1
    <2>5. QED
      BY <2>2, <2>3, <2>4, LimitAssumption
  <1>3. ASSUME NEW t \in Ticks, t >= n PROVE f[t] = f[Last]
    <2>1. t >= bucket.resetAt
      BY <1>1, <1>3 DEF Ticks
    <2>2. QED
      BY <2>1 DEF Counted
  <1>4. QED
    BY <1>2, <1>3 DEF Idle

\* An idle key stays idle as time passes.
LEMMA IdleStays ==
    ASSUME NEW f \in [Ticks -> Nat], NEW n \in 0..MaxNow, Idle(f, n)
    PROVE  Idle(f, n + 1)
  <1>1. n + 1 \in Ticks /\ Last \in Ticks /\ n \in Int
    BY BoundsAssumption DEF Ticks, Last
  <1>2. ASSUME NEW t \in 0..(n + 1), n + 1 - t <= Window PROVE f[Last] - f[t] <= Limit
    <2>1. CASE t \in 0..n
      BY <1>1, <1>2, <2>1, LimitAssumption DEF Idle
    <2>2. CASE t = n + 1
      <3>1. f[t] = f[Last]
        BY <1>1, <2>2 DEF Idle
      <3>2. QED
        BY <1>1, <3>1, LimitAssumption
    <2>3. QED
      BY <1>2, <2>1, <2>2
  <1>3. QED
    BY <1>1, <1>2 DEF Idle, Ticks

\* A window that has just begun counts what passes from now on.
LEMMA NewIsCounted ==
    ASSUME NEW f \in [Ticks -> Nat], now \in 0..MaxNow, Idle(f, now)
    PROVE  Counted(f, NewBucket, now)
  <1> DEFINE begun == NewBucket.resetAt - Window
  <1>1. /\ NewBucket.count = 0 /\ NewBucket.resetAt = now + Window /\ begun = now
        /\ now \in Ticks /\ Last \in Ticks /\ now \in Int
        /\ NewBucket \in [count : Nat, resetAt : Int]
    BY LimitAssumption, BoundsAssumption DEF NewBucket, Ticks, Last
  <1>2. f[now] = f[Last]
    BY <1>1 DEF Idle
  <1>3. ASSUME NEW t \in Ticks, t >= now PROVE f[t] - f[now] = 0
    BY <1>1, <1>2, <1>3 DEF Idle
  <1>4. ASSUME NEW t \in 0..now, now - t <= Window PROVE f[now] - f[t] <= Limit
    BY <1>2, <1>4 DEF Idle
  <1>5. ASSUME NEW t \in Ticks, t >= now + Window PROVE f[t] = f[Last]
    BY <1>1, <1>5, LimitAssumption DEF Idle, Ticks
  <1> HIDE DEF begun
  <1>6. QED
    BY <1>1, <1>3, <1>4, <1>5, LimitAssumption DEF Counted, begun

\* Time passing does not disturb a bucket.
LEMMA CountedStays ==
    ASSUME NEW f, NEW bucket, NEW n \in Nat, Counted(f, bucket, n)
    PROVE  Counted(f, bucket, n + 1)
  BY DEF Counted

\* Counting a request that is refused.
LEMMA CountedRefused ==
    ASSUME NEW f \in [Ticks -> Nat], NEW b, NEW n \in 0..MaxNow, Counted(f, b, n),
           NEW c, c = [b EXCEPT !.count = @ + 1]
    PROVE  Counted(f, c, n)
  <1> DEFINE begun == b.resetAt - Window
  <1>1. /\ b.count \in Nat /\ begun \in Ticks /\ c \in [count : Nat, resetAt : Int]
        /\ c.count = b.count + 1 /\ c.resetAt = b.resetAt
    <2>1. b \in [count : Nat, resetAt : Int] /\ begun \in Ticks
      BY BoundsAssumption DEF Counted, Ticks
    <2>2. QED
      BY <2>1
  <1>2. ASSUME NEW t \in Ticks, t >= begun PROVE f[t] - f[begun] <= c.count
    <2>1. f[t] - f[begun] <= b.count
      BY <1>2 DEF Counted
    <2>2. QED
      BY <1>1, <2>1
  <1>3. QED
    BY <1>1, <1>2 DEF Counted

\* The history when a request passes at n.
Passed(f, n) == [t \in Ticks |-> IF t > n THEN f[t] + 1 ELSE f[t]]

\* Counting a request that passes: the limit allowed it, and its window is on.
LEMMA CountedPassed ==
    ASSUME NEW f \in [Ticks -> Nat], NEW b, NEW n \in 0..MaxNow, Counted(f, b, n),
           Rises(f), TwiceAtMost(f), n < b.resetAt, b.count + 1 <= Limit,
           NEW c, c = [b EXCEPT !.count = @ + 1]
    PROVE  /\ Passed(f, n) \in [Ticks -> Nat]
           /\ Rises(Passed(f, n))
           /\ Counted(Passed(f, n), c, n)
           /\ TwiceAtMost(Passed(f, n))
  <1> DEFINE begun == b.resetAt - Window
             g == Passed(f, n)
  <1>1. /\ b.count \in Nat /\ begun \in 0..n /\ begun \in Ticks /\ begun \in Int
        /\ b.resetAt \in Int /\ n \in Int /\ Last \in Ticks /\ Last > n
        /\ c \in [count : Nat, resetAt : Int] /\ c.count = b.count + 1
        /\ c.resetAt = b.resetAt /\ begun = c.resetAt - Window
    <2>1. /\ b \in [count : Nat, resetAt : Int] /\ begun \in 0..n /\ begun \in Ticks
          /\ begun \in Int /\ n \in Int /\ Last \in Ticks /\ Last > n
      BY BoundsAssumption DEF Counted, Ticks, Last
    <2>2. c \in [count : Nat, resetAt : Int] /\ c.count = b.count + 1 /\ c.resetAt = b.resetAt
      BY <2>1
    <2>3. QED
      BY <2>1, <2>2
  <1>2. g \in [Ticks -> Nat]
    BY DEF Passed
  <1>3. \A t \in Ticks : /\ t \in Int /\ f[t] \in Nat /\ g[t] \in Nat
                         /\ t > n => g[t] = f[t] + 1
                         /\ t <= n => g[t] = f[t]
    BY <1>1 DEF Passed, Ticks
  <1> HIDE DEF g
  <1>4. Rises(g)
    <2> SUFFICES ASSUME NEW t \in Ticks, NEW u \in Ticks, t <= u PROVE g[t] <= g[u]
      BY DEF Rises
    <2>1. f[t] <= f[u]
      BY DEF Rises
    <2>2. QED
      BY <1>1, <1>3, <2>1
  <1>5. Counted(g, c, n)
    <2>1. g[begun] = f[begun]
      BY <1>1, <1>3
    <2>2. ASSUME NEW t \in Ticks, t >= begun
          PROVE  g[t] - g[begun] <= c.count /\ g[t] - g[begun] <= Limit
      <3>1. f[t] - f[begun] <= b.count
        BY <2>2 DEF Counted
      <3>2. g[t] <= f[t] + 1 /\ f[t] \in Nat /\ g[t] \in Nat /\ f[begun] \in Nat
        BY <1>1, <1>3
      <3>3. QED
        BY <1>1, <2>1, <3>1, <3>2, LimitAssumption
    <2>3. ASSUME NEW t \in 0..begun, begun - t <= Window PROVE g[begun] - g[t] <= Limit
      <3>1. t \in Ticks /\ t <= n
        BY <1>1, BoundsAssumption DEF Ticks
      <3>2. f[begun] - f[t] <= Limit
        BY <2>3 DEF Counted
      <3>3. QED
        BY <1>3, <2>1, <3>1, <3>2
    <2>4. ASSUME NEW t \in Ticks, t >= c.resetAt PROVE g[t] = g[Last]
      <3>1. f[t] = f[Last]
        BY <2>4 DEF Counted
      <3>2. t > n
        BY <1>1, <1>3, <2>4
      <3>3. QED
        BY <1>1, <1>3, <3>1, <3>2
    <2>5. QED
      BY <1>1, <2>2, <2>3, <2>4 DEF Counted
  <1>6. TwiceAtMost(g)
    <2> SUFFICES ASSUME NEW t \in Ticks, NEW u \in Ticks, t <= u, u - t <= Window
                 PROVE  g[u] - g[t] <= 2 * Limit
      BY DEF TwiceAtMost
    <2>1. CASE u <= n
      <3>1. f[u] - f[t] <= 2 * Limit
        BY DEF TwiceAtMost
      <3>2. t <= n
        BY <1>1, <1>3, <2>1
      <3>3. QED
        BY <1>3, <2>1, <3>1, <3>2
    <2>2. CASE u > n
      <3>1. c.resetAt - Window <= u
        BY <1>1, <1>3, <2>2
      <3>2. QED
        BY <1>2, <1>4, <1>5, <3>1, PartsAddUp
    <2>3. QED
      BY <1>1, <1>3, <2>1, <2>2
  <1>7. QED
    BY <1>2, <1>4, <1>5, <1>6 DEF g

\* What one hook does to the key of the request: it counts it in a bucket that is
\* current, and lets it pass only within the limit.
LEMMA HookKeeps ==
    ASSUME LimitInv, NEW k \in Keys, NEW b, NEW c, NEW ok \in BOOLEAN,
           now' = now, Judge(k, ok),
           \/ b = NewBucket /\ Idle(admitted[k], now)
           \/ Counted(admitted[k], b, now) /\ ~Over(b),
           c = [b EXCEPT !.count = @ + 1],
           ok => c.count <= Limit,
           HasBucket(k)', BucketOf(k)' = c
    PROVE  KeyInv(k)'
  <1> DEFINE f == admitted[k]
  <1>1. /\ f \in [Ticks -> Nat] /\ Rises(f) /\ TwiceAtMost(f) /\ now \in 0..MaxNow
        /\ admitted \in [Keys -> [Ticks -> Nat]] /\ now \in Int
    BY BoundsAssumption DEF LimitInv, KeyInv
  <1>2. Counted(f, b, now) /\ now < b.resetAt
    <2>1. CASE b = NewBucket /\ Idle(f, now)
      <3>1. now < NewBucket.resetAt
        BY <1>1, LimitAssumption DEF NewBucket
      <3>2. QED
        BY <1>1, <2>1, <3>1, NewIsCounted
    <2>2. CASE Counted(f, b, now) /\ ~Over(b)
      BY <1>1, <2>2 DEF Over, Counted
    <2>3. QED
      BY <2>1, <2>2
  <1>3. CASE ok
    <2>1. admitted'[k] = Passed(f, now)
      BY <1>1, <1>3 DEF Judge, Passed
    <2>2. b.count + 1 <= Limit
      BY <1>2, <1>3 DEF Counted
    <2>3. /\ Passed(f, now) \in [Ticks -> Nat] /\ Rises(Passed(f, now))
          /\ Counted(Passed(f, now), c, now) /\ TwiceAtMost(Passed(f, now))
      BY <1>1, <1>2, <2>2, CountedPassed
    <2>4. admitted'[k] \in [Ticks -> Nat] /\ Rises(admitted'[k]) /\ TwiceAtMost(admitted'[k])
          /\ Counted(admitted'[k], c, now')
      BY <2>1, <2>3
    <2> HIDE DEF f
    <2>5. QED
      BY <2>4 DEF KeyInv
  <1>4. CASE ~ok
    <2>1. admitted' = admitted
      BY <1>4 DEF Judge
    <2>2. Counted(f, c, now)
      BY <1>1, <1>2, CountedRefused
    <2>3. QED
      BY <1>1, <2>1, <2>2 DEF KeyInv
  <1>5. QED
    BY <1>3, <1>4

\* A key keeps its history: its bucket stays, or is forgotten when it is over, or
\* is a new one of an idle key.
LEMMA OthersKeep ==
    ASSUME LimitInv, NEW k \in Keys, now' = now, admitted'[k] = admitted[k],
           \/ HasBucket(k) /\ HasBucket(k)' /\ BucketOf(k)' = BucketOf(k)
           \/ HasBucket(k) /\ ~HasBucket(k)' /\ Over(BucketOf(k))
           \/ ~HasBucket(k) /\ ~HasBucket(k)'
           \/ ~HasBucket(k) /\ HasBucket(k)' /\ BucketOf(k)' = NewBucket
    PROVE  KeyInv(k)'
  <1>1. KeyInv(k) /\ now \in 0..MaxNow
    BY DEF LimitInv
  <1>2. admitted[k] \in [Ticks -> Nat] /\ Rises(admitted[k]) /\ TwiceAtMost(admitted[k])
    BY <1>1 DEF KeyInv
  <1>3. CASE HasBucket(k) /\ HasBucket(k)' /\ BucketOf(k)' = BucketOf(k)
    BY <1>1, <1>3 DEF KeyInv
  <1>4. CASE HasBucket(k) /\ ~HasBucket(k)' /\ Over(BucketOf(k))
    <2>1. Idle(admitted[k], now)
      BY <1>1, <1>2, <1>4, OverIsIdle DEF KeyInv, Over
    <2>2. QED
      BY <1>2, <1>4, <2>1 DEF KeyInv
  <1>5. CASE ~HasBucket(k) /\ ~HasBucket(k)'
    BY <1>1, <1>5 DEF KeyInv
  <1>6. CASE ~HasBucket(k) /\ HasBucket(k)' /\ BucketOf(k)' = NewBucket
    <2>1. Counted(admitted[k], NewBucket, now)
      BY <1>1, <1>2, <1>6, NewIsCounted DEF KeyInv
    <2>2. QED
      BY <1>2, <1>6, <2>1 DEF KeyInv
  <1>7. QED
    BY <1>3, <1>4, <1>5, <1>6

LEMMA LimitInit == Init => LimitInv
  <1> SUFFICES ASSUME Init PROVE LimitInv
    OBVIOUS
  <1>1. adaptive \in BOOLEAN /\ now = 0 /\ now \in 0..MaxNow
    BY BoundsAssumption DEF Init
  <1>2. admitted \in [Keys -> [Ticks -> Nat]]
    BY DEF Init
  <1>3. ASSUME NEW k \in Keys PROVE KeyInv(k)
    <2>1. admitted[k] = [t \in Ticks |-> 0]
      BY DEF Init
    <2>2. ~HasBucket(k)
      BY DEF Init, HasBucket, Empty
    <2>3. Rises(admitted[k]) /\ TwiceAtMost(admitted[k])
      BY <2>1, LimitAssumption DEF Rises, TwiceAtMost
    <2>4. Idle(admitted[k], now)
      BY <1>1, <2>1, LimitAssumption, BoundsAssumption DEF Idle, Ticks, Last
    <2>5. QED
      BY <2>1, <2>2, <2>3, <2>4 DEF KeyInv
  <1>4. QED
    BY <1>1, <1>2, <1>3 DEF LimitInv

LEMMA LimitTick == LimitInv /\ Tick => LimitInv'
  <1> SUFFICES ASSUME LimitInv, Tick PROVE LimitInv'
    OBVIOUS
  <1>1. /\ now' = now + 1 /\ now' \in 0..MaxNow /\ now \in 0..MaxNow /\ now \in Nat
        /\ admitted' = admitted
    BY BoundsAssumption DEF LimitInv, Tick
  <1>2. ASSUME NEW k \in Keys PROVE KeyInv(k)'
    <2>1. KeyInv(k)
      BY DEF LimitInv
    <2>2. HasBucket(k)' = HasBucket(k) /\ BucketOf(k)' = BucketOf(k)
      BY DEF Tick, HasBucket, BucketOf
    <2>3. CASE HasBucket(k)
      BY <1>1, <2>1, <2>2, <2>3, CountedStays DEF KeyInv
    <2>4. CASE ~HasBucket(k)
      <3>1. Idle(admitted[k], now')
        BY <1>1, <2>1, <2>4, IdleStays DEF KeyInv
      <3>2. QED
        BY <1>1, <2>1, <2>2, <2>4, <3>1 DEF KeyInv
    <2>5. QED
      BY <2>3, <2>4
  <1>3. QED
    BY <1>1, <1>2 DEF LimitInv, Tick

LEMMA JudgeTypes ==
    ASSUME LimitInv, NEW k \in Keys, NEW ok \in BOOLEAN, Judge(k, ok)
    PROVE  /\ admitted' \in [Keys -> [Ticks -> Nat]]
           /\ \A o \in Keys \ {k} : admitted'[o] = admitted[o]
  BY DEF LimitInv, Judge

\* The fixed form: pruneBuckets leaves out nothing but windows that are over.
LEMMA LimitFixed ==
    ASSUME LimitInv, NEW c \in Clients, FixedHook(c)
    PROVE  LimitInv'
  <1> DEFINE k == defaultKey(c)
             bucket == CurrentBucket(k)
             counted == [bucket EXCEPT !.count = @ + 1]
             ok == Within(counted)
  <1>1. /\ ~adaptive /\ buckets' = Put(Pruned, k, counted) /\ Judge(k, ok)
        /\ adaptive' = adaptive /\ now' = now
    BY DEF FixedHook
  <1>2. k \in Keys
    BY DEF Keys
  <1>3. /\ DOMAIN Pruned \subseteq DOMAIN buckets
        /\ \A o \in DOMAIN Pruned : Pruned[o] = buckets[o]
        /\ \A o \in DOMAIN buckets : o \in DOMAIN Pruned \/ Over(buckets[o])
    BY DEF Pruned, Restrict
  <1>4. ok \in BOOLEAN
    BY DEF Within
  <1>5. /\ DOMAIN buckets' = DOMAIN Pruned \cup {k}
        /\ buckets'[k] = counted
        /\ \A o \in DOMAIN Pruned : o # k => buckets'[o] = Pruned[o]
    BY <1>1 DEF Put
  <1>6. KeyInv(k) /\ now \in 0..MaxNow
    BY <1>2 DEF LimitInv
  <1>7. \A o : /\ HasBucket(o) <=> o \in DOMAIN buckets
               /\ HasBucket(o)' <=> o \in DOMAIN buckets'
               /\ BucketOf(o) = buckets[o] /\ BucketOf(o)' = buckets'[o]
    BY <1>1 DEF HasBucket, BucketOf
  <1>8. \/ bucket = NewBucket /\ Idle(admitted[k], now)
        \/ Counted(admitted[k], bucket, now) /\ ~Over(bucket)
    <2>1. CASE k \in DOMAIN Pruned /\ ~Over(Pruned[k])
      BY <1>3, <1>6, <1>7, <2>1 DEF CurrentBucket, KeyInv
    <2>2. CASE ~(k \in DOMAIN Pruned /\ ~Over(Pruned[k]))
      <3>1. bucket = NewBucket
        BY <2>2 DEF CurrentBucket
      <3>2. k \notin DOMAIN buckets \/ Over(buckets[k])
        BY <1>3, <2>2
      <3>3. Idle(admitted[k], now)
        BY <1>6, <1>7, <3>2, OverIsIdle DEF KeyInv, Over
      <3> HIDE DEF bucket, k
      <3>4. QED
        BY <3>1, <3>3
    <2>3. QED
      BY <2>1, <2>2
  <1>9. ok => counted.count <= Limit
    BY DEF Within
  <1> HIDE DEF k, bucket, counted, ok
  <1>10. KeyInv(k)'
    BY <1>1, <1>2, <1>4, <1>5, <1>7, <1>8, <1>9, HookKeeps DEF counted
  <1>11. ASSUME NEW o \in Keys \ {k} PROVE KeyInv(o)'
    <2>1. admitted'[o] = admitted[o]
      BY <1>1, <1>2, <1>4, JudgeTypes
    <2>2. CASE o \in DOMAIN Pruned
      BY <1>1, <1>3, <1>5, <1>7, <2>1, <2>2, OthersKeep
    <2>3. CASE o \notin DOMAIN Pruned
      BY <1>1, <1>3, <1>5, <1>7, <2>1, <2>3, OthersKeep
    <2>4. QED
      BY <2>2, <2>3
  <1>12. admitted' \in [Keys -> [Ticks -> Nat]]
    BY <1>1, <1>2, <1>4, JudgeTypes
  <1>13. QED
    BY <1>1, <1>6, <1>10, <1>11, <1>12 DEF LimitInv

\* What recordSuspicion and consume make of a bucket, and of the limit.
LEMMA AdaptiveBuckets ==
    ASSUME NEW s \in States
    PROVE  /\ suspect(s).bucket = s.bucket
           /\ rolled(s).bucket = IF Over(s.bucket) THEN NewBucket ELSE s.bucket
           /\ quota(s) \in Int /\ quota(s) <= Limit
  <1>1. suspect(s).bucket = s.bucket
    BY DEF suspect, States
  <1>2. rolled(s).bucket = IF Over(s.bucket) THEN NewBucket ELSE s.bucket
    BY DEF rolled
  <1>3. quota(s) \in Int /\ quota(s) <= Limit
    BY LimitAssumption DEF quota
  <1>4. QED
    BY <1>1, <1>2, <1>3

\* The adaptive form: AdaptiveLimiter keeps every key it has seen, and a tightened
\* limit is never above the plain one.
LEMMA LimitAdaptive ==
    ASSUME LimitInv, TightInv, NEW c \in Clients, NEW bad \in BOOLEAN, AdaptiveHook(c, bad)
    PROVE  LimitInv'
  <1> DEFINE k == defaultKey(c)
             noted == IF bad THEN suspect(getOrCreate(k)) ELSE getOrCreate(k)
             turned == rolled(noted)
             state == [turned EXCEPT !.bucket.count = @ + 1]
             ok == state.bucket.count <= quota(state)
  <1>1. /\ adaptive /\ states' = Put(states, k, state) /\ Judge(k, ok)
        /\ adaptive' = adaptive /\ now' = now
    BY DEF AdaptiveHook
  <1>2. k \in Keys
    BY DEF Keys
  <1>3. ok \in BOOLEAN
    OBVIOUS
  <1>4. /\ getOrCreate(k) \in States /\ Follows(getOrCreate(k))
        /\ noted \in States /\ Follows(noted)
        /\ turned \in States
    <2>1. getOrCreate(k) \in States /\ Follows(getOrCreate(k))
      BY CreatedFollows
    <2>2. noted \in States /\ Follows(noted)
      BY <2>1, SuspectFollows
    <2>3. QED
      BY <2>1, <2>2, RolledFollows
  <1>5. /\ noted.bucket = getOrCreate(k).bucket
        /\ turned.bucket = IF Over(noted.bucket) THEN NewBucket ELSE noted.bucket
    <2>1. noted.bucket = getOrCreate(k).bucket
      BY <1>4, AdaptiveBuckets
    <2>2. turned.bucket = IF Over(noted.bucket) THEN NewBucket ELSE noted.bucket
      BY <1>4, AdaptiveBuckets
    <2>3. QED
      BY <2>1, <2>2
  <1> HIDE DEF turned
  <1>6. state \in States /\ state.bucket = [turned.bucket EXCEPT !.count = @ + 1]
    BY <1>4 DEF States
  <1>7. ok => state.bucket.count <= Limit
    <2>1. state.bucket.count \in Int
      BY <1>6 DEF States
    <2>2. quota(state) \in Int /\ quota(state) <= Limit
      BY <1>6, AdaptiveBuckets
    <2> HIDE DEF state
    <2>3. QED
      BY <2>1, <2>2, LimitAssumption
  <1> HIDE DEF noted, state, ok, k
  <1>8. DOMAIN states' = DOMAIN states \cup {k} /\ states'[k] = state
        /\ \A o \in DOMAIN states : o # k => states'[o] = states[o]
    BY <1>1 DEF Put
  <1>9. KeyInv(k) /\ now \in 0..MaxNow
    BY <1>2 DEF LimitInv
  <1>10. \A o : /\ HasBucket(o) <=> o \in DOMAIN states
                /\ HasBucket(o)' <=> o \in DOMAIN states'
                /\ BucketOf(o) = states[o].bucket /\ BucketOf(o)' = states'[o].bucket
    BY <1>1 DEF HasBucket, BucketOf
  <1>11. \/ turned.bucket = NewBucket /\ Idle(admitted[k], now)
         \/ Counted(admitted[k], turned.bucket, now) /\ ~Over(turned.bucket)
    <2>1. CASE k \in DOMAIN states
      <3>1. getOrCreate(k) = states[k]
        BY <2>1 DEF getOrCreate
      <3>2. Counted(admitted[k], noted.bucket, now)
        BY <1>5, <1>9, <1>10, <2>1, <3>1 DEF KeyInv
      <3>3. CASE Over(noted.bucket)
        <4>1. Idle(admitted[k], now)
          BY <1>9, <3>2, <3>3, OverIsIdle DEF KeyInv, Over
        <4>2. QED
          BY <1>5, <3>3, <4>1
      <3>4. CASE ~Over(noted.bucket)
        BY <1>5, <3>2, <3>4
      <3>5. QED
        BY <3>3, <3>4
    <2>2. CASE k \notin DOMAIN states
      <3>1. noted.bucket = NewBucket
        BY <1>5, <2>2 DEF getOrCreate
      <3>2. Idle(admitted[k], now)
        BY <1>9, <1>10, <2>2 DEF KeyInv
      <3>3. turned.bucket = NewBucket
        BY <1>5, <3>1
      <3>4. QED
        BY <3>2, <3>3
    <2>3. QED
      BY <2>1, <2>2
  <1>12. KeyInv(k)'
    <2>1. HasBucket(k)' /\ BucketOf(k)' = state.bucket
      BY <1>8, <1>10
    <2>2. QED
      BY <1>1, <1>2, <1>3, <1>6, <1>7, <1>11, <2>1, HookKeeps
  <1>13. ASSUME NEW o \in Keys \ {k} PROVE KeyInv(o)'
    <2>1. admitted'[o] = admitted[o]
      BY <1>1, <1>2, <1>3, JudgeTypes
    <2>2. QED
      BY <1>1, <1>8, <1>10, <2>1, OthersKeep
  <1>14. admitted' \in [Keys -> [Ticks -> Nat]]
    BY <1>1, <1>2, <1>3, JudgeTypes
  <1>15. QED
    BY <1>1, <1>9, <1>12, <1>13, <1>14 DEF LimitInv

\* recordSuspicion after the handler does not touch the bucket, or starts one.
LEMMA LimitAfter ==
    ASSUME LimitInv, TightInv, NEW c \in Clients, NEW result \in Results, AfterHandle(c, result)
    PROVE  LimitInv'
  <1> DEFINE k == defaultKey(c)
  <1>1. adaptive /\ adaptive' = adaptive /\ now' = now /\ admitted' = admitted
    BY DEF AfterHandle
  <1>2. \A o : /\ HasBucket(o) <=> o \in DOMAIN states
               /\ HasBucket(o)' <=> o \in DOMAIN states'
               /\ BucketOf(o) = states[o].bucket /\ BucketOf(o)' = states'[o].bucket
    BY <1>1 DEF HasBucket, BucketOf
  <1>3. suspect(getOrCreate(k)).bucket =
            IF k \in DOMAIN states THEN states[k].bucket ELSE NewBucket
    <2>1. suspect(getOrCreate(k)).bucket = getOrCreate(k).bucket
      BY CreatedFollows, AdaptiveBuckets
    <2>2. QED
      BY <2>1 DEF getOrCreate
  <1>4. ASSUME NEW o \in Keys PROVE KeyInv(o)'
    <2>1. CASE result = "set404"
      <3>1. states' = Put(states, k, suspect(getOrCreate(k)))
        BY <2>1 DEF AfterHandle
      <3> HIDE DEF k
      <3>2. DOMAIN states' = DOMAIN states \cup {k} /\ states'[k] = suspect(getOrCreate(k))
            /\ \A x \in DOMAIN states : x # k => states'[x] = states[x]
        BY <3>1 DEF Put
      <3>3. QED
        BY <1>1, <1>2, <1>3, <3>2, OthersKeep
    <2>2. CASE result # "set404"
      <3>1. states' = states
        BY <2>2 DEF AfterHandle
      <3>2. QED
        BY <1>1, <1>2, <3>1, OthersKeep
    <2>3. QED
      BY <2>1, <2>2
  <1>5. QED
    BY <1>1, <1>4 DEF LimitInv

LEMMA LimitNext == LimitInv /\ TightInv /\ [Next]_vars => LimitInv'
  <1> SUFFICES ASSUME LimitInv, TightInv, [Next]_vars PROVE LimitInv'
    OBVIOUS
  <1>1. CASE Tick
    BY <1>1, LimitTick
  <1>2. ASSUME NEW c \in Clients, FixedHook(c) PROVE LimitInv'
    BY <1>2, LimitFixed
  <1>3. ASSUME NEW c \in Clients, NEW bad \in BOOLEAN, AdaptiveHook(c, bad) PROVE LimitInv'
    BY <1>3, LimitAdaptive
  <1>4. ASSUME NEW c \in Clients, NEW result \in Results, AfterHandle(c, result) PROVE LimitInv'
    BY <1>4, LimitAfter
  <1>5. CASE UNCHANGED vars
    <2>1. /\ adaptive' = adaptive /\ now' = now /\ admitted' = admitted
          /\ \A o : HasBucket(o)' = HasBucket(o) /\ BucketOf(o)' = BucketOf(o)
      BY <1>5 DEF vars, HasBucket, BucketOf
    <2>2. \A k \in Keys : KeyInv(k)'
      BY <2>1 DEF LimitInv, KeyInv
    <2>3. QED
      BY <2>1, <2>2 DEF LimitInv
  <1>6. QED
    BY <1>1, <1>2, <1>3, <1>4, <1>5 DEF Next, Finished

\* For any clients, limit, window, size of the table and load, in both forms: no
\* interval of a window's length holds more than twice the limit of one key's
\* requests, wherever it is laid and whatever pruneBuckets forgot.
THEOREM WindowsHold == Spec => []AtMostTwiceTheLimit
  <1>1. LimitInv => AtMostTwiceTheLimit
    BY DEF LimitInv, KeyInv, TwiceAtMost, AtMostTwiceTheLimit
  <1>2. QED
    BY <1>1, LimitInit, LimitNext, TightInit, TightNext, PTL DEF Spec
=============================================================================
