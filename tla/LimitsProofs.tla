---------------------------- MODULE LimitsProofs ----------------------------
(***************************************************************************)
(* What bounds the load, for any number of clients, mails and handlers and *)
(* any limits: the rate limiter, the circuit breaker of the mail service   *)
(* and the connection pool. For breaker and pool also what their liveness  *)
(* rests on: a breaker that lets nothing through has mails in flight, and  *)
(* somebody can always go on.                                              *)
(***************************************************************************)
EXTENDS RateLimiter, EmailBreaker, ConnPool, FiniteSetTheorems, TLAPS

-----------------------------------------------------------------------------
(* The rate limiter. Two sums are invariant: what a key holds and was        *)
(* granted in a window is at most a full bucket and the refill of the time   *)
(* that ran, and at least the refill since it began.                         *)

Buckets == [tokens : 0 .. Capacity, ts : Nat]

\* Refilled for any time c.
Fill(b, c) == Least(Capacity, b.tokens + (IF c > b.ts THEN c - b.ts ELSE 0) * Limit)

\* Nothing is granted that was not in the bucket or refilled.
NotTooMuch ==
  window # NoWindow =>
    Level(window.key) + Cost * window.spent <= Capacity + Limit * window.travel

\* Nothing refilled is lost, but for what overflows the bucket. It speaks of the
\* time stored and not of the clock, which may be set back.
NotTooLittle ==
  (window # NoWindow /\ bucket[window.key] # NoBucket) =>
    bucket[window.key].tokens + Cost * window.spent
      >= Least(Capacity, Limit * (bucket[window.key].ts - window.start))

GInv == TypeOK /\ NotTooMuch /\ NotTooLittle

-----------------------------------------------------------------------------
(* Arithmetic *)

LEMMA Distributes == \A a, b, c \in Int : a * (b + c) = a * b + a * c
  OBVIOUS

LEMMA Monotone == \A a \in Nat, b, c \in Int : b <= c => a * b <= a * c
<1> SUFFICES ASSUME NEW a \in Nat, NEW b \in Int, NEW c \in Int, b <= c
             PROVE  a * b <= a * c
  OBVIOUS
<1>1. c - b \in Nat
  OBVIOUS
<1>2. a * (c - b) >= 0
  BY <1>1
<1>3. a * c = a * b + a * (c - b)
  BY Distributes
<1> QED  BY <1>2, <1>3

LEMMA Sizes ==
  /\ Limit \in Nat /\ Limit > 0 /\ Minute \in Nat /\ Minute > 0
  /\ Cost \in Nat /\ Capacity \in Nat
  /\ Cost <= Capacity
<1>1. Limit \in Nat /\ Limit >= 1 /\ Minute \in Nat /\ Minute >= 1
  BY LimitAssumption, MinuteAssumption
<1>2. Minute * 1 <= Minute * Limit
  BY <1>1, Monotone
<1> QED  BY <1>1, <1>2 DEF Cost, Capacity

LEMMA FillOf ==
  ASSUME NEW b \in Buckets, NEW c \in Nat
  PROVE  Fill(b, c) = Least(Capacity, b.tokens + Limit * (IF c > b.ts THEN c - b.ts ELSE 0))
<1> DEFINE e == IF c > b.ts THEN c - b.ts ELSE 0
<1>1. e \in Nat
  BY DEF Buckets
<1>2. e * Limit = Limit * e
  BY <1>1, Sizes
<1> QED  BY <1>2 DEF Fill

LEMMA FillRange ==
  ASSUME NEW b \in Buckets, NEW c \in Nat
  PROVE  /\ Fill(b, c) \in Nat
         /\ b.tokens <= Fill(b, c) /\ Fill(b, c) <= Capacity
         /\ Fill(b, b.ts) = b.tokens
<1> DEFINE e == IF c > b.ts THEN c - b.ts ELSE 0
<1>1. e \in Nat /\ b.tokens \in 0 .. Capacity /\ b.ts \in Nat
  BY DEF Buckets
<1>2. Limit * e \in Nat /\ Limit * 0 = 0
  BY <1>1, Sizes
<1>3. Fill(b, c) = Least(Capacity, b.tokens + Limit * e)
  BY FillOf
<1>4. Fill(b, b.ts) = Least(Capacity, b.tokens + Limit * 0)
  BY <1>1, FillOf
<1> HIDE DEF e
<1> QED  BY <1>1, <1>2, <1>3, <1>4, Sizes DEF Least

LEMMA FillMonotone ==
  ASSUME NEW b \in Buckets, NEW c \in Nat, NEW d \in Nat, d <= c
  PROVE  Fill(b, d) <= Fill(b, c)
<1> DEFINE e(t) == IF t > b.ts THEN t - b.ts ELSE 0
<1>1. e(d) \in Nat /\ e(c) \in Nat /\ e(d) <= e(c) /\ b.tokens \in Nat
  BY Sizes DEF Buckets
<1>2. Limit * e(d) <= Limit * e(c) /\ Limit * e(d) \in Nat /\ Limit * e(c) \in Nat
  BY <1>1, Monotone, Sizes
<1>3. /\ Fill(b, d) = Least(Capacity, b.tokens + Limit * e(d))
      /\ Fill(b, c) = Least(Capacity, b.tokens + Limit * e(c))
  BY FillOf
<1> HIDE DEF e
<1> QED  BY <1>1, <1>2, <1>3, Sizes DEF Least

LEMMA FillStep ==
  ASSUME NEW b \in Buckets, NEW c \in Nat
  PROVE  Fill(b, c + 1) <= Fill(b, c) + Limit
<1> DEFINE e(t) == IF t > b.ts THEN t - b.ts ELSE 0
<1>1. e(c) \in Nat /\ e(c + 1) \in Nat /\ e(c + 1) <= e(c) + 1 /\ b.tokens \in Nat
  BY Sizes DEF Buckets
<1>2. /\ Limit * e(c + 1) <= Limit * (e(c) + 1)
      /\ Limit * (e(c) + 1) = Limit * e(c) + Limit * 1
      /\ Limit * e(c) \in Nat /\ Limit * e(c + 1) \in Nat /\ Limit * 1 = Limit
  BY <1>1, Monotone, Distributes, Sizes
<1>3. /\ Fill(b, c) = Least(Capacity, b.tokens + Limit * e(c))
      /\ Fill(b, c + 1) = Least(Capacity, b.tokens + Limit * e(c + 1))
  BY FillOf
<1> HIDE DEF e
<1> QED  BY <1>1, <1>2, <1>3, Sizes DEF Least

LEMMA FillLate ==
  ASSUME NEW b \in Buckets, NEW c \in Nat, c - b.ts >= Minute
  PROVE  Fill(b, c) = Capacity
<1>1. b.ts \in Nat /\ b.tokens \in Nat /\ c > b.ts
  BY Sizes DEF Buckets
<1>2. Limit * Minute <= Limit * (c - b.ts) /\ Limit * (c - b.ts) \in Nat
  BY <1>1, Monotone, Sizes
<1>3. Fill(b, c) = Least(Capacity, b.tokens + Limit * (c - b.ts))
  BY <1>1, FillOf
<1> QED  BY <1>1, <1>2, <1>3, Sizes DEF Least, Capacity

\* What is true at the time stored stays true as the clock runs.
LEMMA FillRewards ==
  ASSUME NEW b \in Buckets, NEW c \in Nat, NEW s \in Nat, NEW x \in Nat,
         b.tokens + x >= Least(Capacity, Limit * (b.ts - s))
  PROVE  Fill(b, c) + x >= Least(Capacity, Limit * (c - s))
<1>1. b.ts \in Nat /\ b.tokens \in Nat
  BY Sizes DEF Buckets
<1>2. CASE c <= b.ts
  <2>1. Limit * (c - s) <= Limit * (b.ts - s)
    BY <1>1, <1>2, Monotone, Sizes
  <2>2. b.tokens <= Fill(b, c) /\ Fill(b, c) \in Nat
    BY FillRange
  <2>3. Limit * (c - s) \in Int /\ Limit * (b.ts - s) \in Int
    BY <1>1, Sizes
  <2> QED  BY <1>1, <2>1, <2>2, <2>3, Sizes DEF Least
<1>3. CASE c > b.ts
  <2> DEFINE run == Limit * (c - b.ts)
             old == Limit * (b.ts - s)
  <2>1. c - s = (b.ts - s) + (c - b.ts)
    BY <1>1
  <2>2. Limit * (c - s) = old + run
    BY <1>1, <2>1, Distributes, Sizes
  <2>3. run \in Nat /\ old \in Int
    BY <1>1, <1>3, Sizes
  <2>4. Fill(b, c) = Least(Capacity, b.tokens + run)
    BY <1>1, <1>3, FillOf
  <2> HIDE DEF run, old
  <2>5. b.tokens + x >= Least(Capacity, old)
    BY DEF old
  <2> QED  BY <1>1, <2>2, <2>3, <2>4, <2>5, Sizes DEF Least
<1> QED  BY <1>1, <1>2, <1>3

-----------------------------------------------------------------------------
(* What the script reads and stores *)

LEMMA LevelFacts ==
  ASSUME TypeOK, NEW k \in Keys
  PROVE  /\ Loaded(k) \in Buckets
         /\ Refilled(Loaded(k)) = Level(k)
         /\ Level(k) \in Nat /\ Level(k) <= Capacity
         /\ bucket[k] # NoBucket =>
              bucket[k] \in Buckets /\ Level(k) = Fill(bucket[k], clock)
<1>1. clock \in Nat /\ (bucket[k] = NoBucket \/ bucket[k] \in Buckets)
  BY DEF TypeOK, Buckets
<1>2. \A b : Refilled(b) = Fill(b, clock)
  BY DEF Refilled, Fill
<1> DEFINE full == [tokens |-> Capacity, ts |-> clock]
<1>3. full \in Buckets /\ full.tokens = Capacity /\ full.ts = clock
  BY <1>1, Sizes DEF Buckets
<1>4. Fill(full, clock) = Capacity
  BY <1>1, <1>3, FillRange
<1>5. Expired(k) => bucket[k] \in Buckets /\ Level(k) = Capacity
  <2> SUFFICES ASSUME Expired(k) PROVE bucket[k] \in Buckets /\ Level(k) = Capacity
    OBVIOUS
  <2>1. bucket[k] \in Buckets /\ bucket[k] # NoBucket
    BY <1>1 DEF Expired
  <2>2. clock - bucket[k].ts >= Minute
    BY <1>1, <2>1, Sizes, SlackAssumption DEF Expired, TTL, Buckets
  <2> QED  BY <1>1, <1>2, <2>1, <2>2, FillLate DEF Level
<1>6. CASE bucket[k] = NoBucket \/ Expired(k)
  <2>1. Loaded(k) = full /\ Level(k) = Capacity
    BY <1>5, <1>6 DEF Loaded, Level
  <2> QED  BY <1>1, <1>2, <1>3, <1>4, <2>1, Sizes DEF Level
<1>7. CASE bucket[k] # NoBucket /\ ~Expired(k)
  <2>1. Loaded(k) = bucket[k] /\ bucket[k] \in Buckets
    BY <1>1, <1>7 DEF Loaded
  <2>2. Level(k) = Fill(bucket[k], clock)
    BY <1>2, <1>7 DEF Level
  <2> QED  BY <1>1, <1>2, <2>1, <2>2, FillRange
<1> QED  BY <1>6, <1>7

LEMMA StoredFacts ==
  ASSUME TypeOK, NEW k \in Keys
  PROVE  /\ Stored(k) \in Buckets /\ Stored(k) # NoBucket
         /\ Stored(k).ts = clock
         /\ Took(k) \in Nat /\ Cost * Took(k) \in Nat
         /\ Stored(k).tokens + Cost * Took(k) = Level(k)
<1>1. clock \in Nat /\ Level(k) \in Nat /\ Level(k) <= Capacity
  BY LevelFacts DEF TypeOK
<1>2. Refilled(Loaded(k)) = Level(k) /\ (Admits(k) <=> Level(k) >= Cost)
  BY LevelFacts DEF Admits
<1>3. Cost * 1 = Cost /\ Cost * 0 = 0
  BY Sizes
<1>4. /\ Stored(k).ts = clock
      /\ Stored(k).tokens = IF Admits(k) THEN Level(k) - Cost ELSE Level(k)
  BY <1>2 DEF Stored
<1>5. Stored(k).tokens \in 0 .. Capacity
  BY <1>1, <1>2, <1>4, Sizes
<1>6. Stored(k) \in [tokens : 0 .. Capacity, ts : Nat]
  BY <1>1, <1>4, <1>5 DEF Stored
<1>7. Stored(k) \in [tokens : Int, ts : Int]
  BY <1>1, <1>4, <1>5, Sizes DEF Stored
<1> QED
  BY <1>1, <1>2, <1>3, <1>4, <1>6, <1>7, Sizes, NullAssumption DEF Buckets, Took

\* A run moves what it grants from the bucket to the window.
LEMMA ScriptInv ==
  ASSUME GInv, NEW k \in Keys, Script(k), clock' = clock
  PROVE  /\ bucket' \in [Keys -> Buckets \cup {NoBucket}]
         /\ window' \in Windows \cup {NoWindow}
         /\ NotTooMuch' /\ NotTooLittle'
<1> DEFINE b == Stored(k)
           w == window'.key
<1>1. /\ clock \in Nat /\ bucket \in [Keys -> Buckets \cup {NoBucket}]
      /\ window \in Windows \cup {NoWindow} /\ Limit * 0 = 0
  BY Sizes DEF GInv, TypeOK, Buckets
<1>2. /\ b \in Buckets /\ b # NoBucket /\ b.ts = clock
      /\ Took(k) \in Nat /\ Cost * Took(k) \in Nat
      /\ b.tokens + Cost * Took(k) = Level(k)
      /\ Level(k) \in Nat /\ Level(k) <= Capacity
      /\ b.tokens \in Nat
  BY StoredFacts, LevelFacts, Sizes DEF GInv, Buckets
<1>3. bucket' = [bucket EXCEPT ![k] = b]
  BY DEF Script
<1>4. bucket' \in [Keys -> Buckets \cup {NoBucket}] /\ bucket'[k] = b
  BY <1>1, <1>2, <1>3
<1>5. Level(window.key)' = IF bucket'[w] = NoBucket THEN Capacity ELSE Fill(bucket'[w], clock)
  BY DEF GInv, Level, Refilled, Fill
<1>6. Fill(b, clock) = b.tokens
  BY <1>1, <1>2, FillRange
<1> HIDE DEF b
<1>7. CASE window' = [key |-> k, start |-> clock, travel |-> 0, spent |-> Took(k)]
  <2>1. window' \in Windows /\ w = k /\ window'.start = clock /\ window'.travel = 0
        /\ window'.spent = Took(k)
    BY <1>1, <1>2, <1>7 DEF Windows
  <2>2. NotTooMuch'
    BY <1>1, <1>2, <1>4, <1>5, <1>6, <2>1, Sizes DEF NotTooMuch
  <2>3. clock - clock = 0
    BY <1>1
  <2>4. NotTooLittle'
    BY <1>1, <1>2, <1>4, <2>1, <2>3, Sizes DEF NotTooLittle, Least
  <2> QED  BY <1>4, <2>1, <2>2, <2>4
<1>8. CASE ~InWindow(k) /\ window' = window
  <2>1. CASE window = NoWindow
    BY <1>1, <1>4, <1>8, <2>1 DEF NotTooMuch, NotTooLittle
  <2>2. CASE window # NoWindow
    <3>1. w = window.key /\ w \in Keys /\ w # k /\ bucket'[w] = bucket[w]
      BY <1>1, <1>3, <1>8, <2>2 DEF InWindow, Windows
    <3>2. Level(window.key)' = Level(window.key)
      BY <1>5, <3>1 DEF Level, Refilled, Fill
    <3>3. NotTooMuch'
      BY <1>8, <3>1, <3>2 DEF GInv, NotTooMuch
    <3>4. NotTooLittle'
      BY <1>8, <3>1 DEF GInv, NotTooLittle
    <3> QED  BY <1>1, <1>4, <1>8, <3>3, <3>4
  <2> QED  BY <2>1, <2>2
<1>9. CASE InWindow(k) /\ window' = [window EXCEPT !.spent = @ + Took(k)]
  <2>1. window \in Windows /\ window # NoWindow /\ window.key = k
    BY <1>1, <1>9 DEF InWindow
  <2>2. /\ window' \in Windows /\ w = k /\ window'.start = window.start
        /\ window'.travel = window.travel /\ window'.spent = window.spent + Took(k)
        /\ window.start \in Nat /\ window.travel \in Nat /\ window.spent \in Nat
    BY <1>2, <1>9, <2>1 DEF Windows
  <2> DEFINE spent == Cost * window.spent
  <2>3. /\ Cost * window'.spent = spent + Cost * Took(k)
        /\ spent \in Nat /\ Limit * window.travel \in Nat
    BY <1>2, <2>2, Distributes, Sizes
  <2>4. Level(k) + spent <= Capacity + Limit * window.travel
    BY <2>1 DEF GInv, NotTooMuch
  <2>5. Level(k) + spent >= Least(Capacity, Limit * (clock - window.start))
    <3>1. CASE bucket[k] = NoBucket
      BY <1>1, <2>2, <2>3, <3>1, Sizes DEF Level, Least
    <3>2. CASE bucket[k] # NoBucket
      <4>1. bucket[k] \in Buckets /\ Level(k) = Fill(bucket[k], clock)
        BY <3>2, LevelFacts DEF GInv
      <4>2. bucket[k].tokens + spent >= Least(Capacity, Limit * (bucket[k].ts - window.start))
        BY <2>1, <3>2 DEF GInv, NotTooLittle
      <4> HIDE DEF spent
      <4> QED  BY <1>1, <2>2, <2>3, <4>1, <4>2, FillRewards
    <3> QED  BY <3>1, <3>2
  <2> HIDE DEF spent
  <2>6. NotTooMuch'
    BY <1>2, <1>4, <1>5, <1>6, <2>2, <2>3, <2>4, Sizes DEF NotTooMuch
  <2>7. b.tokens + Cost * window'.spent = Level(k) + spent
    BY <1>2, <2>3
  <2>8. NotTooLittle'
    BY <1>2, <1>4, <2>2, <2>5, <2>7 DEF NotTooLittle
  <2> QED  BY <1>4, <2>2, <2>6, <2>8
<1> QED  BY <1>7, <1>8, <1>9 DEF Script

-----------------------------------------------------------------------------
(* Every step *)

LEMMA InitGInv == Init => GInv
  BY Sizes, MaxRetriesAssumption DEF Init, GInv, TypeOK, NotTooMuch, NotTooLittle

LEMMA KeyOfIsKey ==
  ASSUME NEW public \in BOOLEAN, NEW u \in Users \cup {NoUser}, NEW h \in Hosts,
         public \/ u # NoUser
  PROVE  KeyOf(public, u, h) \in Keys
  BY DEF KeyOf, Keys

\* A request's own variables, and the script for the key that it has.
LEMMA RequestStep ==
  ASSUME GInv, NEW r \in Reqs, Arrive(r) \/ Allow(r) \/ AllowError(r) \/ Leave(r)
  PROVE  GInv'
<1> DEFINE ReqsOK == /\ pc \in [Reqs -> {"idle", "allow", "unauthorized", "limited", "handler"}]
                     /\ key \in [Reqs -> Keys \cup {NoKey}]
                     /\ \A q \in Reqs : pc[q] = "allow" => key[q] \in Keys
                     /\ tries \in [Reqs -> 0 .. MaxRetries]
           SharedOK == /\ bucket' \in [Keys -> Buckets \cup {NoBucket}]
                       /\ window' \in Windows \cup {NoWindow}
                       /\ NotTooMuch' /\ NotTooLittle'
<1>1. ReqsOK /\ clock \in Nat /\ MaxRetries \in Nat
  BY MaxRetriesAssumption DEF GInv, TypeOK
<1>2. clock' = clock
  BY DEF Arrive, Allow, AllowError, Leave
<1>3. UNCHANGED <<bucket, window>> => SharedOK
  BY <1>2 DEF GInv, TypeOK, Buckets, NotTooMuch, NotTooLittle, Level, Refilled
<1>4. pc[r] = "allow" /\ Script(key[r]) => SharedOK
  BY <1>1, <1>2, ScriptInv
<1>5. SharedOK
  BY <1>3, <1>4 DEF Arrive, Allow, AllowError, Leave
<1>6. CASE Arrive(r)
  <2>1. ASSUME pc' = [pc EXCEPT ![r] = "unauthorized"], UNCHANGED key PROVE ReqsOK'
    BY <1>1, <1>6, <2>1 DEF Arrive
  <2>2. ASSUME NEW public \in BOOLEAN, NEW u \in Users \cup {NoUser}, NEW h \in Hosts,
               public \/ u # NoUser,
               pc' = [pc EXCEPT ![r] = "allow"],
               key' = [key EXCEPT ![r] = KeyOf(public, u, h)]
        PROVE  ReqsOK'
    <3>1. KeyOf(public, u, h) \in Keys
      BY <2>2, KeyOfIsKey
    <3>2. tries' = tries
      BY <1>6 DEF Arrive
    <3> QED  BY <1>1, <2>2, <3>1, <3>2
  <2>3. ReqsOK'
    BY <1>6, <2>1, <2>2 DEF Arrive
  <2> QED  BY <1>1, <1>2, <1>5, <2>3 DEF GInv, TypeOK, Buckets
<1>7. CASE Allow(r)
  <2>1. ReqsOK'
    BY <1>1, <1>7 DEF Allow
  <2> QED  BY <1>1, <1>2, <1>5, <2>1 DEF GInv, TypeOK, Buckets
<1>8. CASE AllowError(r)
  <2>1. key' = key
    BY <1>8 DEF AllowError
  <2>2. ASSUME tries[r] < MaxRetries, tries' = [tries EXCEPT ![r] = @ + 1], UNCHANGED pc
        PROVE  ReqsOK'
    <3>1. tries[r] + 1 \in 0 .. MaxRetries
      BY <1>1, <2>2
    <3>2. tries' \in [Reqs -> 0 .. MaxRetries]
      BY <1>1, <2>2, <3>1
    <3> QED  BY <1>1, <2>1, <2>2, <3>2
  <2>3. ASSUME pc' = [pc EXCEPT ![r] = "handler"], UNCHANGED tries PROVE ReqsOK'
    BY <1>1, <2>1, <2>3
  <2>4. ReqsOK'
    BY <1>8, <2>2, <2>3 DEF AllowError
  <2> QED  BY <1>1, <1>2, <1>5, <2>4 DEF GInv, TypeOK, Buckets
<1>9. CASE Leave(r)
  <2>1. ReqsOK'
    BY <1>1, <1>9 DEF Leave
  <2> QED  BY <1>1, <1>2, <1>5, <2>1 DEF GInv, TypeOK, Buckets
<1> QED  BY <1>6, <1>7, <1>8, <1>9

\* The key of the window, if there is one, and its bucket.
LEMMA WindowFacts ==
  ASSUME GInv, window # NoWindow
  PROVE  /\ window \in Windows /\ window.key \in Keys
         /\ window.start \in Nat /\ window.travel \in Nat /\ window.spent \in Nat
         /\ Cost * window.spent \in Nat /\ Limit * window.travel \in Nat
         /\ Level(window.key) \in Nat /\ Level(window.key) <= Capacity
<1>1. window \in Windows
  BY DEF GInv, TypeOK
<1>2. /\ window.key \in Keys
      /\ window.start \in Nat /\ window.travel \in Nat /\ window.spent \in Nat
  BY <1>1 DEF Windows
<1> QED  BY <1>1, <1>2, LevelFacts, Sizes DEF GInv

LEMMA TickStep == ASSUME GInv, Tick PROVE GInv'
<1>1. clock \in Nat /\ clock' = clock + 1 /\ UNCHANGED <<bucket, pc, key, tries>>
  BY DEF GInv, TypeOK, Tick, reqs
<1>2. CASE window = NoWindow /\ UNCHANGED window
  BY <1>1, <1>2 DEF GInv, TypeOK, NotTooMuch, NotTooLittle
<1>3. CASE window # NoWindow /\ window' = [window EXCEPT !.travel = @ + 1]
  <2> DEFINE k == window.key
             b == bucket[k]
  <2>1. /\ window' \in Windows /\ window'.key = k /\ window'.start = window.start
        /\ window'.travel = window.travel + 1 /\ window'.spent = window.spent
    BY <1>3, WindowFacts DEF Windows
  <2>2. TypeOK'
    BY <1>1, <2>1 DEF GInv, TypeOK
  <2>3. Limit * (window.travel + 1) = Limit * window.travel + Limit
    <3>1. Limit * (window.travel + 1) = Limit * window.travel + Limit * 1
      BY <1>3, WindowFacts, Distributes, Sizes
    <3> QED  BY <3>1, Sizes
  <2>4. Level(window.key)' = IF b = NoBucket THEN Capacity ELSE Fill(b, clock + 1)
    BY <1>1, <2>1 DEF Level, Refilled, Fill
  <2>5. (IF b = NoBucket THEN Capacity ELSE Fill(b, clock + 1)) \in Nat
    BY <1>1, <1>3, WindowFacts, LevelFacts, FillRange, Sizes DEF GInv
  <2>6. (IF b = NoBucket THEN Capacity ELSE Fill(b, clock + 1)) <= Level(k) + Limit
    <3>1. CASE b = NoBucket
      BY <3>1, Sizes DEF Level
    <3>2. CASE b # NoBucket
      <4>1. b \in Buckets /\ Level(k) = Fill(b, clock)
        BY <1>3, <3>2, WindowFacts, LevelFacts DEF GInv
      <4> QED  BY <1>1, <3>2, <4>1, FillStep
    <3> QED  BY <3>1, <3>2
  <2> HIDE DEF k, b
  <2>7. Level(k) + Cost * window.spent <= Capacity + Limit * window.travel
    BY <1>3 DEF GInv, NotTooMuch, k
  <2>8. NotTooMuch'
    BY <1>3, <2>1, <2>3, <2>4, <2>5, <2>6, <2>7, WindowFacts, Sizes DEF NotTooMuch, k
  <2>9. NotTooLittle'
    BY <1>1, <1>3, <2>1 DEF GInv, NotTooLittle, k
  <2> QED  BY <2>2, <2>8, <2>9 DEF GInv
<1> QED  BY <1>2, <1>3 DEF Tick

LEMMA SetBackStep == ASSUME GInv, SetBack PROVE GInv'
<1>1. /\ clock \in Nat /\ clock' \in Nat /\ clock' <= clock
      /\ UNCHANGED <<bucket, pc, key, tries, window>>
  BY DEF GInv, TypeOK, SetBack, reqs
<1>2. TypeOK'
  BY <1>1 DEF GInv, TypeOK
<1>3. NotTooLittle'
  BY <1>1 DEF GInv, NotTooLittle
<1>4. NotTooMuch'
  <2> SUFFICES ASSUME window # NoWindow
               PROVE  Level(window.key)' + Cost * window.spent
                        <= Capacity + Limit * window.travel
    BY <1>1 DEF NotTooMuch
  <2> DEFINE k == window.key
             b == bucket[k]
  <2>1. Level(window.key)' = IF b = NoBucket THEN Capacity ELSE Fill(b, clock')
    BY <1>1 DEF Level, Refilled, Fill
  <2>2. CASE b = NoBucket
    BY <2>1, <2>2 DEF GInv, NotTooMuch, Level
  <2>3. CASE b # NoBucket
    <3>1. b \in Buckets /\ Level(k) = Fill(b, clock)
      BY <2>3, WindowFacts, LevelFacts DEF GInv
    <3>2. Fill(b, clock') <= Fill(b, clock) /\ Fill(b, clock') \in Nat
      BY <1>1, <3>1, FillMonotone, FillRange
    <3>3. Level(k) + Cost * window.spent <= Capacity + Limit * window.travel
      BY DEF GInv, NotTooMuch
    <3> HIDE DEF b
    <3> QED  BY <2>1, <2>3, <3>1, <3>2, <3>3, WindowFacts, Sizes
  <2> QED  BY <2>2, <2>3
<1> QED  BY <1>2, <1>3, <1>4 DEF GInv

\* A bucket that expires is full: TTL is at least the time of a whole refill.
LEMMA ExpiredIsFull == ASSUME TypeOK, NEW k \in Keys, Expired(k) PROVE Level(k) = Capacity
<1>1. bucket[k] \in Buckets /\ Level(k) = Fill(bucket[k], clock) /\ clock \in Nat
  BY LevelFacts DEF Expired, TypeOK
<1>2. clock - bucket[k].ts >= Minute
  BY <1>1, Sizes, SlackAssumption DEF Expired, TTL, Buckets
<1> QED  BY <1>1, <1>2, FillLate

LEMMA ExpireStep == ASSUME GInv, NEW k \in Keys, Expire(k) PROVE GInv'
<1>1. /\ bucket \in [Keys -> Buckets \cup {NoBucket}]
      /\ bucket' = [bucket EXCEPT ![k] = NoBucket]
      /\ UNCHANGED <<clock, pc, key, tries, window>>
  BY DEF GInv, TypeOK, Buckets, Expire, reqs
<1>2. TypeOK'
  BY <1>1 DEF GInv, TypeOK, Buckets
<1>3. Level(k) = Capacity
  BY ExpiredIsFull DEF GInv, Expire
<1>4. window # NoWindow => Level(window.key)' = Level(window.key)
  <2> SUFFICES ASSUME window # NoWindow PROVE Level(window.key)' = Level(window.key)
    OBVIOUS
  <2>1. window.key \in Keys
    BY WindowFacts
  <2> QED  BY <1>1, <1>3, <2>1 DEF Level, Refilled
<1>5. NotTooMuch'
  BY <1>1, <1>4 DEF GInv, NotTooMuch
<1>6. NotTooLittle'
  BY <1>1, WindowFacts DEF GInv, NotTooLittle
<1> QED  BY <1>2, <1>5, <1>6 DEF GInv

LEMMA GInvStep == GInv /\ [Next]_vars => GInv'
<1> SUFFICES ASSUME GInv, [Next]_vars PROVE GInv'
  OBVIOUS
<1>1. CASE UNCHANGED vars
  BY <1>1 DEF vars, reqs, GInv, TypeOK, NotTooMuch, NotTooLittle, Level, Refilled
<1> QED
  BY <1>1, RequestStep, TickStep, SetBackStep, ExpireStep DEF Next

THEOREM GInvHolds == Spec => []GInv
  BY InitGInv, GInvStep, PTL DEF Spec

-----------------------------------------------------------------------------
(* For every Limit, Minute and Slack, and any number of retries, lost answers, *)
(* expiries and clock changes: no window grants more than a full bucket and    *)
(* the refill of the time in it.                                               *)
THEOREM GrantsAreBoundedHolds == Spec => []GrantsAreBounded
<1>1. GInv => GrantsAreBounded
  <2> SUFFICES ASSUME GInv, window # NoWindow
               PROVE  Cost * window.spent <= Capacity + Limit * window.travel
    BY DEF GInv, GrantsAreBounded
  <2> QED  BY WindowFacts, Sizes DEF GInv, NotTooMuch
<1> QED  BY <1>1, GInvHolds, PTL

(* Likewise the minute that Retry-After announces is always enough.            *)
THEOREM WaitingIsRewardedHolds == Spec => []WaitingIsRewarded
<1>1. GInv => WaitingIsRewarded
  <2> SUFFICES ASSUME GInv, window # NoWindow,
                      clock - window.start >= Minute, window.spent < Limit
               PROVE  Level(window.key) >= Cost
    BY DEF WaitingIsRewarded
  <2> DEFINE k == window.key
             spent == Cost * window.spent
  <2>1. clock \in Nat /\ k \in Keys /\ window.start \in Nat /\ spent \in Nat
    BY WindowFacts DEF GInv, TypeOK
  <2>2. spent + Cost <= Capacity
    <3>1. Cost * (window.spent + 1) <= Cost * Limit
      BY WindowFacts, Monotone, Sizes
    <3>2. Cost * (window.spent + 1) = spent + Cost * 1 /\ Cost * 1 = Cost
      BY WindowFacts, Distributes, Sizes
    <3>3. Cost * Limit = Capacity
      BY Sizes DEF Cost, Capacity
    <3> QED  BY <3>1, <3>2, <3>3
  <2>3. Limit * Minute <= Limit * (clock - window.start)
    BY <2>1, Monotone, Sizes
  <2>4. CASE bucket[k] = NoBucket
    BY <2>4, Sizes DEF Level
  <2>5. CASE bucket[k] # NoBucket
    <3>1. bucket[k] \in Buckets /\ Level(k) = Fill(bucket[k], clock) /\ Level(k) \in Nat
      BY <2>1, <2>5, LevelFacts DEF GInv
    <3>2. bucket[k].tokens + spent >= Least(Capacity, Limit * (bucket[k].ts - window.start))
      BY <2>5 DEF GInv, NotTooLittle
    <3> HIDE DEF k, spent
    <3>3. Level(k) + spent >= Least(Capacity, Limit * (clock - window.start))
      BY <2>1, <3>1, <3>2, FillRewards
    <3>4. Limit * (clock - window.start) \in Int
      BY <2>1, Sizes
    <3> QED  BY <2>1, <2>2, <2>3, <3>1, <3>3, <3>4, Sizes DEF Least, Capacity, k
  <2> QED  BY <2>4, <2>5
<1> QED  BY <1>1, GInvHolds, PTL

(* Likewise whoever lets a bucket expire had nothing to gain from it.          *)
THEOREM ExpiryGrantsNothingHolds == Spec => ExpiryGrantsNothing
<1>1. TypeOK /\ [Next]_vars =>
        [\A k \in Keys : bucket[k] # NoBucket /\ bucket'[k] = NoBucket
                           => Level(k) = Capacity]_vars
  <2> SUFFICES ASSUME TypeOK, Next, NEW k \in Keys,
                      bucket[k] # NoBucket, bucket'[k] = NoBucket
               PROVE  Level(k) = Capacity
    OBVIOUS
  <2>1. ASSUME NEW j \in Keys, Script(j) PROVE FALSE
    <3>1. bucket' = [bucket EXCEPT ![j] = Stored(j)] /\ Stored(j) # NoBucket
      BY <2>1, StoredFacts DEF Script
    <3> QED  BY <3>1 DEF TypeOK
  <2>2. ASSUME NEW r \in Reqs, Arrive(r) \/ Allow(r) \/ AllowError(r) \/ Leave(r) PROVE FALSE
    <3>1. pc[r] = "allow" => key[r] \in Keys
      BY DEF TypeOK
    <3> QED  BY <2>1, <2>2, <3>1 DEF Arrive, Allow, AllowError, Leave
  <2>3. PICK j \in Keys : Expire(j)
    BY <2>2 DEF Next, Tick, SetBack
  <2>4. j = k
    BY <2>3 DEF Expire, TypeOK
  <2> QED  BY <2>3, <2>4, ExpiredIsFull DEF Expire
<1>2. GInv => TypeOK
  BY DEF GInv
<1> QED  BY <1>1, <1>2, GInvHolds, PTL DEF Spec, ExpiryGrantsNothing

-----------------------------------------------------------------------------
(* The circuit breaker: who is in flight while it is open or half open *)

Breakers ==
  [state : {"closed", "open", "half-open"},
   left : -1 .. Interval + OpenFor, young : SUBSET Calls,
   requests : 0 .. MaxRequests, successes : 0 .. MaxRequests,
   failures : 0 .. Trip - 1]

InFlight(m) == {c \in Calls : m[c] = "sending"}

\* Breaker b goes with the calls in flight: those of an open one are at least as
\* old as its state, so that none is left when that expires.
Fits(b, m, a) ==
  /\ b \in Breakers
  /\ b.young \subseteq InFlight(m)
  /\ b.state = "open" => b.young = {} /\ \A c \in InFlight(m) : a[c] + b.left >= OpenFor
  /\ b.state = "half-open" =>
       b.left = 0 /\ IsFiniteSet(InFlight(m)) /\ Cardinality(InFlight(m)) <= b.requests

Mails == [Calls -> {"idle", "sending", "refused", "mailed", "failed"}]

BreakerInv ==
  /\ Fits(cb, mail, age)
  /\ mail \in Mails /\ age \in [Calls -> 0 .. CallTimeout]
  /\ well \in BOOLEAN /\ failed \in [0 .. Interval -> 0 .. Trip]

LEMMA BreakerSizes ==
  /\ MaxRequests \in Nat /\ MaxRequests >= 1 /\ Trip \in Nat /\ Trip >= 1
  /\ Interval \in Nat /\ OpenFor \in Nat /\ CallTimeout \in Nat /\ CallTimeout <= OpenFor
  BY MaxRequestsAssumption, TripAssumption, IntervalAssumption, OpenForAssumption,
     CallTimeoutAssumption

LEMMA NewGenerationType ==
  ASSUME NEW s \in {"closed", "open", "half-open"}
  PROVE  /\ NewGeneration(s) \in Breakers
         /\ NewGeneration(s).state = s /\ NewGeneration(s).young = {}
         /\ s = "open" => NewGeneration(s).left = OpenFor
         /\ s = "half-open" => NewGeneration(s).left = 0 /\ NewGeneration(s).requests = 0
  BY BreakerSizes DEF NewGeneration, Breakers

\* A breaker that has just opened or closed.
LEMMA NewGenerationFits ==
  ASSUME NEW s \in {"closed", "open"}, NEW m, NEW a \in [Calls -> 0 .. CallTimeout]
  PROVE  Fits(NewGeneration(s), m, a)
<1>1. \A c \in InFlight(m) : a[c] + OpenFor >= OpenFor
  BY BreakerSizes DEF InFlight
<1> QED  BY <1>1, NewGenerationType DEF Fits

LEMMA CurrentFits ==
  ASSUME BreakerInv
  PROVE  Fits(Current, mail, age)
<1>1. cb \in Breakers /\ Fits(cb, mail, age) /\ cb.left \in Int
      /\ age \in [Calls -> 0 .. CallTimeout]
  BY DEF BreakerInv, Fits, Breakers
<1>2. CASE cb.left >= 0
  BY <1>1, <1>2 DEF Current
<1>3. CASE cb.left < 0 /\ cb.state = "open"
  <2>1. Current = NewGeneration("half-open")
    BY <1>1, <1>3 DEF Current
  <2>2. ASSUME NEW c \in InFlight(mail) PROVE FALSE
    <3>1. age[c] + cb.left >= OpenFor
      BY <1>1, <1>3 DEF Fits
    <3>2. age[c] \in 0 .. CallTimeout
      BY <1>1 DEF InFlight
    <3> QED  BY <1>1, <1>3, <3>1, <3>2, BreakerSizes
  <2>3. InFlight(mail) = {} /\ IsFiniteSet(InFlight(mail)) /\ Cardinality(InFlight(mail)) = 0
    BY <2>2, FS_EmptySet
  <2> QED  BY <2>1, <2>3, NewGenerationType DEF Fits
<1>4. CASE cb.left < 0 /\ cb.state # "open"
  <2>1. Current = NewGeneration("closed")
    BY <1>1, <1>4 DEF Current
  <2> QED  BY <1>1, <2>1, NewGenerationFits
<1> QED  BY <1>1, <1>2, <1>3, <1>4

\* A result of a call of the generation.
LEMMA ResultFits ==
  ASSUME NEW b, NEW m, NEW a \in [Calls -> 0 .. CallTimeout], Fits(b, m, a)
  PROVE  Fits(Succeeded(b), m, a) /\ Fits(Failed(b), m, a)
<1>1. b \in Breakers
  BY DEF Fits
<1>2. ASSUME ~(b.state = "half-open" /\ b.successes + 1 >= MaxRequests)
      PROVE  Fits(Succeeded(b), m, a)
  <2> DEFINE n == Capped(b.successes + 1, MaxRequests)
             d == [b EXCEPT !.successes = n, !.failures = 0]
  <2>1. n \in 0 .. MaxRequests
    BY <1>1, BreakerSizes DEF Capped, Breakers
  <2>2. Succeeded(b) = d
    BY <1>2 DEF Succeeded
  <2>3. 0 \in 0 .. Trip - 1
    BY BreakerSizes
  <2> HIDE DEF n
  <2>4. d \in Breakers
    BY <1>1, <2>1, <2>3 DEF Breakers
  <2>5. d.state = b.state /\ d.left = b.left /\ d.young = b.young /\ d.requests = b.requests
    BY <1>1 DEF Breakers
  <2> HIDE DEF d
  <2> QED  BY <2>2, <2>4, <2>5 DEF Fits
<1>3. ASSUME ~(b.state = "half-open" \/ Trips(b))
      PROVE  Fits(Failed(b), m, a)
  <2> DEFINE d == [b EXCEPT !.failures = b.failures + 1, !.successes = 0]
  <2>1. b.failures + 1 \in 0 .. Trip - 1
    BY <1>1, <1>3, BreakerSizes DEF Trips, Breakers
  <2>2. Failed(b) = d
    BY <1>3 DEF Failed
  <2>3. 0 \in 0 .. MaxRequests
    BY BreakerSizes
  <2>4. d \in Breakers
    BY <1>1, <2>1, <2>3 DEF Breakers
  <2>5. d.state = b.state /\ d.left = b.left /\ d.young = b.young /\ d.requests = b.requests
    BY <1>1 DEF Breakers
  <2> HIDE DEF d
  <2> QED  BY <2>2, <2>4, <2>5 DEF Fits
<1>4. b.state = "half-open" /\ b.successes + 1 >= MaxRequests
        => Succeeded(b) = NewGeneration("closed")
  BY DEF Succeeded
<1>5. b.state = "half-open" \/ Trips(b) => Failed(b) = NewGeneration("open")
  BY DEF Failed
<1> QED  BY <1>2, <1>3, <1>4, <1>5, NewGenerationFits

LEMMA BreakerInvInit == BreakerInit => BreakerInv
<1> SUFFICES ASSUME BreakerInit PROVE BreakerInv
  OBVIOUS
<1>1. mail \in Mails /\ age \in [Calls -> 0 .. CallTimeout]
      /\ well \in BOOLEAN /\ failed \in [0 .. Interval -> 0 .. Trip]
  BY BreakerSizes DEF BreakerInit, Mails
<1>2. Fits(cb, mail, age)
  BY <1>1, NewGenerationFits DEF BreakerInit
<1> QED  BY <1>1, <1>2 DEF BreakerInv

LEMMA BeginStep ==
  ASSUME BreakerInv, NEW c \in Calls, Begin(c)
  PROVE  BreakerInv'
<1> DEFINE b == Current
<1>1. Fits(b, mail, age) /\ b \in Breakers
  BY CurrentFits DEF Fits
<1>2. /\ mail[c] = "idle" /\ age' = age /\ well' = well /\ failed' = failed
      /\ \/ mail' = [mail EXCEPT ![c] = "refused"] /\ cb' = b
         \/ /\ ~Full(b)
            /\ b.state # "open"
            /\ mail' = [mail EXCEPT ![c] = "sending"]
            /\ cb' = [b EXCEPT !.requests = Capped(b.requests + 1, MaxRequests),
                               !.young = b.young \cup {c}]
  BY DEF Begin
<1>3. mail \in Mails
  BY DEF BreakerInv
<1> HIDE DEF b
<1>4. CASE mail' = [mail EXCEPT ![c] = "refused"] /\ cb' = b
  <2>1. mail' \in Mails /\ InFlight(mail') = InFlight(mail)
    BY <1>2, <1>3, <1>4 DEF InFlight, Mails
  <2>2. Fits(cb', mail', age')
    BY <1>1, <1>2, <1>4, <2>1 DEF Fits
  <2> QED  BY <1>2, <2>1, <2>2 DEF BreakerInv
<1>5. CASE /\ b.state # "open" /\ ~Full(b)
           /\ mail' = [mail EXCEPT ![c] = "sending"]
           /\ cb' = [b EXCEPT !.requests = Capped(b.requests + 1, MaxRequests),
                              !.young = b.young \cup {c}]
  <2> DEFINE n == Capped(b.requests + 1, MaxRequests)
  <2>1. /\ mail' \in Mails
        /\ InFlight(mail') = InFlight(mail) \cup {c} /\ c \notin InFlight(mail)
    BY <1>2, <1>3, <1>5 DEF InFlight, Mails
  <2>2. n \in 0 .. MaxRequests
    BY <1>1, BreakerSizes DEF Capped, Breakers
  <2>3. b.state = "half-open" => n = b.requests + 1
    BY <1>1, <1>5, BreakerSizes DEF Full, Capped, Breakers
  <2> HIDE DEF n
  <2>4. /\ cb' \in Breakers /\ cb'.young = b.young \cup {c}
        /\ cb'.state = b.state /\ cb'.left = b.left /\ cb'.requests = n
    <3>1. cb' = [b EXCEPT !.requests = n, !.young = b.young \cup {c}]
      BY <1>5 DEF n
    <3> QED  BY <1>1, <2>2, <3>1 DEF Breakers
  <2>5. ASSUME b.state = "half-open"
        PROVE  /\ b.left = 0
               /\ IsFiniteSet(InFlight(mail')) /\ Cardinality(InFlight(mail')) <= n
    <3>1. /\ b.left = 0 /\ IsFiniteSet(InFlight(mail))
          /\ Cardinality(InFlight(mail)) <= b.requests
      BY <1>1, <2>5 DEF Fits
    <3>2. /\ IsFiniteSet(InFlight(mail'))
          /\ Cardinality(InFlight(mail')) = Cardinality(InFlight(mail)) + 1
      BY <2>1, <3>1, FS_AddElement
    <3>3. Cardinality(InFlight(mail)) \in Nat /\ b.requests \in Nat
      BY <1>1, <3>1, FS_CardinalityType DEF Breakers
    <3> QED  BY <2>3, <2>5, <3>1, <3>2, <3>3
  <2>6. b.young \subseteq InFlight(mail)
    BY <1>1 DEF Fits
  <2>7. Fits(cb', mail', age')
    BY <1>5, <2>1, <2>4, <2>5, <2>6 DEF Fits
  <2> QED  BY <1>2, <2>1, <2>7 DEF BreakerInv
<1> QED  BY <1>2, <1>4, <1>5

\* A call that has ended is no longer in flight; its result may count.
LEMMA EndStep ==
  ASSUME BreakerInv, NEW c \in Calls, NEW ok \in BOOLEAN, End(c, ok)
  PROVE  Fits(cb', mail', age') /\ mail' \in Mails /\ age' \in [Calls -> 0 .. CallTimeout]
<1> DEFINE b == Current
           rest == [b EXCEPT !.young = b.young \ {c}]
<1>1. Fits(b, mail, age) /\ b \in Breakers
  BY CurrentFits DEF Fits
<1>2. /\ mail[c] = "sending" /\ age' = [age EXCEPT ![c] = 0]
      /\ mail' = [mail EXCEPT ![c] = IF ok THEN "mailed" ELSE "failed"]
      /\ \/ c \notin b.young /\ cb' = b
         \/ cb' = Succeeded(rest)
         \/ cb' = Failed(rest)
  BY DEF End, AfterRequest
<1>3. mail \in Mails /\ age \in [Calls -> 0 .. CallTimeout]
  BY DEF BreakerInv
<1> HIDE DEF b
<1>4. /\ mail' \in Mails /\ age' \in [Calls -> 0 .. CallTimeout]
      /\ InFlight(mail') = InFlight(mail) \ {c}
      /\ \A d \in InFlight(mail') : age'[d] = age[d]
  BY <1>2, <1>3, BreakerSizes DEF InFlight, Mails
<1>5. /\ rest \in Breakers /\ rest.young = b.young \ {c}
      /\ rest.state = b.state /\ rest.left = b.left /\ rest.requests = b.requests
  BY <1>1 DEF Breakers
<1> HIDE DEF rest
<1>6. ASSUME b.state = "half-open"
      PROVE  /\ b.left = 0 /\ IsFiniteSet(InFlight(mail'))
             /\ Cardinality(InFlight(mail')) <= b.requests
  <2>1. /\ b.left = 0 /\ IsFiniteSet(InFlight(mail))
        /\ Cardinality(InFlight(mail)) <= b.requests
    BY <1>1, <1>6 DEF Fits
  <2>2. /\ IsFiniteSet(InFlight(mail'))
        /\ Cardinality(InFlight(mail')) <= Cardinality(InFlight(mail))
    BY <1>4, <2>1, FS_Subset
  <2>3. /\ Cardinality(InFlight(mail)) \in Nat /\ Cardinality(InFlight(mail')) \in Nat
        /\ b.requests \in Nat
    BY <1>1, <2>1, <2>2, FS_CardinalityType DEF Breakers
  <2> QED  BY <2>1, <2>2, <2>3
<1>7. Fits(rest, mail', age')
  BY <1>1, <1>4, <1>5, <1>6 DEF Fits
<1>8. c \notin b.young => Fits(b, mail', age')
  BY <1>1, <1>4, <1>6 DEF Fits
<1>9. Fits(Succeeded(rest), mail', age') /\ Fits(Failed(rest), mail', age')
  BY <1>4, <1>7, ResultFits
<1> QED  BY <1>2, <1>4, <1>8, <1>9

LEMMA PassStep ==
  ASSUME BreakerInv, TimePasses
  PROVE  BreakerInv'
<1>1. /\ Fits(cb, mail, age) /\ cb \in Breakers /\ cb.left \in -1 .. Interval + OpenFor
      /\ mail \in Mails /\ age \in [Calls -> 0 .. CallTimeout]
      /\ failed \in [0 .. Interval -> 0 .. Trip]
  BY DEF BreakerInv, Fits, Breakers
<1> DEFINE n == IF cb.state = "half-open" \/ cb.left < 0 THEN cb.left ELSE cb.left - 1
<1>2. /\ cb' = [cb EXCEPT !.left = n] /\ mail' = mail /\ well' = well
      /\ age' = [c \in Calls |-> IF mail[c] = "sending" THEN age[c] + 1 ELSE 0]
      /\ \A c \in Calls : mail[c] = "sending" => age[c] < CallTimeout
  BY DEF TimePasses, InTime
<1>3. /\ n \in -1 .. Interval + OpenFor
      /\ (cb.left >= 0 => n >= cb.left - 1) /\ (cb.left < 0 => n = cb.left)
      /\ (cb.state = "half-open" => n = cb.left)
  BY <1>1, BreakerSizes
<1> HIDE DEF n
<1>4. /\ cb' \in Breakers /\ cb'.young = cb.young /\ cb'.left = n
      /\ cb'.state = cb.state /\ cb'.requests = cb.requests
  BY <1>1, <1>2, <1>3 DEF Breakers
<1>5. age' \in [Calls -> 0 .. CallTimeout]
  BY <1>1, <1>2, BreakerSizes
<1>6. failed' \in [0 .. Interval -> 0 .. Trip]
  BY <1>1, BreakerSizes DEF TimePasses
<1>7. ASSUME cb.state = "open", NEW c \in InFlight(mail)
      PROVE  age'[c] + n >= OpenFor
  <2>1. c \in Calls /\ age'[c] = age[c] + 1 /\ age[c] \in 0 .. CallTimeout
        /\ age[c] < CallTimeout
    BY <1>1, <1>2 DEF InFlight
  <2>2. age[c] + cb.left >= OpenFor
    BY <1>1, <1>7 DEF Fits
  <2> QED  BY <1>1, <1>3, <2>1, <2>2, BreakerSizes
<1>8. Fits(cb', mail', age')
  BY <1>1, <1>2, <1>3, <1>4, <1>7 DEF Fits
<1> QED  BY <1>1, <1>2, <1>5, <1>6, <1>8 DEF BreakerInv

LEMMA BreakerStep == BreakerInv /\ [BreakerNext]_breakerVars => BreakerInv'
<1> SUFFICES ASSUME BreakerInv, [BreakerNext]_breakerVars PROVE BreakerInv'
  OBVIOUS
<1>1. ASSUME NEW c \in Calls, Deliver(c) PROVE BreakerInv'
  <2>1. End(c, TRUE) /\ failed' = failed /\ well' = well
    BY <1>1 DEF Deliver, End
  <2> QED  BY <2>1, EndStep DEF BreakerInv
<1>2. ASSUME NEW c \in Calls, Lose(c) PROVE BreakerInv'
  <2>1. End(c, FALSE) /\ well' = well
        /\ failed' = [failed EXCEPT ![0] = Capped(failed[0] + 1, Trip)]
    BY <1>2 DEF Lose, End
  <2>2. failed' \in [0 .. Interval -> 0 .. Trip]
    BY <2>1, BreakerSizes DEF BreakerInv, Capped
  <2> QED  BY <2>1, <2>2, EndStep DEF BreakerInv
<1>3. ASSUME NEW c \in Calls, Return(c) PROVE BreakerInv'
  <2>1. mail \in Mails /\ mail[c] # "sending" /\ mail' = [mail EXCEPT ![c] = "idle"]
        /\ UNCHANGED <<cb, age, well, failed>>
    BY <1>3 DEF Return, BreakerInv
  <2>2. mail' \in Mails /\ InFlight(mail') = InFlight(mail)
    BY <2>1 DEF InFlight, Mails
  <2> QED  BY <2>1, <2>2 DEF BreakerInv, Fits
<1>4. CASE Change \/ UNCHANGED breakerVars
  BY <1>4 DEF Change, breakerVars, calls, BreakerInv
<1> QED  BY <1>1, <1>2, <1>3, <1>4, BeginStep, PassStep DEF BreakerNext, Serve

\* The breaker's record and the calls, whatever the mail service does.
THEOREM BreakerInvHolds == BreakerSpec => []BreakerInv
  BY BreakerInvInit, BreakerStep, PTL DEF BreakerSpec

(* A half-open breaker has at most MaxRequests mails in flight, calls of      *)
(* earlier generations included.                                              *)
THEOREM TrialLoadIsBoundedHolds == BreakerSpec => []TrialLoadIsBounded
<1>1. BreakerInv => TrialLoadIsBounded
  <2> SUFFICES ASSUME BreakerInv PROVE TrialLoadIsBounded
    OBVIOUS
  <2>1. cb \in Breakers /\ cb.young \subseteq InFlight(mail) /\ Sending = InFlight(mail)
    BY DEF BreakerInv, Fits, Sending, InFlight
  <2>2. BreakerTypeOK
    BY <2>1, BreakerSizes DEF BreakerInv, BreakerTypeOK, Breakers, Mails, InFlight
  <2>3. ASSUME cb.state = "half-open" PROVE Cardinality(Sending) <= MaxRequests
    <3>1. IsFiniteSet(Sending) /\ Cardinality(Sending) <= cb.requests
      BY <2>1, <2>3 DEF BreakerInv, Fits
    <3>2. Cardinality(Sending) \in Nat /\ cb.requests \in 0 .. MaxRequests
      BY <2>1, <3>1, FS_CardinalityType DEF Breakers
    <3> QED  BY <3>1, <3>2, BreakerSizes
  <2> QED  BY <2>2, <2>3 DEF TrialLoadIsBounded
<1> QED  BY <1>1, BreakerInvHolds, PTL

\* The failures of f up to k ticks ago.
Logged(f, k) == {x \in (0 .. Interval) \X (1 .. Trip) : x[2] <= f[x[1]] /\ x[1] <= k}

\* What a closed breaker has counted happened since its generation began.
Counted(b, f) ==
  b.state = "closed" /\ b.left >= 0 =>
    b.left <= Interval /\ b.failures <= Cardinality(Logged(f, Interval - b.left))

FailureLogs == [0 .. Interval -> 0 .. Trip]

LEMMA LoggedIsFinite ==
  ASSUME NEW f, NEW k
  PROVE  IsFiniteSet(Logged(f, k)) /\ Cardinality(Logged(f, k)) \in Nat
<1>1. IsFiniteSet(0 .. Interval) /\ IsFiniteSet(1 .. Trip)
  BY BreakerSizes, FS_Interval
<1>2. IsFiniteSet((0 .. Interval) \X (1 .. Trip))
  BY <1>1, FS_Product
<1>3. IsFiniteSet(Logged(f, k))
  BY <1>2, FS_Subset DEF Logged
<1> QED  BY <1>3, FS_CardinalityType

LEMMA NewGenerationCounted ==
  ASSUME NEW s \in {"closed", "open", "half-open"}, NEW f
  PROVE  Counted(NewGeneration(s), f)
<1>1. /\ NewGeneration(s).failures = 0 /\ NewGeneration(s).state = s
      /\ s = "closed" => NewGeneration(s).left = Interval
  BY DEF NewGeneration
<1> QED  BY <1>1, LoggedIsFinite, BreakerSizes DEF Counted

LEMMA CurrentCounted ==
  ASSUME BreakerInv, Counted(cb, failed)
  PROVE  Counted(Current, failed)
  BY NewGenerationCounted DEF Current

\* One more failure now.
LEMMA LoggedMore ==
  ASSUME NEW f \in FailureLogs, NEW k \in 0 .. Interval, NEW n \in 0 .. Trip - 1,
         n <= Cardinality(Logged(f, k))
  PROVE  n + 1 <= Cardinality(Logged([f EXCEPT ![0] = Capped(f[0] + 1, Trip)], k))
<1> DEFINE g == [f EXCEPT ![0] = Capped(f[0] + 1, Trip)]
           x == <<0, f[0] + 1>>
<1>1. f[0] \in 0 .. Trip /\ 0 \in 0 .. Interval
  BY BreakerSizes DEF FailureLogs
<1>2. \A a \in 0 .. Interval : f[a] \in Nat /\ g[a] = IF a = 0 THEN Capped(f[0] + 1, Trip) ELSE f[a]
  BY <1>1, BreakerSizes DEF FailureLogs
<1> HIDE DEF g
<1>3. CASE f[0] < Trip
  <2>1. g[0] = f[0] + 1 /\ x \in (0 .. Interval) \X (1 .. Trip)
    BY <1>1, <1>2, <1>3, BreakerSizes DEF Capped
  <2>2. x \in Logged(g, k) /\ x \notin Logged(f, k)
    BY <1>1, <2>1 DEF Logged
  <2>3. Logged(f, k) \subseteq Logged(g, k)
    BY <1>1, <1>2, <2>1 DEF Logged
  <2> HIDE DEF x
  <2>4. /\ IsFiniteSet(Logged(f, k) \cup {x})
        /\ Cardinality(Logged(f, k) \cup {x}) = Cardinality(Logged(f, k)) + 1
    BY <2>2, LoggedIsFinite, FS_AddElement
  <2>5. Cardinality(Logged(f, k) \cup {x}) <= Cardinality(Logged(g, k))
    BY <2>2, <2>3, LoggedIsFinite, FS_Subset
  <2>6. Cardinality(Logged(f, k)) \in Nat /\ Cardinality(Logged(g, k)) \in Nat
    BY LoggedIsFinite
  <2> QED  BY <2>4, <2>5, <2>6 DEF g
<1>4. CASE f[0] >= Trip
  <2> DEFINE h == [m \in 1 .. Trip |-> <<0, m>>]
  <2>1. g[0] = Trip
    BY <1>1, <1>2, <1>4, BreakerSizes DEF Capped
  <2>2. \A m \in 1 .. Trip : <<0, m>> \in Logged(g, k)
    BY <1>1, <2>1, BreakerSizes DEF Logged
  <2>3. h \in Injection(1 .. Trip, Logged(g, k))
    BY <2>2 DEF Injection, IsInjective
  <2>4. Cardinality(1 .. Trip) <= Cardinality(Logged(g, k)) /\ Cardinality(1 .. Trip) = Trip
    BY <2>3, LoggedIsFinite, FS_Injection, FS_Interval, BreakerSizes
  <2>5. Cardinality(Logged(g, k)) \in Nat
    BY LoggedIsFinite
  <2> QED  BY <2>4, <2>5, BreakerSizes DEF g
<1> QED  BY <1>1, <1>3, <1>4, BreakerSizes

\* A tick later.
LEMMA LoggedShifts ==
  ASSUME NEW f \in FailureLogs, NEW k \in 0 .. Interval - 1
  PROVE  Cardinality(Logged(f, k))
           <= Cardinality(Logged([a \in 0 .. Interval |-> IF a = 0 THEN 0 ELSE f[a - 1]], k + 1))
<1> DEFINE g == [a \in 0 .. Interval |-> IF a = 0 THEN 0 ELSE f[a - 1]]
           h == [x \in Logged(f, k) |-> <<x[1] + 1, x[2]>>]
<1>1. ASSUME NEW x \in Logged(f, k)
      PROVE  /\ <<x[1] + 1, x[2]>> \in Logged(g, k + 1)
             /\ x[1] \in Nat /\ x = <<x[1], x[2]>>
  <2>1. x[1] \in 0 .. Interval /\ x[2] \in 1 .. Trip /\ x = <<x[1], x[2]>>
        /\ x[2] <= f[x[1]] /\ x[1] <= k
    BY DEF Logged
  <2>2. x[1] + 1 \in 0 .. Interval /\ x[1] + 1 <= k + 1 /\ g[x[1] + 1] = f[x[1]]
    BY <2>1, BreakerSizes
  <2> HIDE DEF g
  <2> QED  BY <2>1, <2>2 DEF Logged
<1> HIDE DEF g
<1>2. h \in [Logged(f, k) -> Logged(g, k + 1)]
  BY <1>1
<1>3. ASSUME NEW x \in Logged(f, k), NEW y \in Logged(f, k), h[x] = h[y] PROVE x = y
  <2>1. x[1] + 1 = y[1] + 1 /\ x[2] = y[2]
    BY <1>3
  <2>2. x[1] \in Nat /\ y[1] \in Nat /\ x = <<x[1], x[2]>> /\ y = <<y[1], y[2]>>
    BY <1>1
  <2>3. x[1] = y[1]
    BY <2>1, <2>2
  <2> HIDE DEF h
  <2> QED  BY <2>1, <2>2, <2>3, Zenon
<1>4. h \in Injection(Logged(f, k), Logged(g, k + 1))
  BY <1>2, <1>3 DEF Injection, IsInjective
<1> HIDE DEF h
<1> QED  BY <1>4, LoggedIsFinite, FS_Injection DEF g

BurstInv == BreakerInv /\ Counted(cb, failed)

\* The result of a call, and what it does to the count.
LEMMA ResultCounted ==
  ASSUME NEW b \in Breakers, NEW f \in FailureLogs, Counted(b, f), b.left >= 0
  PROVE  LET g == [f EXCEPT ![0] = Capped(f[0] + 1, Trip)]
         IN  /\ Counted(Succeeded(b), f)
             /\ Counted(Failed(b), g) /\ Counted(b, g)
             /\ b.state = "closed" /\ Failed(b).state = "open"
                  => Cardinality(Logged(g, Interval)) >= Trip
<1> DEFINE g == [f EXCEPT ![0] = Capped(f[0] + 1, Trip)]
           k == Interval - b.left
<1>1. b.left \in Int /\ b.failures \in 0 .. Trip - 1 /\ b.state \in {"closed", "open", "half-open"}
  BY DEF Breakers
<1>2. Counted(Succeeded(b), f)
  <2>1. CASE Succeeded(b) = NewGeneration("closed")
    BY <2>1, NewGenerationCounted
  <2>2. CASE Succeeded(b) # NewGeneration("closed")
    <3>1. /\ Succeeded(b).failures = 0 /\ Succeeded(b).left = b.left
          /\ Succeeded(b).state = b.state
      BY <2>2 DEF Succeeded, Breakers
    <3> QED  BY <3>1, LoggedIsFinite DEF Counted
  <2> QED  BY <2>1, <2>2
<1>3. ASSUME b.state = "closed"
      PROVE  b.left <= Interval /\ b.failures + 1 <= Cardinality(Logged(g, k))
  <2>1. b.left <= Interval /\ b.failures <= Cardinality(Logged(f, k))
    BY <1>3 DEF Counted
  <2>2. k \in 0 .. Interval
    BY <1>1, <2>1, BreakerSizes
  <2> QED  BY <1>1, <2>1, <2>2, LoggedMore
<1> HIDE DEF g
<1>4. Counted(b, g)
  BY <1>1, <1>3, LoggedIsFinite DEF Counted
<1>5. Counted(Failed(b), g)
  <2>1. CASE Failed(b) = NewGeneration("open")
    BY <2>1, NewGenerationCounted
  <2>2. CASE Failed(b) # NewGeneration("open")
    <3>1. /\ Failed(b).failures = b.failures + 1 /\ Failed(b).left = b.left
          /\ Failed(b).state = b.state
      BY <2>2 DEF Failed, Breakers
    <3> QED  BY <3>1, <1>3 DEF Counted
  <2> QED  BY <2>1, <2>2
<1>6. ASSUME b.state = "closed", Failed(b).state = "open"
      PROVE  Cardinality(Logged(g, Interval)) >= Trip
  <2>1. b.failures + 1 >= Trip
    <3>1. ~Trips(b) => Failed(b).state = b.state
      BY <1>6 DEF Failed, Breakers
    <3> QED  BY <1>6, <3>1 DEF Trips
  <2>2. Logged(g, k) \subseteq Logged(g, Interval)
    BY <1>1, <1>3, <1>6, BreakerSizes DEF Logged
  <2>3. Cardinality(Logged(g, k)) <= Cardinality(Logged(g, Interval))
    BY <2>2, LoggedIsFinite, FS_Subset
  <2>4. Cardinality(Logged(g, k)) \in Nat /\ Cardinality(Logged(g, Interval)) \in Nat
    BY LoggedIsFinite
  <2> QED  BY <1>1, <1>3, <1>6, <2>1, <2>3, <2>4, BreakerSizes
<1> QED  BY <1>2, <1>4, <1>5, <1>6 DEF g

LEMMA BurstInit == BreakerInit => BurstInv
  BY BreakerInvInit, NewGenerationCounted DEF BurstInv, BreakerInit

LEMMA BurstStep ==
  ASSUME BurstInv, [BreakerNext]_breakerVars
  PROVE  /\ Counted(cb, failed)'
         /\ cb.state = "closed" /\ cb'.state = "open" => Cardinality(Recent') >= Trip
<1>1. /\ BreakerInv /\ Counted(cb, failed) /\ Counted(Current, failed)
      /\ Current \in Breakers /\ Current.left >= 0
      /\ failed \in FailureLogs /\ failed' \in FailureLogs
      /\ cb.state = "closed" => Current.state = "closed"
  <2>1. BreakerInv /\ BreakerInv' /\ Counted(cb, failed)
    BY BreakerStep DEF BurstInv
  <2>2. Current \in Breakers
    BY <2>1, CurrentFits DEF Fits
  <2>3. Current.left >= 0 /\ (cb.state = "closed" => Current.state = "closed")
    <3>1. cb \in Breakers
      BY <2>1 DEF BreakerInv, Fits
    <3> QED  BY <3>1, BreakerSizes DEF Current, NewGeneration, Breakers
  <2> QED  BY <2>1, <2>2, <2>3, CurrentCounted DEF BreakerInv, FailureLogs
<1> DEFINE b == Current
<1>2. ASSUME NEW c \in Calls, Begin(c)
      PROVE  Counted(cb', failed') /\ (cb.state = "closed" => cb'.state = "closed")
  <2>1. /\ failed' = failed
        /\ \/ cb' = b
           \/ cb' = [b EXCEPT !.requests = Capped(b.requests + 1, MaxRequests),
                              !.young = b.young \cup {c}]
    BY <1>2 DEF Begin
  <2> HIDE DEF b
  <2>2. cb'.state = b.state /\ cb'.left = b.left /\ cb'.failures = b.failures
    BY <1>1, <2>1 DEF Breakers, b
  <2> QED  BY <1>1, <2>1, <2>2 DEF Counted, b
<1>3. ASSUME NEW c \in Calls, NEW ok \in BOOLEAN, End(c, ok)
      PROVE  LET rest == [b EXCEPT !.young = b.young \ {c}]
             IN  /\ rest \in Breakers /\ rest.left = b.left /\ rest.state = b.state
                 /\ Counted(rest, failed)
                 /\ \/ cb' = b
                    \/ ok /\ cb' = Succeeded(rest)
                    \/ ~ok /\ cb' = Failed(rest)
  <2> DEFINE rest == [b EXCEPT !.young = b.young \ {c}]
  <2>1. cb' = b \/ (ok /\ cb' = Succeeded(rest)) \/ (~ok /\ cb' = Failed(rest))
    BY <1>3 DEF End, AfterRequest
  <2> HIDE DEF b
  <2>2. /\ rest \in Breakers /\ rest.left = b.left /\ rest.state = b.state
        /\ rest.failures = b.failures
    BY <1>1 DEF Breakers, b
  <2>3. Counted(rest, failed)
    BY <1>1, <2>2 DEF Counted, b
  <2> QED  BY <2>1, <2>2, <2>3
<1> HIDE DEF b
<1>4. ASSUME NEW c \in Calls, Deliver(c)
      PROVE  Counted(cb', failed') /\ (cb.state = "closed" => cb'.state = "closed")
  <2> DEFINE rest == [b EXCEPT !.young = b.young \ {c}]
  <2>1. End(c, TRUE) /\ failed' = failed
    BY <1>4 DEF Deliver
  <2>2. /\ rest \in Breakers /\ rest.left = b.left /\ rest.state = b.state
        /\ Counted(rest, failed) /\ (cb' = b \/ cb' = Succeeded(rest))
    BY <1>3, <2>1
  <2> HIDE DEF rest
  <2>3. Counted(Succeeded(rest), failed)
    BY <1>1, <2>2, ResultCounted DEF b
  <2>4. rest.state = "closed" => Succeeded(rest).state = "closed"
    BY <2>2 DEF Succeeded, Breakers
  <2> QED  BY <1>1, <2>1, <2>2, <2>3, <2>4 DEF b
<1>5. ASSUME NEW c \in Calls, Lose(c)
      PROVE  /\ Counted(cb', failed')
             /\ cb.state = "closed" /\ cb'.state = "open" => Cardinality(Recent') >= Trip
  <2> DEFINE rest == [b EXCEPT !.young = b.young \ {c}]
             g == [failed EXCEPT ![0] = Capped(failed[0] + 1, Trip)]
  <2>1. End(c, FALSE) /\ failed' = g
    BY <1>5 DEF Lose
  <2>2. /\ rest \in Breakers /\ rest.left = b.left /\ rest.state = b.state
        /\ Counted(rest, failed) /\ (cb' = b \/ cb' = Failed(rest))
    BY <1>3, <2>1
  <2> HIDE DEF rest
  <2>3. /\ Counted(Failed(rest), g) /\ Counted(b, g)
        /\ rest.state = "closed" /\ Failed(rest).state = "open"
             => Cardinality(Logged(g, Interval)) >= Trip
    BY <1>1, <2>2, ResultCounted DEF b
  <2> HIDE DEF g
  <2>4. Recent' = Logged(failed', Interval)
    BY BreakerSizes DEF Recent, Logged
  <2> QED  BY <1>1, <2>1, <2>2, <2>3, <2>4 DEF b
<1>6. ASSUME TimePasses
      PROVE  Counted(cb', failed') /\ cb'.state = cb.state
  <2>1. cb \in Breakers /\ cb.left \in Int
    BY <1>1 DEF BreakerInv, Fits, Breakers
  <2> DEFINE n == IF cb.state = "half-open" \/ cb.left < 0 THEN cb.left ELSE cb.left - 1
             g == [a \in 0 .. Interval |-> IF a = 0 THEN 0 ELSE failed[a - 1]]
  <2>2. cb' = [cb EXCEPT !.left = n] /\ failed' = g
    BY <1>6 DEF TimePasses
  <2>3. cb'.state = cb.state /\ cb'.left = n /\ cb'.failures = cb.failures
    BY <2>1, <2>2 DEF Breakers
  <2>4. ASSUME cb.state = "closed", n >= 0
        PROVE  n <= Interval /\ cb.failures <= Cardinality(Logged(g, Interval - n))
    <3>1. cb.left <= Interval /\ cb.failures <= Cardinality(Logged(failed, Interval - cb.left))
          /\ n = cb.left - 1
      BY <1>1, <2>1, <2>4 DEF Counted
    <3> DEFINE k == Interval - cb.left
    <3>2. k \in 0 .. Interval - 1 /\ Interval - n = k + 1
      BY <2>1, <2>4, <3>1, BreakerSizes
    <3>3. Cardinality(Logged(failed, k)) <= Cardinality(Logged(g, k + 1))
      BY <1>1, <3>2, LoggedShifts
    <3>4. cb.failures \in Nat
      BY <2>1, BreakerSizes DEF Breakers
    <3> HIDE DEF g, k
    <3>5. Cardinality(Logged(failed, k)) \in Nat /\ Cardinality(Logged(g, k + 1)) \in Nat
      BY LoggedIsFinite
    <3>6. cb.failures <= Cardinality(Logged(g, k + 1))
      BY <3>1, <3>3, <3>4, <3>5 DEF k
    <3>7. n <= Interval
      BY <2>1, <3>1, BreakerSizes
    <3> HIDE DEF n
    <3> QED  BY <3>2, <3>6, <3>7
  <2> HIDE DEF g, n
  <2> QED  BY <2>2, <2>3, <2>4 DEF Counted
<1>7. CASE Change \/ UNCHANGED breakerVars \/ \E c \in Calls : Return(c)
  BY <1>1, <1>7 DEF Change, Return, breakerVars
<1> QED  BY <1>2, <1>4, <1>5, <1>6, <1>7 DEF BreakerNext, Serve

(* A closed breaker opens only when Trip calls have failed within Interval,   *)
(* whatever the interval and however the calls overlap.                       *)
THEOREM OpensOnBurstHolds == BreakerSpec => OpensOnBurst
<1>1. BurstInv /\ [BreakerNext]_breakerVars => BurstInv'
  BY BreakerStep, BurstStep DEF BurstInv
<1>2. BurstInv /\ [BreakerNext]_breakerVars =>
        [cb.state = "closed" /\ cb'.state = "open" => Cardinality(Recent') >= Trip]_breakerVars
  BY BurstStep
<1> QED  BY <1>1, <1>2, BurstInit, PTL DEF BreakerSpec, OpensOnBurst

-----------------------------------------------------------------------------
(* A half-open breaker that is full has a trial call in flight *)

\* The calls of a half-open generation: those that still run and those that have
\* succeeded. One that fails ends it.
Room(b) ==
  b.state = "half-open" =>
    /\ IsFiniteSet(b.young)
    /\ b.requests = b.successes + Cardinality(b.young)
    /\ b.successes < MaxRequests

RoomInv == BreakerInv /\ Room(cb)

LEMMA NewGenerationRoom ==
  ASSUME NEW s \in {"closed", "open", "half-open"}
  PROVE  Room(NewGeneration(s))
<1>1. /\ NewGeneration(s).young = {} /\ NewGeneration(s).requests = 0
      /\ NewGeneration(s).successes = 0
  BY DEF NewGeneration
<1> QED  BY <1>1, FS_EmptySet, BreakerSizes DEF Room

LEMMA CurrentRoom == RoomInv => Room(Current)
  BY NewGenerationRoom DEF RoomInv, Current

\* The end of a call of the generation.
LEMMA ResultRoom ==
  ASSUME NEW b \in Breakers, Room(b), NEW c \in b.young
  PROVE  LET rest == [b EXCEPT !.young = b.young \ {c}]
         IN  Room(Succeeded(rest)) /\ Room(Failed(rest))
<1> DEFINE rest == [b EXCEPT !.young = b.young \ {c}]
<1>1. /\ rest \in Breakers /\ rest.young = b.young \ {c} /\ rest.state = b.state
      /\ rest.requests = b.requests /\ rest.successes = b.successes
  BY DEF Breakers
<1> HIDE DEF rest
<1>2. CASE b.state # "half-open"
  <2>1. Succeeded(rest).state = b.state
    BY <1>1, <1>2 DEF Succeeded, Breakers
  <2>2. Failed(rest) = NewGeneration("open") \/ Failed(rest).state = b.state
    BY <1>1 DEF Failed, Breakers
  <2> QED  BY <1>2, <2>1, <2>2, NewGenerationRoom DEF Room, rest
<1>3. CASE b.state = "half-open"
  <2>1. Failed(rest) = NewGeneration("open")
    BY <1>1, <1>3 DEF Failed
  <2>2. /\ IsFiniteSet(rest.young) /\ Cardinality(rest.young) = Cardinality(b.young) - 1
        /\ Cardinality(b.young) \in Nat
        /\ b.requests = b.successes + Cardinality(b.young) /\ b.successes \in Nat
    BY <1>1, <1>3, FS_RemoveElement, FS_CardinalityType DEF Room, Breakers
  <2>3. CASE b.successes + 1 >= MaxRequests
    <3>1. Succeeded(rest) = NewGeneration("closed")
      BY <1>1, <1>3, <2>3 DEF Succeeded
    <3> QED  BY <2>1, <3>1, NewGenerationRoom DEF rest
  <2>4. CASE ~(b.successes + 1 >= MaxRequests)
    <3> DEFINE d == Succeeded(rest)
    <3>1. /\ d = [rest EXCEPT !.successes = Capped(rest.successes + 1, MaxRequests),
                              !.failures = 0]
          /\ Capped(rest.successes + 1, MaxRequests) = b.successes + 1
      BY <1>1, <2>2, <2>4, BreakerSizes DEF Succeeded, Capped
    <3>2. /\ d.young = rest.young /\ d.requests = rest.requests
          /\ d.successes = b.successes + 1
      BY <1>1, <3>1 DEF Breakers
    <3> HIDE DEF d
    <3>3. Room(d)
      BY <1>1, <2>2, <2>4, <3>2, BreakerSizes DEF Room
    <3> QED  BY <2>1, <3>3, NewGenerationRoom DEF d, rest
  <2> QED  BY <2>3, <2>4
<1> QED  BY <1>2, <1>3

LEMMA RoomStep == RoomInv /\ [BreakerNext]_breakerVars => RoomInv'
<1> SUFFICES ASSUME RoomInv, [BreakerNext]_breakerVars PROVE Room(cb)'
  BY BreakerStep DEF RoomInv
<1> DEFINE b == Current
<1>1. b \in Breakers /\ Room(b) /\ b.young \subseteq InFlight(mail)
  BY CurrentFits, CurrentRoom DEF RoomInv, Fits
<1>2. cb \in Breakers /\ Room(cb)
  BY DEF RoomInv, BreakerInv, Fits
<1>3. ASSUME NEW c \in Calls, Begin(c) PROVE Room(cb')
  <2>1. \/ cb' = b
        \/ /\ mail[c] = "idle" /\ ~Full(b)
           /\ cb' = [b EXCEPT !.requests = Capped(b.requests + 1, MaxRequests),
                              !.young = b.young \cup {c}]
    BY <1>3 DEF Begin
  <2> HIDE DEF b
  <2>2. CASE /\ mail[c] = "idle" /\ ~Full(b) /\ b.state = "half-open"
             /\ cb' = [b EXCEPT !.requests = Capped(b.requests + 1, MaxRequests),
                                !.young = b.young \cup {c}]
    <3>1. Capped(b.requests + 1, MaxRequests) = b.requests + 1
      BY <1>1, <2>2, BreakerSizes DEF Full, Capped, Breakers
    <3>2. c \notin b.young
      BY <1>1, <2>2 DEF InFlight
    <3>3. /\ cb'.young = b.young \cup {c} /\ cb'.requests = b.requests + 1
          /\ cb'.successes = b.successes
      BY <1>1, <2>2, <3>1 DEF Breakers
    <3>4. /\ IsFiniteSet(b.young) /\ b.requests = b.successes + Cardinality(b.young)
          /\ b.successes < MaxRequests /\ b.successes \in Nat
      BY <1>1, <2>2 DEF Room, Breakers
    <3>5. /\ IsFiniteSet(cb'.young) /\ Cardinality(b.young) \in Nat
          /\ Cardinality(cb'.young) = Cardinality(b.young) + 1
      BY <3>2, <3>3, <3>4, FS_AddElement, FS_CardinalityType
    <3> QED  BY <3>3, <3>4, <3>5 DEF Room
  <2>3. CASE b.state # "half-open"
    <3>1. cb'.state = b.state
      BY <1>1, <2>1 DEF Breakers
    <3> QED  BY <2>3, <3>1 DEF Room
  <2> QED  BY <1>1, <2>1, <2>2, <2>3
<1>4. ASSUME NEW c \in Calls, NEW ok \in BOOLEAN, End(c, ok) PROVE Room(cb')
  <2>1. \/ cb' = b
        \/ /\ c \in b.young
           /\ \/ cb' = Succeeded([b EXCEPT !.young = b.young \ {c}])
              \/ cb' = Failed([b EXCEPT !.young = b.young \ {c}])
    BY <1>4 DEF End, AfterRequest
  <2> HIDE DEF b
  <2> QED  BY <1>1, <2>1, ResultRoom
<1>5. CASE TimePasses
  <2>1. /\ cb'.state = cb.state /\ cb'.young = cb.young
        /\ cb'.requests = cb.requests /\ cb'.successes = cb.successes
    BY <1>2, <1>5 DEF TimePasses, Breakers
  <2> QED  BY <1>2, <2>1 DEF Room
<1>6. CASE \/ \E c \in Calls : Return(c)
           \/ Change \/ UNCHANGED breakerVars
  BY <1>2, <1>6 DEF Return, Change, breakerVars
<1> QED  BY <1>3, <1>4, <1>5, <1>6 DEF BreakerNext, Serve, Deliver, Lose

\* A half-open breaker that refuses has let through a call that is still running
\* and will be over within the timeout of the HTTP client.
FullBreakerIsTrying ==
  Full(cb) => \E c \in cb.young : mail[c] = "sending" /\ age[c] <= CallTimeout

(* A half-open breaker cannot be stuck: when it refuses mails, a trial call is *)
(* in flight whose end makes room, closes it or opens it. This is the safety   *)
(* half of Recovers, for any number of handlers and any limits.                *)
THEOREM FullBreakerIsTryingHolds == BreakerSpec => []FullBreakerIsTrying
<1>1. BreakerInit => RoomInv
  BY BreakerInvInit, NewGenerationRoom DEF BreakerInit, RoomInv
<1>2. RoomInv => FullBreakerIsTrying
  <2> SUFFICES ASSUME RoomInv, Full(cb)
               PROVE  \E c \in cb.young : mail[c] = "sending" /\ age[c] <= CallTimeout
    BY DEF FullBreakerIsTrying
  <2>1. /\ cb \in Breakers /\ cb.young \subseteq InFlight(mail)
        /\ age \in [Calls -> 0 .. CallTimeout] /\ cb.requests >= MaxRequests
        /\ cb.requests = cb.successes + Cardinality(cb.young) /\ cb.successes < MaxRequests
    BY DEF RoomInv, BreakerInv, Fits, Full, Room
  <2>2. cb.young # {}
    <3>1. cb.young = {} => Cardinality(cb.young) = 0
      BY FS_EmptySet
    <3> QED  BY <2>1, <3>1, BreakerSizes DEF Breakers
  <2> QED  BY <2>1, <2>2, BreakerSizes DEF InFlight
<1> QED  BY <1>1, <1>2, RoomStep, PTL DEF BreakerSpec

-----------------------------------------------------------------------------
(* The connection pool *)

\* What a request has, by what it does: a connection, a query to make, its row.
Holds(r) ==
  /\ r \in busy <=> at[r] \in {"query", "lock", "authorize", "write"}
  /\ at[r] = "query" => queries[r] > 0
  /\ at[r] \in {"lock", "authorize"} => task[r] \in TaskIds
  /\ at[r] = "authorize" => lock[task[r]] = r

PoolInv ==
  /\ PoolTypeOK
  /\ IsFiniteSet(busy) /\ Cardinality(busy) <= MaxOpenConns
  /\ \A r \in Handlers : Holds(r)
  /\ \A t \in TaskIds : lock[t] # NoReq =>
       at[lock[t]] \in {"authorize", "write"} /\ task[lock[t]] = t

LEMMA PoolInvInit == PoolInit => PoolInv
<1> SUFFICES ASSUME PoolInit PROVE PoolInv
  OBVIOUS
<1>1. PoolTypeOK
  BY MaxQueriesAssumption DEF PoolInit, PoolTypeOK
<1>2. IsFiniteSet(busy) /\ Cardinality(busy) <= MaxOpenConns
  BY FS_EmptySet, MaxOpenConnsAssumption DEF PoolInit
<1> QED  BY <1>1, <1>2 DEF PoolInit, PoolInv, Holds

\* Connections that are given back.
LEMMA FewerBusy ==
  ASSUME PoolInv, NEW S, S \subseteq busy
  PROVE  IsFiniteSet(S) /\ Cardinality(S) <= MaxOpenConns
<1>1. IsFiniteSet(busy) /\ Cardinality(busy) <= MaxOpenConns
  BY DEF PoolInv
<1>2. IsFiniteSet(S) /\ Cardinality(S) <= Cardinality(busy)
  BY <1>1, FS_Subset
<1> QED  BY <1>1, <1>2, FS_CardinalityType, MaxOpenConnsAssumption

LEMMA PoolStep == PoolInv /\ [PoolNext]_poolVars => PoolInv'
<1> SUFFICES ASSUME PoolInv, [PoolNext]_poolVars PROVE PoolInv'
  OBVIOUS
<1>a. PoolTypeOK /\ IsFiniteSet(busy) /\ Cardinality(busy) <= MaxOpenConns
  BY DEF PoolInv
<1>b. MaxQueries \in Nat /\ MaxOpenConns \in Nat
  BY MaxQueriesAssumption, MaxOpenConnsAssumption
<1>1. ASSUME NEW r \in Handlers, TakeRequest(r) PROVE PoolInv'
  <2>1. at[r] = "idle" /\ at' = [at EXCEPT ![r] = "wait"] /\ busy' = busy /\ lock' = lock
    BY <1>1 DEF TakeRequest, Goto
  <2>2. PICK n \in 0 .. MaxQueries, k \in TaskIds \cup {NoTask} :
          queries' = [queries EXCEPT ![r] = n] /\ task' = [task EXCEPT ![r] = k]
    BY <1>1 DEF TakeRequest
  <2>3. PoolTypeOK'
    BY <1>a, <2>1, <2>2 DEF PoolTypeOK
  <2> QED  BY <1>a, <2>1, <2>2, <2>3, NoRowAssumption DEF PoolInv, Holds, PoolTypeOK
<1>2. ASSUME NEW r \in Handlers, Acquire(r) PROVE PoolInv'
  <2> DEFINE l == IF queries[r] > 0 THEN "query" ELSE IF task[r] = NoTask THEN "write" ELSE "lock"
  <2>1. /\ at[r] = "wait" /\ at' = [at EXCEPT ![r] = l] /\ busy' = busy \cup {r}
        /\ Cardinality(busy) < MaxOpenConns
        /\ queries' = queries /\ task' = task /\ lock' = lock
    BY <1>2 DEF Acquire, FreeConn, Goto
  <2>2. /\ l \in {"query", "write", "lock"} /\ (l = "query" => queries[r] > 0)
        /\ (l = "lock" => task[r] \in TaskIds)
    BY <1>a DEF PoolTypeOK
  <2> HIDE DEF l
  <2>3. PoolTypeOK'
    BY <1>a, <2>1, <2>2 DEF PoolTypeOK
  <2>4. IsFiniteSet(busy') /\ Cardinality(busy') <= MaxOpenConns
    <3>1. Cardinality(busy) \in Nat
      BY <1>a, FS_CardinalityType
    <3>2. /\ IsFiniteSet(busy')
          /\ Cardinality(busy') = IF r \in busy THEN Cardinality(busy) ELSE Cardinality(busy) + 1
      BY <1>a, <2>1, FS_AddElement
    <3> QED  BY <1>b, <2>1, <3>1, <3>2
  <2>5. \A s \in Handlers : Holds(s)'
    BY <1>a, <2>1, <2>2 DEF PoolInv, Holds, PoolTypeOK
  <2>6. ASSUME NEW t \in TaskIds, lock[t] # NoReq
        PROVE  at'[lock[t]] \in {"authorize", "write"} /\ task[lock[t]] = t
    BY <1>a, <2>1, <2>6 DEF PoolInv, PoolTypeOK
  <2> QED  BY <2>1, <2>3, <2>4, <2>5, <2>6 DEF PoolInv
<1>3. ASSUME NEW r \in Handlers, Query(r) PROVE PoolInv'
  <2>1. /\ at[r] = "query" /\ at' = [at EXCEPT ![r] = "wait"] /\ busy' = busy \ {r}
        /\ queries' = [queries EXCEPT ![r] = queries[r] - 1]
        /\ task' = task /\ lock' = lock
    BY <1>3 DEF Query, Goto
  <2>2. queries[r] \in 0 .. MaxQueries /\ queries[r] > 0
    BY <1>a, <2>1 DEF PoolInv, Holds, PoolTypeOK
  <2>3. PoolTypeOK'
    BY <1>a, <1>b, <2>1, <2>2 DEF PoolTypeOK
  <2>4. IsFiniteSet(busy') /\ Cardinality(busy') <= MaxOpenConns
    BY <2>1, FewerBusy
  <2>5. \A s \in Handlers : Holds(s)'
    BY <1>a, <2>1 DEF PoolInv, Holds, PoolTypeOK
  <2>6. ASSUME NEW t \in TaskIds, lock[t] # NoReq
        PROVE  at'[lock[t]] \in {"authorize", "write"} /\ task[lock[t]] = t
    BY <1>a, <2>1, <2>6 DEF PoolInv, PoolTypeOK
  <2> QED  BY <2>1, <2>3, <2>4, <2>5, <2>6 DEF PoolInv
<1>4. ASSUME NEW r \in Handlers, LockRow(r) PROVE PoolInv'
  <2>1. /\ at[r] = "lock" /\ at' = [at EXCEPT ![r] = "authorize"] /\ lock[task[r]] = NoReq
        /\ lock' = [lock EXCEPT ![task[r]] = r]
        /\ queries' = queries /\ task' = task /\ busy' = busy
    BY <1>4 DEF LockRow, Goto
  <2>2. task[r] \in TaskIds /\ NoReq \notin Handlers
    BY <2>1, NoRowAssumption DEF PoolInv, Holds
  <2>3. PoolTypeOK'
    BY <1>a, <2>1, <2>2 DEF PoolTypeOK
  <2>5. \A s \in Handlers : Holds(s)'
    BY <1>a, <2>1, <2>2 DEF PoolInv, Holds, PoolTypeOK
  <2>6. ASSUME NEW t \in TaskIds, lock'[t] # NoReq
        PROVE  at'[lock'[t]] \in {"authorize", "write"} /\ task[lock'[t]] = t
    BY <1>a, <2>1, <2>2, <2>6 DEF PoolInv, PoolTypeOK
  <2> QED  BY <1>a, <2>1, <2>3, <2>5, <2>6 DEF PoolInv
<1>5. ASSUME NEW r \in Handlers, Authorize(r) PROVE PoolInv'
  <2>1. /\ at[r] = "authorize" /\ at' = [at EXCEPT ![r] = "write"]
        /\ UNCHANGED <<queries, task, busy, lock>>
    BY <1>5 DEF Authorize, Goto
  <2>3. PoolTypeOK'
    BY <1>a, <2>1 DEF PoolTypeOK
  <2>5. \A s \in Handlers : Holds(s)'
    BY <1>a, <2>1 DEF PoolInv, Holds, PoolTypeOK
  <2>6. ASSUME NEW t \in TaskIds, lock[t] # NoReq
        PROVE  at'[lock[t]] \in {"authorize", "write"} /\ task[lock[t]] = t
    BY <1>a, <2>1, <2>6 DEF PoolInv, PoolTypeOK
  <2> QED  BY <1>a, <2>1, <2>3, <2>5, <2>6 DEF PoolInv
<1>6. ASSUME NEW r \in Handlers, EndRequest(r) PROVE PoolInv'
  <2>1. /\ at' = [at EXCEPT ![r] = "idle"] /\ busy' = busy \ {r}
        /\ queries' = [queries EXCEPT ![r] = 0] /\ task' = [task EXCEPT ![r] = NoTask]
        /\ lock' = [t \in TaskIds |-> IF lock[t] = r THEN NoReq ELSE lock[t]]
    BY <1>6 DEF EndRequest, Goto
  <2>3. PoolTypeOK'
    BY <1>a, <1>b, <2>1 DEF PoolTypeOK
  <2>4. IsFiniteSet(busy') /\ Cardinality(busy') <= MaxOpenConns
    BY <2>1, FewerBusy
  <2>5. ASSUME NEW s \in Handlers PROVE Holds(s)'
    BY <1>a, <2>1 DEF PoolInv, Holds, PoolTypeOK
  <2>6. ASSUME NEW t \in TaskIds, lock'[t] # NoReq
        PROVE  at'[lock'[t]] \in {"authorize", "write"} /\ task'[lock'[t]] = t
    BY <1>a, <2>1, <2>6, NoRowAssumption DEF PoolInv, PoolTypeOK
  <2> QED  BY <2>3, <2>4, <2>5, <2>6 DEF PoolInv
<1>7. CASE UNCHANGED poolVars
  BY <1>7 DEF poolVars, PoolInv, PoolTypeOK, Holds
<1> QED  BY <1>1, <1>2, <1>3, <1>4, <1>5, <1>6, <1>7 DEF PoolNext, Proceed, Commit, Fail

LEMMA PoolInvHolds == PoolSpec => []PoolInv
  BY PoolInvInit, PoolStep, PTL DEF PoolSpec

(* The pool never exceeds its limit and no return path leaks a connection,    *)
(* for any number of handlers, connections and queries.                       *)
THEOREM ConnsAreInUseHolds == PoolSpec => []ConnsAreInUse
<1>1. PoolInv => ConnsAreInUse
  BY DEF PoolInv, ConnsAreInUse, Holds
<1> QED  BY <1>1, PoolInvHolds, PTL

\* Whoever locks a row waits for nothing: not for a connection, since it has one,
\* and not for another row.
HoldersNeverWait ==
  \A t \in TaskIds : lock[t] # NoReq =>
    lock[t] \in busy /\ at[lock[t]] \in {"authorize", "write"}

(* What LockHolderProceeds needs of the state: its holder is past every wait. *)
THEOREM HoldersNeverWaitHolds == PoolSpec => []HoldersNeverWait
<1>1. PoolInv => HoldersNeverWait
  BY DEF PoolInv, PoolTypeOK, HoldersNeverWait, Holds
<1> QED  BY <1>1, PoolInvHolds, PTL

\* While a request is unfinished, the next step of some request is possible: not
\* everybody waits for a connection or a lock that another waiter holds.
SomebodyProceeds ==
  \A r \in Handlers : at[r] # "idle" =>
    \E s \in Handlers :
      \/ at[s] \in {"query", "authorize", "write"}
      \/ at[s] = "wait" /\ FreeConn
      \/ at[s] = "lock" /\ lock[task[s]] = NoReq

(* The pool cannot deadlock, not even when waiters for row locks have taken   *)
(* every connection: whoever holds what they wait for waits for nothing. This *)
(* is the safety half of EveryRequestEnds, for any number of handlers, tasks  *)
(* and connections.                                                           *)
THEOREM SomebodyProceedsHolds == PoolSpec => []SomebodyProceeds
<1>1. PoolInv => SomebodyProceeds
  <2> SUFFICES ASSUME PoolInv, NEW r \in Handlers, at[r] # "idle"
               PROVE  SomebodyProceeds!(r)!2
    BY DEF SomebodyProceeds
  <2>1. /\ at[r] \in {"wait", "query", "lock", "authorize", "write"}
        /\ \A s \in Handlers : Holds(s)
        /\ lock \in [TaskIds -> Handlers \cup {NoReq}]
    BY DEF PoolInv, PoolTypeOK
  <2>2. ASSUME NEW s \in Handlers, at[s] = "lock" PROVE SomebodyProceeds!(r)!2
    <3>1. task[s] \in TaskIds
      BY <2>1, <2>2 DEF Holds
    <3>2. CASE lock[task[s]] # NoReq
      <4>1. lock[task[s]] \in Handlers /\ at[lock[task[s]]] \in {"authorize", "write"}
        BY <2>1, <3>1, <3>2 DEF PoolInv
      <4> QED  BY <4>1
    <3> QED  BY <2>2, <3>2
  <2>3. CASE at[r] = "wait" /\ ~FreeConn
    <3>1. busy # {}
      <4>1. busy = {} => Cardinality(busy) = 0
        BY FS_EmptySet
      <4> QED  BY <4>1, <2>3, MaxOpenConnsAssumption DEF FreeConn
    <3>2. PICK s \in Handlers : s \in busy
      BY <3>1 DEF PoolInv, PoolTypeOK
    <3>3. at[s] \in {"query", "lock", "authorize", "write"}
      BY <2>1, <3>2 DEF Holds
    <3> QED  BY <2>2, <3>3
  <2> QED  BY <2>1, <2>2, <2>3
<1> QED  BY <1>1, PoolInvHolds, PTL

=============================================================================
