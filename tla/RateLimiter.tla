---------------------------- MODULE RateLimiter ----------------------------
(***************************************************************************)
(* The rate limiter: RateLimit, the middleware before every API handler,  *)
(* and the token bucket that its Lua script keeps per key in Redis. The   *)
(* script is one atomic step against Redis' own clock, a wall clock that  *)
(* may be set back. Its answer can be lost, and the Redis client then     *)
(* runs it again; when it gives up the request passes (fail open).        *)
(* The script counts in tokens and refills Limit / 60 of them a second;   *)
(* here a token is Minute parts, so that a clock unit refills Limit parts *)
(* and a full bucket holds Limit * Minute of them.                        *)
(***************************************************************************)
EXTENDS Integers

CONSTANTS
  Reqs,           \* request slots; a slot serves one request after the other
  Users, Hosts,
  NoUser,         \* no token, or one that Parse rejects
  Limit,          \* rate_limit.requests_per_minute
  Minute,         \* clock units in a minute
  Slack,          \* what the TTL has beyond the time a refill takes
  MaxRetries,     \* how often the Redis client runs a command again
  MaxClock,       \* bound on the clock
  MaxTravel,      \* bound on the length of the window
  NoKey, NoBucket, NoWindow

ASSUME LimitAssumption == Limit \in Nat \ {0}
ASSUME MinuteAssumption == Minute \in Nat \ {0}
ASSUME SlackAssumption == Slack \in Nat
ASSUME MaxRetriesAssumption == MaxRetries \in Nat
ASSUME NoUserAssumption == NoUser \notin Users

VARIABLES
  clock,          \* TIME of Redis
  bucket,         \* bucket[k]: the hash under key k
  pc,             \* pc[r]: where the request in slot r is
  key,            \* key[r]: the bucket it is counted in
  tries,          \* tries[r]: failed runs of the script for it
  window          \* history: a stretch of time that begins with a run for some key

reqs == <<pc, key, tries>>
vars == <<clock, bucket, reqs, window>>

Keys == ({"user"} \X Users) \cup ({"ip"} \X Hosts)

Cost == Minute
Capacity == Limit * Minute

\* Tokens granted to a key since start, and the time that ran meanwhile.
Windows == [key : Keys, start : Nat, travel : Nat, spent : Nat]

ASSUME NullAssumption ==
  /\ NoKey \notin Keys
  /\ NoBucket \notin [tokens : Int, ts : Int]
  /\ NoWindow \notin Windows

Least(a, b) == IF a <= b THEN a ELSE b

-----------------------------------------------------------------------------
(* The Lua script *)

Refilled(b) ==
  Least(Capacity, b.tokens + (IF clock > b.ts THEN clock - b.ts ELSE 0) * Limit)

\* Faulty variant: EXPIRE after half the time that a refill takes.
HalfTTL == Minute \div 2

TTL == Minute + Slack

Expired(k) == bucket[k] # NoBucket /\ clock >= bucket[k].ts + TTL

\* HMGET finds nothing under a new key or an expired one: the bucket is full.
Loaded(k) ==
  IF bucket[k] = NoBucket \/ Expired(k) THEN [tokens |-> Capacity, ts |-> clock]
                                        ELSE bucket[k]

Admits(k) == Refilled(Loaded(k)) >= Cost

\* Faulty variant: ts is stored with the first token and not again.
StoredOnce(k) ==
  [tokens |-> IF Admits(k) THEN Refilled(Loaded(k)) - Cost ELSE Refilled(Loaded(k)),
   ts |-> Loaded(k).ts]

\* Faulty variant: a refusal stores the time but not the tokens added by then.
StoredOnAdmission(k) ==
  [tokens |-> IF Admits(k) THEN Refilled(Loaded(k)) - Cost ELSE Loaded(k).tokens,
   ts |-> clock]

Stored(k) ==
  [tokens |-> IF Admits(k) THEN Refilled(Loaded(k)) - Cost ELSE Refilled(Loaded(k)),
   ts |-> clock]

Took(k) == IF Admits(k) THEN 1 ELSE 0

InWindow(k) == window # NoWindow /\ window.key = k

\* The window may begin anew with any run, which it then counts.
Script(k) ==
  /\ bucket' = [bucket EXCEPT ![k] = Stored(k)]
  /\ \/ window' = [key |-> k, start |-> clock, travel |-> 0, spent |-> Took(k)]
     \/ /\ ~InWindow(k)
        /\ UNCHANGED window
     \/ /\ InWindow(k)
        /\ window' = [window EXCEPT !.spent = @ + Took(k)]

-----------------------------------------------------------------------------
(* AuthMiddleware and RateLimit *)

\* Register and login are public: they have no user and count by address.
KeyOf(public, u, h) == IF public THEN <<"ip", h>> ELSE <<"user", u>>

Arrive(r) ==
  /\ pc[r] = "idle"
  /\ \E public \in BOOLEAN, u \in Users \cup {NoUser}, h \in Hosts :
       \/ /\ ~public /\ u = NoUser
          /\ pc' = [pc EXCEPT ![r] = "unauthorized"]
          /\ UNCHANGED key
       \/ /\ public \/ u # NoUser
          /\ pc' = [pc EXCEPT ![r] = "allow"]
          /\ key' = [key EXCEPT ![r] = KeyOf(public, u, h)]
  /\ UNCHANGED <<clock, bucket, tries, window>>

Allow(r) ==
  /\ pc[r] = "allow"
  /\ Script(key[r])
  /\ pc' = [pc EXCEPT ![r] = IF Admits(key[r]) THEN "handler" ELSE "limited"]
  /\ UNCHANGED <<clock, key, tries>>

\* The call to Redis fails, before the script ran or after it. The client tries
\* again; when Allow returns the error after all, the request passes.
AllowError(r) ==
  /\ pc[r] = "allow"
  /\ \/ Script(key[r])
     \/ UNCHANGED <<bucket, window>>
  /\ \/ tries[r] < MaxRetries /\ tries' = [tries EXCEPT ![r] = @ + 1] /\ UNCHANGED pc
     \/ tries[r] = MaxRetries /\ pc' = [pc EXCEPT ![r] = "handler"] /\ UNCHANGED tries
  /\ UNCHANGED <<clock, key>>

Leave(r) ==
  /\ pc[r] \in {"unauthorized", "limited", "handler"}
  /\ pc' = [pc EXCEPT ![r] = "idle"]
  /\ key' = [key EXCEPT ![r] = NoKey]
  /\ tries' = [tries EXCEPT ![r] = 0]
  /\ UNCHANGED <<clock, bucket, window>>

-----------------------------------------------------------------------------
Tick ==
  /\ clock < MaxClock
  /\ clock' = clock + 1
  /\ \/ window = NoWindow /\ UNCHANGED window
     \/ /\ window # NoWindow /\ window.travel < MaxTravel
        /\ window' = [window EXCEPT !.travel = @ + 1]
  /\ UNCHANGED <<bucket, reqs>>

\* The clock of the Redis host is set back, which counts no time.
SetBack ==
  /\ \E c \in 0 .. clock - 1 : clock' = c
  /\ UNCHANGED <<bucket, reqs, window>>

Expire(k) ==
  /\ Expired(k)
  /\ bucket' = [bucket EXCEPT ![k] = NoBucket]
  /\ UNCHANGED <<clock, reqs, window>>

Init ==
  /\ clock = 0
  /\ bucket = [k \in Keys |-> NoBucket]
  /\ pc = [r \in Reqs |-> "idle"]
  /\ key = [r \in Reqs |-> NoKey]
  /\ tries = [r \in Reqs |-> 0]
  /\ window = NoWindow

Next ==
  \/ \E r \in Reqs : Arrive(r) \/ Allow(r) \/ AllowError(r) \/ Leave(r)
  \/ Tick \/ SetBack
  \/ \E k \in Keys : Expire(k)

Spec == Init /\ [][Next]_vars

-----------------------------------------------------------------------------
\* What the bucket of k would hold if the script ran now.
Level(k) == IF bucket[k] = NoBucket THEN Capacity ELSE Refilled(bucket[k])

TypeOK ==
  /\ clock \in Nat
  /\ bucket \in [Keys -> [tokens : 0 .. Capacity, ts : Nat] \cup {NoBucket}]
  /\ pc \in [Reqs -> {"idle", "allow", "unauthorized", "limited", "handler"}]
  /\ key \in [Reqs -> Keys \cup {NoKey}]
  /\ \A r \in Reqs : pc[r] = "allow" => key[r] \in Keys
  /\ tries \in [Reqs -> 0 .. MaxRetries]
  /\ window \in Windows \cup {NoWindow}

(* From any run of the script on, a key is granted no more tokens than a     *)
(* full bucket and the refill of the time that Redis' clock has run since:   *)
(* in a minute less than twice the configured rate, whatever is retried,     *)
(* lost or expired and however the clock is set back in between.             *)
GrantsAreBounded ==
  /\ TypeOK
  /\ window # NoWindow => Cost * window.spent <= Capacity + Limit * window.travel

(* The Retry-After of a refusal is true: a minute after any run of the       *)
(* script, a key that was granted fewer tokens than the limit meanwhile is   *)
(* not refused. Setting the clock back costs no more than the time itself,   *)
(* because a refused run stores the time and the tokens as well.             *)
WaitingIsRewarded ==
  (/\ window # NoWindow
   /\ clock - window.start >= Minute
   /\ window.spent < Limit)
  => Level(window.key) >= Cost

(* EXPIRE loses nothing: a bucket is dropped only when it would be full.     *)
ExpiryGrantsNothing ==
  [][\A k \in Keys : bucket[k] # NoBucket /\ bucket'[k] = NoBucket
                       => Level(k) = Capacity]_vars

=============================================================================
