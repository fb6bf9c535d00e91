----------------------------- MODULE TaskCache -----------------------------
(***************************************************************************)
(* The version-keyed cache of task lists (internal/store/rediscache) and  *)
(* the two kinds of request that meet there: writers, which commit to     *)
(* MySQL and then INCR the version of their team, and listers, which look *)
(* a page up under the version they read, and on a miss read MySQL and    *)
(* store the page under the version they read THEN. One team; a write     *)
(* adds itself to the database, so a page is the set of writes it shows.  *)
(* The Redis client runs an INCR again when its answer is lost, and one   *)
(* it has given up on may still be run later: INCR is not idempotent, so  *)
(* a write may move the version several times.                            *)
(* Keys are <<version, filter>>, the filter standing for status,          *)
(* assignee, page and size.                                               *)
(***************************************************************************)
EXTENDS Naturals, FiniteSets

CONSTANTS
  Writers,        \* Create and Update requests of the team, each served once
  Listers,        \* GET /tasks requests; a client may list again
  Filters,
  NoFilter,
  RedisMayFail,   \* whether calls to Redis may return an error
  MaxRetries      \* MaxRetries[w]: how often the client sends w's INCR again: 3 times
                  \* by default, less often when the context of w ends before

ASSUME NoFilterAssumption == NoFilter \notin Filters
ASSUME RedisMayFailAssumption == RedisMayFail \in BOOLEAN
ASSUME MaxRetriesAssumption == MaxRetries \in [Writers -> Nat]

VARIABLES
  db,             \* the writes committed to MySQL
  wpc,            \* wpc[w]: progress of writer w
  version,        \* the version key in Redis; 0 while it does not exist
  slot,           \* slot[w]: the number w's INCR gave the first time it ran, or 0
  tries,          \* tries[w]: how often the client has sent w's INCR again
  strays,         \* the INCRs the client has given up on and Redis may still run
  cache,          \* the live entries: a function on a set of keys
  lpc,            \* lpc[l]: the call lister l makes next
  filter,         \* local of l: its filter
  key,            \* local of l: the version its cache key was built with
  page,           \* local of l: the page it is building or has answered with
  start,          \* history: the version when l began
  degraded        \* history: l's first version read failed

lister == <<lpc, filter, key, page, start, degraded>>
incrs == <<version, slot, tries, strays>>
vars == <<db, wpc, incrs, cache, lister>>

\* total and items come from two SELECTs. since is no part of the stored page:
\* it records the version that was current when its filler began.
Pages == [total : SUBSET Writers, items : SUBSET Writers, since : Nat]

NoPage == [total |-> {}, items |-> {}, since |-> 0]

Keys == Nat \X Filters

Init ==
  /\ db = {}
  /\ wpc = [w \in Writers |-> "idle"]
  /\ version = 0
  /\ slot = [w \in Writers |-> 0]
  /\ tries = [w \in Writers |-> 0]
  /\ strays = 0
  /\ cache = [k \in {} |-> NoPage]
  /\ lpc = [l \in Listers |-> "idle"]
  /\ filter = [l \in Listers |-> NoFilter]
  /\ key = [l \in Listers |-> 0]
  /\ page = [l \in Listers |-> NoPage]
  /\ start = [l \in Listers |-> 0]
  /\ degraded = [l \in Listers |-> FALSE]

-----------------------------------------------------------------------------
(* Writers: TaskService.Create and Update from COMMIT on *)

Commit(w) ==
  /\ wpc[w] = "idle"
  /\ db' = db \cup {w}
  /\ wpc' = [wpc EXCEPT ![w] = "committed"]
  /\ UNCHANGED <<incrs, cache, lister>>

\* One attempt of w's INCR: Redis runs it, or it gets lost or stuck on the way.
Incr(w) ==
  \/ /\ version' = version + 1
     /\ slot' = [slot EXCEPT ![w] = IF @ = 0 THEN version + 1 ELSE @]
     /\ UNCHANGED strays
  \/ /\ RedisMayFail
     /\ strays' \in {strays, strays + 1}
     /\ UNCHANGED <<version, slot>>

\* Its answer is lost and the client has an attempt left, or the call is over.
RetryOrReturn(w) ==
  \/ /\ RedisMayFail /\ tries[w] < MaxRetries[w]
     /\ tries' = [tries EXCEPT ![w] = @ + 1]
     /\ UNCHANGED wpc
  \/ /\ wpc' = [wpc EXCEPT ![w] = "acked"]
     /\ tries' = [tries EXCEPT ![w] = 0]

\* INCR, whose failure is only logged. A process that dies here, or a client
\* that hangs up so that the context is cancelled, has the same effect.
InvalidateTeam(w) ==
  /\ wpc[w] = "committed"
  /\ Incr(w) /\ RetryOrReturn(w)
  /\ UNCHANGED <<db, cache, lister>>

\* Redis runs an INCR whose sender no longer waits for it.
LateIncr ==
  /\ strays > 0
  /\ strays' = strays - 1
  /\ version' = version + 1
  /\ UNCHANGED <<db, wpc, slot, tries, cache, lister>>

-----------------------------------------------------------------------------
(* Listers: TaskService.List *)

\* version(): what a read of the version key may return; "0" also on an error.
VersionRead(v) == v = version \/ (RedisMayFail /\ v = 0)

\* GetList, first half. (The membership check before it touches neither the
\* cache nor the tasks, and never changes its answer from yes to no.)
ReadVersion(l) ==
  /\ lpc[l] = "idle"
  /\ \E f \in Filters, v \in {0, version} :
       /\ VersionRead(v)
       /\ filter' = [filter EXCEPT ![l] = f]
       /\ key' = [key EXCEPT ![l] = v]
       /\ degraded' = [degraded EXCEPT ![l] = v # version]
  /\ start' = [start EXCEPT ![l] = version]
  /\ lpc' = [lpc EXCEPT ![l] = "get"]
  /\ UNCHANGED <<db, wpc, incrs, cache, page>>

KeyOf(l) == <<key[l], filter[l]>>

\* GetList, second half: an error of GET counts as a miss.
Get(l) ==
  /\ lpc[l] = "get"
  /\ \/ /\ KeyOf(l) \in DOMAIN cache
        /\ page' = [page EXCEPT ![l] = cache[KeyOf(l)]]
        /\ lpc' = [lpc EXCEPT ![l] = "answered"]
     \/ /\ KeyOf(l) \notin DOMAIN cache \/ RedisMayFail
        /\ lpc' = [lpc EXCEPT ![l] = "count"]
        /\ UNCHANGED page
  /\ UNCHANGED <<db, wpc, incrs, cache, filter, key, start, degraded>>

\* TaskRepository.List: COUNT(*), then the page, each its own statement.
Count(l) ==
  /\ lpc[l] = "count"
  /\ page' = [page EXCEPT ![l] = [total |-> db, items |-> {}, since |-> start[l]]]
  /\ lpc' = [lpc EXCEPT ![l] = "select"]
  /\ UNCHANGED <<db, wpc, incrs, cache, filter, key, start, degraded>>

Select(l) ==
  /\ lpc[l] = "select"
  /\ page' = [page EXCEPT ![l].items = db]
  /\ lpc' = [lpc EXCEPT ![l] = "reread"]
  /\ UNCHANGED <<db, wpc, incrs, cache, filter, key, start, degraded>>

\* SetList builds its key from a second read of the version.
RereadVersion(l) ==
  /\ lpc[l] = "reread"
  /\ \E v \in {0, version} : VersionRead(v) /\ key' = [key EXCEPT ![l] = v]
  /\ lpc' = [lpc EXCEPT ![l] = "set"]
  /\ UNCHANGED <<db, wpc, incrs, cache, filter, page, start, degraded>>

Store(k, p) == cache' = [x \in DOMAIN cache \cup {k} |-> IF x = k THEN p ELSE cache[x]]

Set(l) ==
  /\ lpc[l] = "set"
  /\ \/ Store(KeyOf(l), page[l])
     \/ RedisMayFail /\ UNCHANGED cache
  /\ lpc' = [lpc EXCEPT ![l] = "answered"]
  /\ UNCHANGED <<db, wpc, incrs, filter, key, page, start, degraded>>

\* The request is over: after its answer, or on an error of MySQL.
Return(l) ==
  /\ lpc[l] \in {"answered", "count", "select"}
  /\ lpc' = [lpc EXCEPT ![l] = "idle"]
  /\ filter' = [filter EXCEPT ![l] = NoFilter]
  /\ key' = [key EXCEPT ![l] = 0]
  /\ page' = [page EXCEPT ![l] = NoPage]
  /\ start' = [start EXCEPT ![l] = 0]
  /\ degraded' = [degraded EXCEPT ![l] = FALSE]
  /\ UNCHANGED <<db, wpc, incrs, cache>>

-----------------------------------------------------------------------------
\* Faulty variant: only entries under a superseded version are ever dropped.
ExpireSuperseded(k) ==
  /\ k \in DOMAIN cache /\ k[1] < version
  /\ cache' = [x \in DOMAIN cache \ {k} |-> cache[x]]
  /\ UNCHANGED <<db, wpc, incrs, lister>>

\* SET gives every entry the TTL of 5 minutes.
Expire(k) ==
  /\ k \in DOMAIN cache
  /\ cache' = [x \in DOMAIN cache \ {k} |-> cache[x]]
  /\ UNCHANGED <<db, wpc, incrs, lister>>

\* Faulty variant: the version is incremented before COMMIT.
WriterStepInvalidatingFirst(w) ==
  \/ /\ wpc[w] = "idle"
     /\ Incr(w)
     /\ wpc' = [wpc EXCEPT ![w] = "committed"]
     /\ UNCHANGED <<db, tries, cache, lister>>
  \/ /\ wpc[w] = "committed"
     /\ db' = db \cup {w}
     /\ wpc' = [wpc EXCEPT ![w] = "acked"]
     /\ UNCHANGED <<incrs, cache, lister>>

WriterStep(w) == Commit(w) \/ InvalidateTeam(w)

ListerStep(l) ==
  \/ Get(l) \/ Count(l) \/ Select(l) \/ RereadVersion(l) \/ Set(l) \/ Return(l)

Next ==
  \/ \E w \in Writers : WriterStep(w)
  \/ LateIncr
  \/ \E l \in Listers : ReadVersion(l) \/ ListerStep(l)
  \/ \E k \in DOMAIN cache : Expire(k)

Spec == Init /\ [][Next]_vars

\* The keys that can exist: every attempt of a writer increments at most once.
Attempts == UNION {{w} \X (0 .. MaxRetries[w]) : w \in Writers}
ReachableKeys == (0 .. Cardinality(Attempts)) \X Filters

\* A request that is being served is served to its end and a TTL runs out.
\* Nothing obliges a write or a new listing to arrive, or Redis to fail.
FairSpec ==
  /\ Spec
  /\ \A l \in Listers : WF_vars(ListerStep(l))
  /\ \A k \in ReachableKeys : WF_vars(Expire(k))

-----------------------------------------------------------------------------
TypeOK ==
  /\ db \subseteq Writers
  /\ wpc \in [Writers -> {"idle", "committed", "acked"}]
  /\ version \in Nat
  /\ slot \in [Writers -> Nat]
  /\ tries \in [Writers -> Nat] /\ \A w \in Writers : tries[w] <= MaxRetries[w]
  /\ strays \in Nat
  /\ DOMAIN cache \subseteq Keys
  /\ \A k \in DOMAIN cache : cache[k] \in Pages
  /\ lpc \in [Listers -> {"idle", "get", "count", "select", "reread", "set", "answered"}]
  /\ filter \in [Listers -> Filters \cup {NoFilter}]
  /\ \A l \in Listers : lpc[l] # "idle" => filter[l] \in Filters
  /\ key \in [Listers -> Nat]
  /\ page \in [Listers -> Pages]
  /\ start \in [Listers -> Nat]
  /\ degraded \in [Listers -> BOOLEAN]

\* The invalidation of w had succeeded when the request of l began.
InvalidatedBefore(w, l) == slot[w] # 0 /\ slot[w] <= start[l]

(* A listing that begins after the invalidation of a write misses the write   *)
(* only in two ways: its own version read failed, so that it looked under     *)
(* "0"; or the page it was given comes from a fill that began before that     *)
(* invalidation and was stored, by the second version read of SetList, under  *)
(* a version newer than the data it holds.                                    *)
StaleOnlyIfRacedOrDegraded ==
  \A l \in Listers : lpc[l] = "answered" =>
    \A w \in Writers :
      InvalidatedBefore(w, l) /\ (w \notin page[l].items \/ w \notin page[l].total)
        => degraded[l] \/ page[l].since < key[l]

(* What invalidation is there for: once InvalidateTeam has succeeded, no list *)
(* request that begins later is answered without the write. It fails.         *)
InvalidationTakesEffect ==
  \A l \in Listers : lpc[l] = "answered" =>
    \A w \in Writers : InvalidatedBefore(w, l) => w \in page[l].items

(* Whatever races or failures left stale pages in the cache, they are gone    *)
(* for good some time after the last write: every entry then shows the whole  *)
(* database, and its total agrees with its items.                             *)
CacheConverges ==
  <>[](\A k \in DOMAIN cache : cache[k].items = db /\ cache[k].total = db)

=============================================================================
