-------------------------- MODULE TaskCacheProofs --------------------------
(***************************************************************************)
(* StaleOnlyIfRacedOrDegraded for any writers, listers and filters. The    *)
(* argument: INCR follows COMMIT, so every write whose ticket (slot) is    *)
(* at most the version a filler began with was in MySQL before the filler  *)
(* read it; the page it builds is complete up to that version, wherever    *)
(* it is stored and whoever is answered with it. And with the writes       *)
(* over, neither a read, a fill nor a crash can make a stale page anew.    *)
(***************************************************************************)
EXTENDS RedisRestart, TLAPS

\* W contains every write invalidated up to version v.
CompleteUpTo(v, W) == \A w \in Writers : slot[w] # 0 /\ slot[w] <= v => w \in W

SlotInv ==
  \A w \in Writers : slot[w] <= version /\ (slot[w] # 0 => w \in db)
                     /\ (wpc[w] = "committed" => w \in db)

CacheInv ==
  \A k \in DOMAIN cache :
    /\ cache[k].since <= version
    /\ CompleteUpTo(cache[k].since, cache[k].items)
    /\ CompleteUpTo(cache[k].since, cache[k].total)

ListerInv ==
  \A l \in Listers :
    /\ start[l] <= version
    /\ page[l].since <= version
    /\ lpc[l] \in {"select", "reread", "set"} => page[l].since = start[l]
    /\ lpc[l] \in {"select", "reread", "set", "answered"}
         => CompleteUpTo(page[l].since, page[l].total)
    /\ lpc[l] \in {"reread", "set", "answered"}
         => CompleteUpTo(page[l].since, page[l].items)
    /\ lpc[l] = "get" /\ ~degraded[l] => key[l] = start[l]
    /\ lpc[l] = "answered"
         => page[l].since = start[l] \/ (~degraded[l] => key[l] = start[l])

CInv == TypeOK /\ SlotInv /\ CacheInv /\ ListerInv

-----------------------------------------------------------------------------
LEMMA InitCInv == Init => CInv
  BY NoFilterAssumption, MaxRetriesAssumption
     DEF Init, CInv, TypeOK, SlotInv, CacheInv, ListerInv, CompleteUpTo, Pages, NoPage

LEMMA TypeStep == TypeOK /\ [Next]_vars => TypeOK'
<1> SUFFICES ASSUME TypeOK, [Next]_vars PROVE TypeOK'
  OBVIOUS
<1> USE DEF TypeOK, incrs
<1>1. ASSUME NEW w \in Writers, Commit(w) PROVE TypeOK'
  BY <1>1 DEF Commit, lister
<1>2. ASSUME NEW w \in Writers, InvalidateTeam(w) PROVE TypeOK'
  <2>1. version' \in Nat /\ strays' \in Nat /\ slot' \in [Writers -> Nat]
    BY <1>2 DEF InvalidateTeam, Incr
  <2>2. /\ tries' \in [Writers -> Nat] /\ \A x \in Writers : tries'[x] <= MaxRetries[x]
        /\ wpc' \in [Writers -> {"idle", "committed", "acked"}]
    BY <1>2, MaxRetriesAssumption DEF InvalidateTeam, RetryOrReturn
  <2> QED  BY <1>2, <2>1, <2>2 DEF InvalidateTeam, lister
<1>12. CASE LateIncr
  BY <1>12 DEF LateIncr, lister
<1>3. ASSUME NEW l \in Listers, ReadVersion(l) PROVE TypeOK'
  BY <1>3 DEF ReadVersion
<1>4. ASSUME NEW l \in Listers, Get(l) PROVE TypeOK'
  BY <1>4 DEF Get, Pages
<1>5. ASSUME NEW l \in Listers, Count(l) PROVE TypeOK'
  BY <1>5 DEF Count, Pages
<1>6. ASSUME NEW l \in Listers, Select(l) PROVE TypeOK'
  <2>0. page[l] \in Pages /\ db \in SUBSET Writers
    OBVIOUS
  <2>1. [page[l] EXCEPT !.items = db] \in Pages
    <3> HIDE DEF TypeOK
    <3> QED  BY <2>0 DEF Pages
  <2>2. page' \in [Listers -> Pages]
    BY <1>6, <2>1 DEF Select
  <2>3. /\ UNCHANGED <<db, wpc, version, slot, tries, strays, cache>>
        /\ UNCHANGED <<filter, key, start, degraded>>
        /\ lpc' = [lpc EXCEPT ![l] = "reread"] /\ lpc[l] = "select"
    BY <1>6 DEF Select
  <2> QED  BY <2>2, <2>3
<1>7. ASSUME NEW l \in Listers, RereadVersion(l) PROVE TypeOK'
  BY <1>7 DEF RereadVersion
<1>8. ASSUME NEW l \in Listers, Set(l) PROVE TypeOK'
  <2>1. KeyOf(l) \in Keys /\ page[l] \in Pages
    BY <1>8 DEF Set, KeyOf, Keys
  <2>2. DOMAIN cache' \subseteq Keys /\ \A k \in DOMAIN cache' : cache'[k] \in Pages
    BY <1>8, <2>1 DEF Set, Store
  <2> QED  BY <1>8, <2>2 DEF Set
<1>9. ASSUME NEW l \in Listers, Return(l) PROVE TypeOK'
  BY <1>9 DEF Return, Pages, NoPage
<1>10. ASSUME NEW k \in DOMAIN cache, Expire(k) PROVE TypeOK'
  BY <1>10 DEF Expire, lister
<1>11. CASE UNCHANGED vars
  BY <1>11 DEF vars, lister
<1> QED
  BY <1>1, <1>2, <1>3, <1>4, <1>5, <1>6, <1>7, <1>8, <1>9, <1>10, <1>11, <1>12
     DEF Next, WriterStep, ListerStep

-----------------------------------------------------------------------------
(* One lemma per kind of step. Only an INCR moves version, and the ticket it   *)
(* may hand out exceeds every since there is.                                 *)

LEMMA IncrCInv ==
  ASSUME CInv, TypeOK', version' = version + 1, UNCHANGED <<db, cache, lister>>,
         NEW w \in Writers, w \in db,
         \A x \in Writers : wpc'[x] = "committed" => wpc[x] = "committed",
         \A x \in Writers : slot'[x] = slot[x] \/ (x = w /\ slot'[x] = version + 1)
  PROVE  CInv'
<1> USE DEF CInv, SlotInv, CacheInv, ListerInv, CompleteUpTo, TypeOK
<1>1. \A x \in Writers : \A v \in Nat :
        v <= version /\ slot'[x] # 0 /\ slot'[x] <= v => slot[x] # 0 /\ slot[x] <= v
  OBVIOUS
<1>2. SlotInv'
  OBVIOUS
<1>3. CacheInv'
  <2> SUFFICES ASSUME NEW k \in DOMAIN cache
               PROVE  /\ cache[k].since <= version + 1
                      /\ \A x \in Writers :
                           slot'[x] # 0 /\ slot'[x] <= cache[k].since
                             => x \in cache[k].items /\ x \in cache[k].total
    OBVIOUS
  <2> QED  BY <1>1 DEF Pages
<1>4. ListerInv'
  <2> SUFFICES ASSUME NEW l \in Listers
               PROVE  ListerInv!(l)'
    BY DEF ListerInv
  <2>1. /\ page[l].since \in Nat /\ page[l].since <= version
        /\ start[l] \in Nat /\ start[l] <= version
    BY DEF Pages
  <2> QED  BY <1>1, <2>1 DEF lister
<1> QED  BY <1>2, <1>3, <1>4

LEMMA WriterStepCInv ==
  ASSUME CInv, TypeOK', NEW w \in Writers, WriterStep(w)
  PROVE  CInv'
<1>1. CASE Commit(w)
  BY <1>1 DEF Commit, lister, incrs, CInv, SlotInv, CacheInv, ListerInv, CompleteUpTo,
     TypeOK
<1>2. CASE InvalidateTeam(w)
  <2>1. /\ UNCHANGED <<db, cache, lister>>
        /\ \A x \in Writers : wpc'[x] = "committed" => wpc[x] = "committed"
    BY <1>2 DEF InvalidateTeam, RetryOrReturn, CInv, TypeOK
  <2>2. CASE UNCHANGED <<version, slot>>
    BY <2>1, <2>2 DEF lister, CInv, SlotInv, CacheInv, ListerInv, CompleteUpTo
  <2>3. CASE version' = version + 1 /\ slot' = [slot EXCEPT ![w] = IF @ = 0 THEN version + 1 ELSE @]
    <3>1. \A x \in Writers : slot'[x] = slot[x] \/ (x = w /\ slot'[x] = version + 1)
      BY <2>3 DEF CInv, TypeOK
    <3>2. w \in db
      BY <1>2 DEF InvalidateTeam, CInv, SlotInv
    <3> QED  BY <2>1, <2>3, <3>1, <3>2, IncrCInv
  <2> QED  BY <1>2, <2>2, <2>3 DEF InvalidateTeam, Incr
<1> QED  BY <1>1, <1>2 DEF WriterStep

LEMMA LateIncrCInv == CInv /\ TypeOK' /\ LateIncr => CInv'
<1> SUFFICES ASSUME CInv, TypeOK', LateIncr PROVE CInv'
  OBVIOUS
<1>1. CASE db = {}
  BY <1>1 DEF LateIncr, lister, CInv, SlotInv, CacheInv, ListerInv, CompleteUpTo, TypeOK, Pages
<1>2. ASSUME NEW w \in db PROVE CInv'
  BY <1>2, IncrCInv DEF LateIncr, CInv, TypeOK
<1> QED  BY <1>1, <1>2

LEMMA ListerStepCInv ==
  ASSUME CInv, TypeOK', NEW l \in Listers, ReadVersion(l) \/ ListerStep(l)
  PROVE  CInv'
<1> USE DEF CInv, SlotInv, CacheInv, ListerInv, CompleteUpTo, TypeOK, Pages, incrs
<1>1. CASE ReadVersion(l)
  <2>1. PICK v \in {0, version} :
          /\ key' = [key EXCEPT ![l] = v]
          /\ degraded' = [degraded EXCEPT ![l] = v # version]
    BY <1>1 DEF ReadVersion
  <2>2. degraded'[l] <=> v # version
    BY <2>1
  <2>3. \A m \in Listers \ {l} : degraded'[m] = degraded[m] /\ key'[m] = key[m]
    BY <2>1
  <2>4. key'[l] = v /\ start' = [start EXCEPT ![l] = version]
    BY <1>1, <2>1 DEF ReadVersion
  <2>5. UNCHANGED <<db, wpc, version, slot, cache, page>> /\ lpc' = [lpc EXCEPT ![l] = "get"]
    BY <1>1 DEF ReadVersion
  <2>6. ListerInv'
    BY <2>2, <2>3, <2>4, <2>5
  <2> QED  BY <2>5, <2>6
<1>2. CASE Get(l)
  <2>1. CASE page' = [page EXCEPT ![l] = cache[KeyOf(l)]] /\ KeyOf(l) \in DOMAIN cache
    BY <1>2, <2>1 DEF Get
  <2>2. CASE UNCHANGED page /\ lpc' = [lpc EXCEPT ![l] = "count"]
    BY <1>2, <2>2 DEF Get
  <2> QED  BY <1>2, <2>1, <2>2 DEF Get
<1>3. CASE Count(l)
  BY <1>3 DEF Count
<1>4. CASE Select(l)
  BY <1>4 DEF Select
<1>5. CASE RereadVersion(l)
  BY <1>5 DEF RereadVersion
<1>6. CASE Set(l)
  <2>1. CacheInv'
    BY <1>6 DEF Set, Store
  <2>2. SlotInv' /\ ListerInv'
    BY <1>6 DEF Set
  <2> QED  BY <2>1, <2>2
<1>7. CASE Return(l)
  BY <1>7 DEF Return, NoPage
<1> QED
  BY <1>1, <1>2, <1>3, <1>4, <1>5, <1>6, <1>7 DEF ListerStep

LEMMA CInvStep == CInv /\ [Next]_vars => CInv'
<1> SUFFICES ASSUME CInv, [Next]_vars PROVE CInv'
  OBVIOUS
<1>1. TypeOK'
  BY TypeStep DEF CInv
<1>2. ASSUME NEW k \in DOMAIN cache, Expire(k) PROVE CInv'
  BY <1>1, <1>2
     DEF Expire, CInv, SlotInv, CacheInv, ListerInv, CompleteUpTo, TypeOK, lister, incrs
<1>3. CASE UNCHANGED vars
  BY <1>1, <1>3
     DEF CInv, SlotInv, CacheInv, ListerInv, CompleteUpTo, TypeOK, vars, lister, incrs
<1> QED
  BY <1>1, <1>2, <1>3, WriterStepCInv, ListerStepCInv, LateIncrCInv DEF Next

THEOREM CInvHolds == Spec => []CInv
  BY InitCInv, CInvStep, PTL DEF Spec

(* Types are kept for any set of writers, listers and filters. *)
THEOREM TypeCorrect == Spec => []TypeOK
  BY CInvHolds, PTL DEF CInv

LEMMA CInvExplains == CInv => StaleOnlyIfRacedOrDegraded
  BY DEF CInv, ListerInv, CompleteUpTo, StaleOnlyIfRacedOrDegraded, InvalidatedBefore,
         TypeOK, Pages

(* Whatever interleaving of writers, listers, expiries and Redis failures: a  *)
(* list answer misses an invalidated write only when it looked under the      *)
(* fallback version or was filled by a request the invalidation overtook.     *)
THEOREM StalenessExplained == Spec => []StaleOnlyIfRacedOrDegraded
  BY CInvExplains, CInvHolds, PTL

-----------------------------------------------------------------------------
(* Redis may crash: CInv holds up to the first crash, for Fsync changes       *)
(* nothing that it reads. That every variable keeps its type holds for ever, *)
(* because what is on disk once was in memory.                               *)

restartVars == <<vars, disk, crashes>>

DiskTypeOK ==
  /\ disk.version \in Nat
  /\ DOMAIN disk.cache \subseteq Keys
  /\ \A k \in DOMAIN disk.cache : disk.cache[k] \in Pages
  /\ crashes \in Nat

\* Only a crash breaks CInv, and crashes counts them.
RInv == TypeOK /\ DiskTypeOK /\ (crashes = 0 => CInv)

-----------------------------------------------------------------------------
LEMMA InitRInv == InitOnDisk => RInv
<1> SUFFICES ASSUME InitOnDisk PROVE RInv
  OBVIOUS
<1>1. CInv /\ TypeOK
  BY InitCInv DEF InitOnDisk, CInv
<1>2. DiskTypeOK
  BY <1>1 DEF InitOnDisk, DiskTypeOK, TypeOK
<1> QED  BY <1>1, <1>2 DEF RInv

LEMMA CrashTypes == RInv /\ Crash => TypeOK' /\ DiskTypeOK' /\ crashes' # 0
<1> SUFFICES ASSUME RInv, Crash PROVE TypeOK' /\ DiskTypeOK' /\ crashes' # 0
  OBVIOUS
<1>1. PICK live \in SUBSET DOMAIN disk.cache : cache' = [k \in live |-> disk.cache[k]]
  BY DEF Crash
<1>2. /\ DOMAIN cache' \subseteq Keys
      /\ \A k \in DOMAIN cache' : cache'[k] \in Pages
  BY <1>1 DEF RInv, DiskTypeOK
<1>3. version' \in Nat
  BY DEF Crash, RInv, DiskTypeOK
<1>4. TypeOK'
  BY <1>2, <1>3 DEF Crash, RInv, TypeOK, lister
<1>5. DiskTypeOK' /\ crashes' # 0
  BY <1>2, <1>3 DEF Crash, RInv, DiskTypeOK
<1> QED  BY <1>4, <1>5

LEMMA RInvStep == RInv /\ [NextOnDisk]_restartVars => RInv'
<1> SUFFICES ASSUME RInv, [NextOnDisk]_restartVars PROVE RInv'
  OBVIOUS
<1>1. ASSUME [Next]_vars, UNCHANGED <<disk, crashes>> PROVE RInv'
  <2>1. TypeOK'
    BY <1>1, TypeStep DEF RInv
  <2>2. DiskTypeOK'
    BY <1>1 DEF RInv, DiskTypeOK
  <2>3. crashes' = 0 => CInv'
    BY <1>1, CInvStep DEF RInv
  <2> QED  BY <2>1, <2>2, <2>3 DEF RInv
<1>2. CASE Fsync
  <2>1. UNCHANGED vars /\ crashes' = crashes
    BY <1>2 DEF Fsync
  <2>2. TypeOK' /\ (crashes' = 0 => CInv')
    BY <2>1, TypeStep, CInvStep DEF RInv
  <2>3. DiskTypeOK'
    BY <1>2 DEF Fsync, RInv, DiskTypeOK, TypeOK
  <2> QED  BY <2>2, <2>3 DEF RInv
<1>3. CASE Crash
  BY <1>3, CrashTypes DEF RInv
<1> QED  BY <1>1, <1>2, <1>3 DEF NextOnDisk, restartVars

THEOREM RInvHolds == SpecOnDisk => []RInv
<1>1. SpecOnDisk => InitOnDisk /\ [][NextOnDisk]_restartVars
  BY DEF SpecOnDisk, restartVars
<1> QED  BY <1>1, InitRInv, RInvStep, PTL

(* Types are kept across any number of crashes: version, keys and pages that *)
(* Redis loads from its file are such as it once served.                     *)
THEOREM TypesSurviveCrashes == SpecOnDisk => []TypeOK
  BY RInvHolds, PTL DEF RInv

(* Any writers, listers and filters, and any failing calls: until Redis       *)
(* crashes, only the race of SetList or a failed version read makes a list   *)
(* miss a write whose invalidation had succeeded before the list was asked.  *)
THEOREM StaleOnlyUntilCrashHolds == SpecOnDisk => []StaleOnlyUntilCrash
<1>1. RInv => StaleOnlyUntilCrash
  BY CInvExplains DEF RInv, StaleOnlyUntilCrash
<1> QED  BY <1>1, RInvHolds, PTL

-----------------------------------------------------------------------------
(* After the last write and the last crash *)

Whole(p) == p.items = db /\ p.total = db

\* The listers that are building a page without some write, and the entries that
\* lack one.
StaleFills ==
  {l \in Listers : \/ lpc[l] = "select" /\ page[l].total # db
                   \/ lpc[l] \in {"reread", "set"} /\ ~Whole(page[l])}

StaleKeys == {k \in DOMAIN cache : ~Whole(cache[k])}

\* No lister begins to build a stale page, and an entry becomes stale only when
\* one of those that do so now stores its page, and is done with it.
Dies ==
  /\ StaleFills' \subseteq StaleFills
  /\ \A k \in StaleKeys' \ StaleKeys : \E l \in StaleFills \ StaleFills' : k = KeyOf(l)

\* So it is while nothing is written and Redis does not crash.
StalenessDies == [][db' = db /\ crashes' = crashes => Dies]_restartVars

\* What a step of the service does to the pages in the making and in the cache.
LEMMA StalenessStep ==
  ASSUME TypeOK, [Next]_vars, db' = db
  PROVE  Dies
<1> USE DEF Dies, incrs
<1>a. ASSUME UNCHANGED cache PROVE StaleKeys' = StaleKeys
  BY <1>a DEF StaleKeys, Whole
<1>b. ASSUME UNCHANGED <<lpc, page>> PROVE StaleFills' = StaleFills
  BY <1>b DEF StaleFills, Whole
<1>c. /\ lpc \in [Listers -> {"idle", "get", "count", "select", "reread", "set", "answered"}]
      /\ page \in [Listers -> Pages]
  BY DEF TypeOK
<1>1. CASE UNCHANGED <<cache, lpc, page>>
  BY <1>1, <1>a, <1>b
<1>2. ASSUME NEW w \in Writers, WriterStep(w) PROVE Dies
  BY <1>2, <1>a, <1>b DEF WriterStep, Commit, InvalidateTeam, lister
<1>11. CASE LateIncr
  BY <1>11, <1>a, <1>b DEF LateIncr, lister
<1>3. ASSUME NEW k \in DOMAIN cache, Expire(k) PROVE Dies
  <2>1. StaleKeys' \subseteq StaleKeys
    BY <1>3 DEF Expire, StaleKeys, Whole
  <2> QED  BY <1>3, <1>b, <2>1 DEF Expire, lister
<1>4. ASSUME NEW l \in Listers, ReadVersion(l) \/ Get(l) \/ Return(l) PROVE Dies
  <2>1. /\ UNCHANGED cache /\ lpc'[l] \in {"get", "answered", "count", "idle"}
        /\ \A m \in Listers \ {l} : lpc'[m] = lpc[m] /\ page'[m] = page[m]
    BY <1>4, <1>c DEF ReadVersion, Get, Return
  <2> QED  BY <2>1, <1>a DEF StaleFills, Whole
<1>5. ASSUME NEW l \in Listers, Count(l) PROVE Dies
  <2>1. /\ UNCHANGED cache /\ lpc'[l] = "select" /\ page'[l].total = db
        /\ \A m \in Listers \ {l} : lpc'[m] = lpc[m] /\ page'[m] = page[m]
    BY <1>5, <1>c DEF Count
  <2> QED  BY <2>1, <1>a DEF StaleFills, Whole
<1>6. ASSUME NEW l \in Listers, Select(l) PROVE Dies
  <2>1. /\ UNCHANGED cache /\ lpc[l] = "select" /\ lpc'[l] = "reread"
        /\ page'[l].total = page[l].total /\ page'[l].items = db
        /\ \A m \in Listers \ {l} : lpc'[m] = lpc[m] /\ page'[m] = page[m]
    BY <1>6, <1>c DEF Select, Pages
  <2> QED  BY <2>1, <1>a DEF StaleFills, Whole
<1>7. ASSUME NEW l \in Listers, RereadVersion(l) PROVE Dies
  <2>1. /\ UNCHANGED <<cache, page>> /\ lpc[l] = "reread" /\ lpc'[l] = "set"
        /\ \A m \in Listers \ {l} : lpc'[m] = lpc[m]
    BY <1>7, <1>c DEF RereadVersion
  <2> QED  BY <2>1, <1>a DEF StaleFills, Whole
<1>8. ASSUME NEW l \in Listers, Set(l) PROVE Dies
  <2>1. /\ UNCHANGED page /\ lpc[l] = "set" /\ lpc'[l] = "answered"
        /\ \A m \in Listers \ {l} : lpc'[m] = lpc[m]
        /\ Store(KeyOf(l), page[l]) \/ UNCHANGED cache
    BY <1>8, <1>c DEF Set
  <2>2. StaleFills' \subseteq StaleFills /\ l \notin StaleFills'
    BY <2>1 DEF StaleFills, Whole
  <2>3. CASE Store(KeyOf(l), page[l])
    <3>1. /\ DOMAIN cache' = DOMAIN cache \cup {KeyOf(l)}
          /\ \A k \in DOMAIN cache' : cache'[k] = IF k = KeyOf(l) THEN page[l] ELSE cache[k]
      BY <2>3 DEF Store
    <3>2. ASSUME NEW k \in StaleKeys' \ StaleKeys
          PROVE  k = KeyOf(l) /\ ~Whole(page[l])
      BY <3>1, <3>2 DEF StaleKeys, Whole
    <3>3. ~Whole(page[l]) => l \in StaleFills
      BY <2>1 DEF StaleFills
    <3> QED  BY <2>2, <3>2, <3>3
  <2> QED  BY <2>1, <2>2, <2>3, <1>a
<1>9. CASE UNCHANGED vars
  BY <1>1, <1>9 DEF vars, lister
<1> HIDE DEF Dies
<1>10. ASSUME NEW l \in Listers, ReadVersion(l) \/ ListerStep(l) PROVE Dies
  BY <1>4, <1>5, <1>6, <1>7, <1>8, <1>10 DEF ListerStep
<1> QED  BY <1>2, <1>3, <1>9, <1>10, <1>11 DEF Next

(* After the last write and the last crash, staleness only dies out: every    *)
(* list that is still to be stale is being built now, each stores one entry,  *)
(* and what expires is not made again. It is the safety half of               *)
(* ConvergesAfterCrash, for any writers, listers and crashes.                 *)
THEOREM StalenessDiesHolds == SpecOnDisk => StalenessDies
<1>1. SpecOnDisk => [][NextOnDisk]_restartVars
  BY DEF SpecOnDisk, restartVars
<1>2. RInv /\ [NextOnDisk]_restartVars => [db' = db /\ crashes' = crashes => Dies]_restartVars
  <2> SUFFICES ASSUME RInv, [NextOnDisk]_restartVars, db' = db, crashes' = crashes
               PROVE  Dies
    OBVIOUS
  <2>1. ~Crash
    BY DEF Crash, RInv, DiskTypeOK
  <2>2. [Next]_vars
    BY <2>1 DEF NextOnDisk, Fsync, restartVars
  <2> QED  BY <2>2, StalenessStep DEF RInv
<1> QED  BY <1>1, <1>2, RInvHolds, PTL DEF StalenessDies

=============================================================================
