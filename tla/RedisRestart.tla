---------------------------- MODULE RedisRestart ----------------------------
(***************************************************************************)
(* The list cache when Redis itself dies. It runs with appendonly yes and  *)
(* the default appendfsync everysec: after a restart it has what was on    *)
(* disk, up to a second ago. So the version of a team can go back, the     *)
(* entries under it come back with it, and a number is handed out twice,   *)
(* while a lister may still hold a key from before. Calls in between fail, *)
(* as they may in TaskCache.                                               *)
(***************************************************************************)
EXTENDS TaskCache

CONSTANT MaxCrashes     \* bound on the crashes of Redis

VARIABLES
  disk,           \* version and cache as the append-only file has them
  crashes         \* the crashes so far

InitOnDisk ==
  /\ Init
  /\ disk = [version |-> version, cache |-> cache]
  /\ crashes = 0

\* Once a second, in the background.
Fsync ==
  /\ disk' = [version |-> version, cache |-> cache]
  /\ UNCHANGED <<vars, crashes>>

\* Entries whose TTL has ended meanwhile are not loaded. Its connections break,
\* and with them goes what was still on the way.
Crash ==
  /\ crashes < MaxCrashes
  /\ crashes' = crashes + 1
  /\ version' = disk.version
  /\ \E live \in SUBSET DOMAIN disk.cache : cache' = [k \in live |-> disk.cache[k]]
  /\ disk' = [version |-> version', cache |-> cache']
  /\ strays' = 0
  /\ UNCHANGED <<db, wpc, slot, tries, lister>>

NextOnDisk == (Next /\ UNCHANGED <<disk, crashes>>) \/ Fsync \/ Crash

SpecOnDisk == InitOnDisk /\ [][NextOnDisk]_<<vars, disk, crashes>>

\* The fairness of TaskCache: requests are served and a TTL runs out.
FairSpecOnDisk ==
  /\ SpecOnDisk
  /\ \A l \in Listers : WF_vars(ListerStep(l))
  /\ \A k \in ReachableKeys : WF_vars(Expire(k))

-----------------------------------------------------------------------------
(* As long as Redis has not crashed, the race and the failed version read    *)
(* are the only ways to a list without an invalidated write. A crash is a    *)
(* third: a number that is handed out twice names pages of its first use.    *)
StaleOnlyUntilCrash == crashes = 0 => StaleOnlyIfRacedOrDegraded

(* Going back to an old version and using a number again may serve pages     *)
(* without a write whose invalidation had succeeded; all of them are gone    *)
(* for good some time after the last write and the last crash.               *)
ConvergesAfterCrash == CacheConverges

=============================================================================
