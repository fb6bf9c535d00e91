------------------------------ MODULE TaskApi ------------------------------
(***************************************************************************)
(* The stepwise task service and the list cache in one system, seen from   *)
(* one team. POST and PUT requests on tasks of all teams run as in         *)
(* TaskService, down to the row locks; GET /tasks requests of the team run *)
(* as in TaskCache, over the same version keys in Redis. That every        *)
(* behaviour is one of TaskCache shows that the writers TaskCache assumes, *)
(* a COMMIT and only then the attempts to INCR the team's own key, are     *)
(* what the service does.                                                  *)
(***************************************************************************)
EXTENDS TaskService

CONSTANTS
  Listers, Filters, NoFilter,   \* as in TaskCache
  CacheTeam,      \* the team whose lists are looked at
  NoTeam

ASSUME CacheTeamAssumption == CacheTeam \in Teams /\ NoTeam \notin Teams
ASSUME NoFilterIsNoFilter == NoFilter \notin Filters

VARIABLES
  wrote,          \* history: wrote[r], the team r has written to, or NoTeam
  slot,           \* history: slot[r], the number r's INCR gave the first time, or 0
  cache, lpc, filter, key, page, start, degraded    \* as in TaskCache

listVars == <<cache, lpc, filter, key, page, start, degraded>>
apiVars == <<vars, wrote, slot, listVars>>

WritersOf(tm) == {r \in Reqs : wrote[r] = tm}

Cache ==
  INSTANCE TaskCache WITH
    Writers <- Reqs,
    RedisMayFail <- TRUE,
    db <- WritersOf(CacheTeam),
    wpc <- [r \in Reqs |-> IF wrote[r] # CacheTeam THEN "idle"
                           ELSE IF pc[r] = "ok" THEN "acked"
                           ELSE "committed"],
    version <- version[CacheTeam],
    slot <- [r \in Reqs |-> IF wrote[r] = CacheTeam THEN slot[r] ELSE 0],
    tries <- [r \in Reqs |-> IF wrote[r] = CacheTeam THEN tries[r] ELSE 0],
    strays <- strays[CacheTeam]

\* The tables now hold what r wants: by its COMMIT, acknowledged or not, or
\* because its patch changes nothing of the row it has locked.
TakesHold(r) ==
  \/ pc[r] \in {"insert", "write"} /\ history' # history
  \/ pc[r] = "authorize" /\ pc'[r] = "invalidate"

ServeWrite(r) ==
  /\ Serve(r)
  /\ wrote' = [wrote EXCEPT ![r] = IF TakesHold(r) THEN TeamOf(r) ELSE @]
  /\ slot' = [slot EXCEPT ![r] = IF version' # version /\ @ = 0
                                   THEN version'[TeamOf(r)] ELSE @]
  /\ UNCHANGED listVars

ServeList ==
  /\ UNCHANGED <<vars, wrote, slot>>
  /\ \/ \E l \in Listers : Cache!ReadVersion(l) \/ Cache!ListerStep(l)
     \/ \E k \in DOMAIN cache : Cache!Expire(k)

ApiInit ==
  /\ Init
  /\ wrote = [r \in Reqs |-> NoTeam]
  /\ slot = [r \in Reqs |-> 0]
  /\ Cache!Init

ApiNext ==
  \/ Environment /\ UNCHANGED <<wrote, slot, listVars>>
  \/ \E r \in Reqs : ServeWrite(r)
  \/ ServeList

ApiSpec == ApiInit /\ [][ApiNext]_apiVars

-----------------------------------------------------------------------------
(* What the list cache relies on: the requests of TaskService are writers of *)
(* their own team only; they touch its version key after COMMIT and not      *)
(* before, whatever fails in between; and nothing moves it but their INCRs,  *)
(* run again or late as they may be.                                         *)
CacheSpec == Cache!Spec

(* The client is told the truth about its write: after a 2xx it is in the    *)
(* tables, after a 4xx nothing of it is. A 5xx leaves it open.               *)
AnswersAreTrue ==
  \A r \in Reqs :
    /\ pc[r] = "ok" => wrote[r] # NoTeam
    /\ pc[r] = "denied" => wrote[r] = NoTeam

=============================================================================
