---------------------------- MODULE TaskService ----------------------------
(***************************************************************************)
(* TaskService.Create and TaskService.Update with the repository methods  *)
(* they call, one action per database or Redis call, so that the calls of *)
(* concurrent requests interleave. A request keeps what it has read in    *)
(* locals; only the SELECT ... FOR UPDATE of an update holds a lock. Any  *)
(* call may fail (server error, cancelled context, crash of the process): *)
(* the transaction rolls back and the lock is released.                   *)
(***************************************************************************)
EXTENDS TaskLedger

CONSTANTS
  CreateReqs,     \* POST /tasks requests, each served once
  UpdateReqs,     \* PUT /tasks/{id} requests, each served once
  RawTitles,      \* title texts as they arrive
  Trim,           \* Trim[x]: strings.TrimSpace; outside Titles when rejected
  OtherStatus,    \* a status text that is not Valid()
  Drafts,         \* bodies of POST requests; no "status" means an empty one
  RawPatches,     \* bodies of PUT requests
  NoReq,          \* nobody holds the row lock; also an unset local
  MaxRetries      \* MaxRetries[r]: how often the client sends r's INCR again: 3 times
                  \* by default, less often when the context of r ends before

Reqs == CreateReqs \cup UpdateReqs

RawValuesOf(f) ==
  CASE f = "title" -> RawTitles
    [] f = "status" -> Statuses \cup {OtherStatus}
    [] OTHER -> ValuesOf(f)

IsBody(b) == DOMAIN b \subseteq Fields /\ \A f \in DOMAIN b : b[f] \in RawValuesOf(f)

ASSUME ReqsAssumption == CreateReqs \cap UpdateReqs = {} /\ NoReq \notin Reqs
ASSUME MaxRetriesAssumption == MaxRetries \in [Reqs -> Nat]
ASSUME OtherStatusAssumption == OtherStatus \notin Statuses
ASSUME DraftsAssumption ==
  \A d \in Drafts : IsBody(d) /\ Fields \ {"status"} \subseteq DOMAIN d
ASSUME RawPatchesAssumption ==
  \A p \in RawPatches : IsBody(p) /\ p = [f \in DOMAIN p |-> p[f]]

VARIABLES
  pc,             \* pc[r]: the call r makes next, or how it ended
  req,            \* req[r]: actor, target and normalised body of r
  role,           \* local of r: the actor's role in the team
  row,            \* local of r: the task as r last read it
  now,            \* local of r: the clock reading of its transaction
  lock,           \* lock[t]: the request whose transaction locks row t
  version,        \* version[tm]: the cache version key of the team in Redis
  tries,          \* tries[r]: how often the client has sent r's INCR again
  strays          \* strays[tm]: INCRs given up on that Redis may still run

locals == <<req, role, row, now>>
incrs == <<version, tries, strays>>
vars == <<ledgerVars, pc, locals, lock, incrs>>

Done == {"ok", "denied", "failed"}

Steps == {"get", "role", "assignee", "lock", "authorize", "write",
          "stamp", "insert", "invalidate"}

-----------------------------------------------------------------------------
(* Validation and normalisation, before the first call *)

ValidBody(b) ==
  /\ "title" \in DOMAIN b => Trim[b["title"]] \in Titles
  /\ "status" \in DOMAIN b => b["status"] \in Statuses

\* Update replaces the title by the trimmed one.
NormalPatch(p) == [f \in DOMAIN p |-> IF f = "title" THEN Trim[p[f]] ELSE p[f]]

\* Faulty variant: the title is checked trimmed and stored as it came.
NormalDraftUntrimmed(d) ==
  [f \in Fields |-> IF f = "status" /\ f \notin DOMAIN d THEN "todo" ELSE d[f]]

\* Create also gives an omitted status its default.
NormalDraft(d) ==
  [f \in Fields |-> CASE f = "title" -> Trim[d[f]]
                      [] f = "status" /\ f \notin DOMAIN d -> "todo"
                      [] OTHER -> d[f]]

\* The team whose rows r touches: the body's for a POST, the task's for a PUT.
TeamOf(r) == IF r \in CreateReqs THEN req[r].team ELSE row[r].team

\* Faulty variant: a PUT does not have its assignee checked.
AssigneeGivenOnCreate(r) == r \in CreateReqs /\ req[r].body["assignee_id"] # NoUser

AssigneeGiven(r) ==
  "assignee_id" \in DOMAIN req[r].body /\ req[r].body["assignee_id"] # NoUser

\* Faulty variant: a return path without Rollback keeps the row lock.
FinishWithoutRollback(r, outcome) ==
  /\ pc' = [pc EXCEPT ![r] = outcome]
  /\ req' = [req EXCEPT ![r] = NoReq]
  /\ role' = [role EXCEPT ![r] = NoRole]
  /\ row' = [row EXCEPT ![r] = NoTask]
  /\ now' = [now EXCEPT ![r] = NoTime]
  /\ UNCHANGED lock

\* r returns: its locals are gone and its transaction, if open, has ended.
Finish(r, outcome) ==
  /\ pc' = [pc EXCEPT ![r] = outcome]
  /\ req' = [req EXCEPT ![r] = NoReq]
  /\ role' = [role EXCEPT ![r] = NoRole]
  /\ row' = [row EXCEPT ![r] = NoTask]
  /\ now' = [now EXCEPT ![r] = NoTime]
  /\ lock' = [t \in TaskIds |-> IF lock[t] = r THEN NoReq ELSE lock[t]]

Goto(r, label) == pc' = [pc EXCEPT ![r] = label]

-----------------------------------------------------------------------------
StartCreate(r) ==
  /\ pc[r] = "idle" /\ r \in CreateReqs
  /\ \E u \in Users, tm \in Teams, d \in Drafts :
       \/ /\ ValidBody(d)
          /\ Goto(r, "role")
          /\ req' = [req EXCEPT ![r] = [actor |-> u, team |-> tm, body |-> NormalDraft(d)]]
          /\ UNCHANGED <<role, row, now, lock>>
       \/ ~ValidBody(d) /\ Finish(r, "denied")
  /\ UNCHANGED <<ledgerVars, incrs>>

StartUpdate(r) ==
  /\ pc[r] = "idle" /\ r \in UpdateReqs
  /\ \E u \in Users, t \in TaskIds, p \in RawPatches :
       \/ /\ DOMAIN p # {} /\ ValidBody(p)
          /\ Goto(r, "get")
          /\ req' = [req EXCEPT ![r] = [actor |-> u, task |-> t, body |-> NormalPatch(p)]]
          /\ UNCHANGED <<role, row, now, lock>>
       \/ (DOMAIN p = {} \/ ~ValidBody(p)) /\ Finish(r, "denied")
  /\ UNCHANGED <<ledgerVars, incrs>>

Get(r) ==
  /\ pc[r] = "get"
  /\ \/ /\ Exists(req[r].task)
        /\ Goto(r, "role")
        /\ row' = [row EXCEPT ![r] = tasks[req[r].task]]
        /\ UNCHANGED <<req, role, now, lock>>
     \/ ~Exists(req[r].task) /\ Finish(r, "denied")
  /\ UNCHANGED <<ledgerVars, incrs>>

\* The first call of the repository method, after the membership checks.
FirstRepoCall(r) == IF r \in CreateReqs THEN "stamp" ELSE "lock"

MemberRole(r) ==
  /\ pc[r] = "role"
  /\ \/ /\ IsMember(TeamOf(r), req[r].actor)
        /\ Goto(r, IF AssigneeGiven(r) THEN "assignee" ELSE FirstRepoCall(r))
        /\ role' = [role EXCEPT ![r] = Role(TeamOf(r), req[r].actor)]
        /\ UNCHANGED <<req, row, now, lock>>
     \/ ~IsMember(TeamOf(r), req[r].actor) /\ Finish(r, "denied")
  /\ UNCHANGED <<ledgerVars, incrs>>

CheckAssignee(r) ==
  /\ pc[r] = "assignee"
  /\ \/ /\ IsMember(TeamOf(r), req[r].body["assignee_id"])
        /\ Goto(r, FirstRepoCall(r))
        /\ UNCHANGED <<locals, lock>>
     \/ ~IsMember(TeamOf(r), req[r].body["assignee_id"]) /\ Finish(r, "denied")
  /\ UNCHANGED <<ledgerVars, incrs>>

-----------------------------------------------------------------------------
(* TaskRepository.Create: BEGIN and the time stamp, then both INSERTs and COMMIT *)

\* Faulty variant: the cache is invalidated before the transaction.
StampInvalidatingFirst(r) ==
  /\ pc[r] = "stamp"
  /\ Goto(r, "insert")
  /\ now' = [now EXCEPT ![r] = clock]
  /\ version' = [version EXCEPT ![req[r].team] = @ + 1]
  /\ UNCHANGED <<ledgerVars, req, role, row, lock, tries, strays>>

Stamp(r) ==
  /\ pc[r] = "stamp"
  /\ Goto(r, "insert")
  /\ now' = [now EXCEPT ![r] = clock]
  /\ UNCHANGED <<ledgerVars, req, role, row, lock, incrs>>

Inserted(r) ==
  \E t \in TaskIds :
    /\ ~Exists(t)
    /\ WriteCreate(t, req[r].team, req[r].actor, req[r].body, now[r])

Insert(r) ==
  /\ pc[r] = "insert"
  /\ Inserted(r)
  /\ Goto(r, "invalidate")
  /\ UNCHANGED <<members, clock, locals, lock, incrs>>

-----------------------------------------------------------------------------
(* TaskRepository.Update: lock, authorize and diff, write and commit *)

\* Faulty variant: a plain SELECT, which neither waits nor locks.
LockRowPlainSelect(r) ==
  /\ pc[r] = "lock"
  /\ row' = [row EXCEPT ![r] = tasks[req[r].task]]
  /\ Goto(r, "authorize")
  /\ UNCHANGED <<ledgerVars, req, role, now, lock, incrs>>

\* Faulty variant: the lock is taken, but the task is the one Get has read.
LockRowKeepsOldRow(r) ==
  LET t == req[r].task IN
  /\ pc[r] = "lock"
  /\ lock[t] = NoReq
  /\ lock' = [lock EXCEPT ![t] = r]
  /\ Goto(r, "authorize")
  /\ UNCHANGED <<ledgerVars, req, role, row, now, incrs>>

\* SELECT ... FOR UPDATE waits for the row lock and reads the latest committed
\* row. No statement deletes tasks, so the row r has read before is still there.
LockRow(r) ==
  LET t == req[r].task IN
  /\ pc[r] = "lock"
  /\ lock[t] = NoReq
  /\ lock' = [lock EXCEPT ![t] = r]
  /\ row' = [row EXCEPT ![r] = tasks[t]]
  /\ Goto(r, "authorize")
  /\ UNCHANGED <<ledgerVars, req, role, now, incrs>>

\* A patch that changes nothing ends the transaction without a write, but
\* TaskService.Update goes on to invalidate the cache all the same.
Authorize(r) ==
  LET allowed == MayUpdate(role[r], row[r], req[r].actor, req[r].body)
      changed == Changed(row[r].val, req[r].body)
  IN
  /\ pc[r] = "authorize"
  /\ \/ ~allowed /\ Finish(r, "denied")
     \/ /\ allowed /\ changed # {}
        /\ Goto(r, "write")
        /\ now' = [now EXCEPT ![r] = clock]
        /\ UNCHANGED <<req, role, row, lock>>
     \/ /\ allowed /\ changed = {}
        /\ Goto(r, "invalidate")
        /\ lock' = [lock EXCEPT ![req[r].task] = NoReq]
        /\ UNCHANGED locals
  /\ UNCHANGED <<ledgerVars, incrs>>

Written(r) == WriteUpdate(req[r].task, row[r], req[r].actor, req[r].body, now[r])

Commit(r) ==
  /\ pc[r] = "write"
  /\ Written(r)
  /\ lock' = [lock EXCEPT ![req[r].task] = NoReq]
  /\ Goto(r, "invalidate")
  /\ UNCHANGED <<members, clock, locals, incrs>>

-----------------------------------------------------------------------------
\* TaskCache.InvalidateTeam: an INCR whose failure is only logged. Redis runs it
\* or it is lost or stuck on the way; while the client gets no answer and has an
\* attempt left, it sends the INCR again.
InvalidateTeam(r) ==
  /\ pc[r] = "invalidate"
  /\ \/ /\ version' = [version EXCEPT ![TeamOf(r)] = @ + 1]
        /\ UNCHANGED strays
     \/ /\ strays' \in {strays, [strays EXCEPT ![TeamOf(r)] = @ + 1]}
        /\ UNCHANGED version
  /\ \/ /\ tries[r] < MaxRetries[r]
        /\ tries' = [tries EXCEPT ![r] = @ + 1]
        /\ UNCHANGED <<pc, locals, lock>>
     \/ Finish(r, "ok") /\ tries' = [tries EXCEPT ![r] = 0]
  /\ UNCHANGED ledgerVars

\* Faulty variant: an error of COMMIT is reported as a conflict, a 4xx.
CommitUnackedAsConflict(r) ==
  /\ \/ pc[r] = "write" /\ Written(r)
     \/ pc[r] = "insert" /\ Inserted(r)
  /\ Finish(r, "denied")
  /\ UNCHANGED <<members, clock, incrs>>

\* COMMIT took effect but its answer was lost: the client gets an error and the
\* cache is not invalidated.
CommitUnacked(r) ==
  /\ \/ pc[r] = "write" /\ Written(r)
     \/ pc[r] = "insert" /\ Inserted(r)
  /\ Finish(r, "failed")
  /\ UNCHANGED <<members, clock, incrs>>

\* Any other call returns an error: deferred Rollback, 5xx to the client.
Fail(r) ==
  /\ pc[r] \in Steps \ {"invalidate"}
  /\ Finish(r, "failed")
  /\ UNCHANGED <<ledgerVars, incrs>>

-----------------------------------------------------------------------------
Init ==
  /\ LedgerInit
  /\ pc = [r \in Reqs |-> "idle"]
  /\ req = [r \in Reqs |-> NoReq]
  /\ role = [r \in Reqs |-> NoRole]
  /\ row = [r \in Reqs |-> NoTask]
  /\ now = [r \in Reqs |-> NoTime]
  /\ lock = [t \in TaskIds |-> NoReq]
  /\ version = [tm \in Teams |-> 0]
  /\ tries = [r \in Reqs |-> 0]
  /\ strays = [tm \in Teams |-> 0]

Proceed(r) ==
  \/ Get(r) \/ MemberRole(r) \/ CheckAssignee(r)
  \/ Stamp(r) \/ Insert(r)
  \/ LockRow(r) \/ Authorize(r) \/ Commit(r)
  \/ InvalidateTeam(r)

Serve(r) == StartCreate(r) \/ StartUpdate(r) \/ Proceed(r) \/ CommitUnacked(r) \/ Fail(r)

\* Redis runs an INCR whose request no longer waits for it.
LateIncr(tm) ==
  /\ strays[tm] > 0
  /\ strays' = [strays EXCEPT ![tm] = @ - 1]
  /\ version' = [version EXCEPT ![tm] = @ + 1]
  /\ UNCHANGED <<ledgerVars, pc, locals, lock, tries>>

Environment ==
  \/ (ChangeTeams \/ Tick) /\ UNCHANGED <<pc, locals, lock, incrs>>
  \/ \E tm \in Teams : LateIncr(tm)

Next == Environment \/ \E r \in Reqs : Serve(r)

Spec == Init /\ [][Next]_vars

\* A goroutine that can make its next call makes it: every call returns, if only
\* with an error. Nothing obliges a request to arrive, a clock to tick or a
\* team to change.
FairSpec == Spec /\ \A r \in Reqs : WF_vars(Proceed(r))

-----------------------------------------------------------------------------
Requests(r) ==
  IF r \in CreateReqs
    THEN [actor : Users, team : Teams, body : Contents]
    ELSE [actor : Users, task : TaskIds, body : Patches]

TypeOK ==
  /\ LedgerTypeOK
  /\ pc \in [Reqs -> {"idle"} \cup Steps \cup Done]
  /\ DOMAIN req = Reqs /\ \A r \in Reqs : req[r] \in Requests(r) \cup {NoReq}
  /\ role \in [Reqs -> Roles \cup {NoRole}]
  /\ row \in [Reqs -> Rows \cup {NoTask}]
  /\ now \in [Reqs -> Times \cup {NoTime}]
  /\ lock \in [TaskIds -> Reqs \cup {NoReq}]
  /\ version \in [Teams -> Nat]
  /\ tries \in [Reqs -> Nat] /\ \A r \in Reqs : tries[r] <= MaxRetries[r]
  /\ strays \in [Teams -> Nat]

(* Only a request inside its transaction holds a row lock, and it holds the  *)
(* lock of its own task alone: every return path of TaskRepository.Update    *)
(* ends the transaction, so a finished request cannot block the others.      *)
LocksAreHeldInTransactions ==
  \A t \in TaskIds, r \in Reqs :
    lock[t] = r <=> pc[r] \in {"authorize", "write"} /\ req[r].task = t

(* Every request that started is answered: no chain of row-lock waits keeps  *)
(* TaskService.Update from returning.                                        *)
EveryRequestAnswered == \A r \in Reqs : pc[r] # "idle" ~> pc[r] \in Done

=============================================================================
