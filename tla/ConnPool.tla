------------------------------ MODULE ConnPool ------------------------------
(***************************************************************************)
(* The pool of MySQL connections that every request shares.  A query takes *)
(* a connection for one statement, a transaction keeps one from BEGIN to   *)
(* its end, also while it waits for a row lock; whoever finds the pool at  *)
(* max_open_conns waits, without a time limit, and is given a connection   *)
(* in no particular order.  A PUT makes a few queries and then one         *)
(* transaction that locks its task; the other requests lock nothing.       *)
(***************************************************************************)
EXTENDS Naturals, FiniteSets

CONSTANTS
  Handlers,       \* each serves one request after the other
  TaskIds,
  MaxOpenConns,   \* db.max_open_conns
  MaxQueries,     \* bound on the queries of a request before its transaction
  NoReq, NoTask

ASSUME MaxOpenConnsAssumption == MaxOpenConns \in Nat \ {0}
ASSUME MaxQueriesAssumption == MaxQueries \in Nat
ASSUME NoRowAssumption == NoReq \notin Handlers /\ NoTask \notin TaskIds

VARIABLES
  at,             \* at[r]: what r does next
  queries,        \* queries[r]: single statements r still makes
  task,           \* task[r]: the task r locks in its transaction, if any
  busy,           \* the requests that have a connection
  lock            \* lock[t]: the request whose transaction locks row t

poolVars == <<at, queries, task, busy, lock>>

PoolInit ==
  /\ at = [r \in Handlers |-> "idle"]
  /\ queries = [r \in Handlers |-> 0]
  /\ task = [r \in Handlers |-> NoTask]
  /\ busy = {}
  /\ lock = [t \in TaskIds |-> NoReq]

Goto(r, label) == at' = [at EXCEPT ![r] = label]

TakeRequest(r) ==
  /\ at[r] = "idle"
  /\ \E n \in 0 .. MaxQueries, t \in TaskIds \cup {NoTask} :
       /\ queries' = [queries EXCEPT ![r] = n]
       /\ task' = [task EXCEPT ![r] = t]
  /\ Goto(r, "wait")
  /\ UNCHANGED <<busy, lock>>

\* Faulty variant: SetMaxOpenConns bounds the idle connections only.
FreeConnIdle == Cardinality(busy) <= MaxOpenConns

FreeConn == Cardinality(busy) < MaxOpenConns

\* A statement or BEGIN takes a connection out of the pool.
Acquire(r) ==
  /\ at[r] = "wait"
  /\ FreeConn
  /\ busy' = busy \cup {r}
  /\ Goto(r, IF queries[r] > 0 THEN "query" ELSE IF task[r] = NoTask THEN "write" ELSE "lock")
  /\ UNCHANGED <<queries, task, lock>>

Query(r) ==
  /\ at[r] = "query"
  /\ queries' = [queries EXCEPT ![r] = @ - 1]
  /\ busy' = busy \ {r}
  /\ Goto(r, "wait")
  /\ UNCHANGED <<task, lock>>

\* SELECT ... FOR UPDATE waits for the row lock and keeps its connection.
LockRow(r) ==
  /\ at[r] = "lock"
  /\ lock[task[r]] = NoReq
  /\ lock' = [lock EXCEPT ![task[r]] = r]
  /\ Goto(r, "authorize")
  /\ UNCHANGED <<queries, task, busy>>

\* Faulty variant: the closure asks the database for the role, outside the
\* transaction and so on a connection of its own.
AuthorizeByQuery(r) ==
  /\ at[r] = "authorize"
  /\ FreeConn
  /\ Goto(r, "write")
  /\ UNCHANGED <<queries, task, busy, lock>>

\* The closure compares what it has; it makes no call.
Authorize(r) ==
  /\ at[r] = "authorize"
  /\ Goto(r, "write")
  /\ UNCHANGED <<queries, task, busy, lock>>

\* Faulty variant: a return path without Rollback.
EndWithoutRollback(r) ==
  /\ Goto(r, "idle")
  /\ queries' = [queries EXCEPT ![r] = 0]
  /\ task' = [task EXCEPT ![r] = NoTask]
  /\ UNCHANGED <<busy, lock>>

\* The answer; COMMIT or Rollback has given back the connection and the lock.
EndRequest(r) ==
  /\ Goto(r, "idle")
  /\ queries' = [queries EXCEPT ![r] = 0]
  /\ task' = [task EXCEPT ![r] = NoTask]
  /\ busy' = busy \ {r}
  /\ lock' = [t \in TaskIds |-> IF lock[t] = r THEN NoReq ELSE lock[t]]

Commit(r) == at[r] = "write" /\ EndRequest(r)

\* Any call fails, waits included when the client hangs up; deferred Rollback.
Fail(r) == at[r] # "idle" /\ EndRequest(r)

Proceed(r) == Query(r) \/ Authorize(r) \/ Commit(r)

PoolNext ==
  \E r \in Handlers : TakeRequest(r) \/ Acquire(r) \/ LockRow(r) \/ Proceed(r) \/ Fail(r)

PoolSpec == PoolInit /\ [][PoolNext]_poolVars

\* A request that can go on does. Waiters for a connection or a lock are chosen
\* among, again and again, so that none is passed over for ever.
FairPoolSpec ==
  /\ PoolSpec
  /\ \A r \in Handlers :
       WF_poolVars(Proceed(r)) /\ SF_poolVars(Acquire(r)) /\ SF_poolVars(LockRow(r))

-----------------------------------------------------------------------------
PoolTypeOK ==
  /\ at \in [Handlers -> {"idle", "wait", "query", "lock", "authorize", "write"}]
  /\ queries \in [Handlers -> 0 .. MaxQueries]
  /\ task \in [Handlers -> TaskIds \cup {NoTask}]
  /\ busy \in SUBSET Handlers
  /\ lock \in [TaskIds -> Handlers \cup {NoReq}]

(* The pool never exceeds its limit, and whoever has a connection is running *)
(* a statement or is in its transaction: no return path leaks one.           *)
ConnsAreInUse ==
  /\ PoolTypeOK
  /\ Cardinality(busy) <= MaxOpenConns
  /\ \A r \in Handlers : r \in busy <=> at[r] \in {"query", "lock", "authorize", "write"}

(* Whoever holds a row lock can take its next step, however many requests    *)
(* wait for the lock or for a connection: it already has all that it needs.  *)
LockHolderProceeds ==
  \A t \in TaskIds : lock[t] # NoReq => ENABLED Proceed(lock[t])

(* Nobody waits for ever, not even when every connection is held by somebody *)
(* who waits for a row lock.                                                 *)
EveryRequestEnds == \A r \in Handlers : at[r] = "wait" ~> at[r] = "idle"

=============================================================================
