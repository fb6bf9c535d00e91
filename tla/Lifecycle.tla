----------------------------- MODULE Lifecycle -----------------------------
(***************************************************************************)
(* A process from main to os.Exit: it loads its configuration, waits for   *)
(* MySQL, applies the migration, pings Redis, serves, and on a signal      *)
(* drains its requests for 10 seconds at most. Several processes may share *)
(* MySQL, which outlives them: a process that dies between two CREATE      *)
(* TABLEs leaves the tables made so far, and the migration marked dirty.   *)
(* MySQL may hang, and the migration waits for it without a time limit.    *)
(* docker-compose restarts what exits, unless it was stopped by hand.      *)
(***************************************************************************)
EXTENDS Integers

CONSTANTS
  Procs,
  NoProc,
  Orphan,         \* the session of a process that died in its migration
  PingAttempts,   \* pingAttempts
  Tables,         \* CREATE TABLE statements of the migration
  MinSecret,      \* minJWTSecretLength
  DefaultLimit,   \* requests_per_minute when it is not set
  MaxInflight,    \* bound on the requests of a process at one time
  MaxFaults       \* bound on signals, crashes, outages and bad settings

ASSUME NoProcAssumption ==
  NoProc \notin Procs /\ Orphan \notin Procs /\ Orphan # NoProc
ASSUME NumbersAssumption ==
  /\ {PingAttempts, Tables, MinSecret, DefaultLimit} \subseteq Nat \ {0}
  /\ {MaxInflight, MaxFaults} \subseteq Nat

VARIABLES
  stage,          \* stage[p]: what run() does next
  attempt,        \* attempt[p]: pings of MySQL that have failed
  cfg,            \* cfg[p]: the settings p runs with
  inflight,       \* inflight[p]: requests being served
  signalled,      \* signalled[p]: p was told to stop, and was not started since
  outage,         \* the servers that are down
  hung,           \* MySQL, which is up, neither answers nor refuses
  tables,         \* tables of the schema that exist
  migration,      \* the row of schema_migrations: none, dirty or clean
  lock,           \* whose connection has the migration lock
  faults          \* the faults so far

schema == <<tables, migration, lock>>
servers == <<outage, hung>>
vars == <<stage, attempt, cfg, inflight, signalled, servers, schema, faults>>

-----------------------------------------------------------------------------
(* config.Load. One setting stands for each way of treating one: a required *)
(* text, the secret, a number with a default; texts are their lengths.      *)

Settings == [address : 0 .. 1, secret : 0 .. MinSecret, limit : -1 .. 1]
Environments == [address : 0 .. 1, secret : 0 .. MinSecret]

\* An empty variable overrides nothing.
ApplyEnvOverrides(c, env) ==
  [c EXCEPT !.address = IF env.address > 0 THEN env.address ELSE @,
            !.secret = IF env.secret > 0 THEN env.secret ELSE @]

ApplyDefaults(c) == [c EXCEPT !.limit = IF @ <= 0 THEN DefaultLimit ELSE @]

Validate(c) == c.address > 0 /\ c.secret >= MinSecret

NoConfig == [address |-> 0, secret |-> 0, limit |-> 0]

-----------------------------------------------------------------------------
Init ==
  /\ stage = [p \in Procs |-> "down"]
  /\ attempt = [p \in Procs |-> 0]
  /\ cfg = [p \in Procs |-> NoConfig]
  /\ inflight = [p \in Procs |-> 0]
  /\ signalled = [p \in Procs |-> FALSE]
  /\ outage = {} /\ hung = FALSE
  /\ tables = 0
  /\ migration = "none"
  /\ lock = NoProc
  /\ faults = 0

Goto(p, s) == stage' = [stage EXCEPT ![p] = s]

\* The process is gone, and with it its requests and its settings.
Gone(p) ==
  /\ Goto(p, "down")
  /\ attempt' = [attempt EXCEPT ![p] = 0]
  /\ cfg' = [cfg EXCEPT ![p] = NoConfig]
  /\ inflight' = [inflight EXCEPT ![p] = 0]

\* It closes its connections, and what they have locked is free.
Exit(p) ==
  /\ Gone(p)
  /\ lock' = IF lock = p THEN NoProc ELSE lock
  /\ UNCHANGED signalled

Fault == faults < MaxFaults /\ faults' = faults + 1

local == <<attempt, cfg, inflight, signalled>>

\* The container starts; settings that do not validate end it at once.
Start(p) ==
  /\ stage[p] = "down"
  /\ signalled' = [signalled EXCEPT ![p] = FALSE]
  /\ \E file \in Settings, env \in Environments :
       LET c == ApplyDefaults(ApplyEnvOverrides(file, env)) IN
       \/ /\ Validate(c)
          /\ cfg' = [cfg EXCEPT ![p] = c]
          /\ Goto(p, "ping")
          /\ UNCHANGED <<attempt, inflight, lock, faults>>
       \/ ~Validate(c) /\ Gone(p) /\ Fault /\ UNCHANGED lock
  /\ UNCHANGED <<servers, tables, migration>>

Answers == "mysql" \notin outage /\ ~hung

\* NewDB: a ping every 2 seconds, of 3 seconds at most; a cancelled context
\* ends the loop.
PingMySQL(p) ==
  /\ stage[p] = "ping"
  /\ \/ Answers /\ ~signalled[p] /\ Goto(p, "migrate") /\ UNCHANGED <<local, lock>>
     \/ /\ ~Answers /\ ~signalled[p] /\ attempt[p] + 1 < PingAttempts
        /\ attempt' = [attempt EXCEPT ![p] = @ + 1]
        /\ UNCHANGED <<stage, cfg, inflight, signalled, lock>>
     \/ /\ signalled[p] \/ (~Answers /\ attempt[p] + 1 = PingAttempts)
        /\ Exit(p)
  /\ UNCHANGED <<servers, tables, migration, faults>>

-----------------------------------------------------------------------------
(* Migrate, which looks at no context and sets no time limit but that of     *)
(* GET_LOCK: over a MySQL that hangs it waits                                *)

Migrating == {"migrate", "up", "create"}

\* GET_LOCK, or its time runs out while another connection has the lock.
LockSchema(p) ==
  /\ stage[p] = "migrate"
  /\ \/ Answers /\ lock = NoProc /\ lock' = p /\ Goto(p, "up") /\ UNCHANGED local
     \/ ("mysql" \in outage \/ (lock # NoProc /\ ~hung)) /\ Exit(p)
  /\ UNCHANGED <<servers, tables, migration, faults>>

\* The wait for the lock has a time limit, what WithInstance asks before has none:
\* a process may give up over a MySQL that hangs, and does not have to.
LockTimesOut(p) ==
  /\ stage[p] = "migrate" /\ hung
  /\ Exit(p)
  /\ UNCHANGED <<servers, tables, migration, faults>>

\* Faulty variant: a dirty migration is taken for an applied one.
UpIgnoringDirty(p) ==
  /\ stage[p] = "up" /\ lock = p /\ ~hung
  /\ \/ migration = "none" /\ migration' = "dirty" /\ Goto(p, "create") /\ UNCHANGED <<local, lock>>
     \/ migration # "none" /\ Goto(p, "redis") /\ lock' = NoProc /\ UNCHANGED <<local, migration>>
  /\ UNCHANGED <<servers, tables, faults>>

\* Faulty variant: ErrNoChange is an error like any other.
UpRefusingNoChange(p) ==
  /\ stage[p] = "up" /\ lock = p /\ ~hung
  /\ \/ migration = "none" /\ migration' = "dirty" /\ Goto(p, "create") /\ UNCHANGED <<local, lock>>
     \/ migration # "none" /\ Exit(p) /\ UNCHANGED migration
  /\ UNCHANGED <<servers, tables, faults>>

\* m.Up: nothing to do, a dirty version, or a migration to run.
Up(p) ==
  /\ stage[p] = "up" /\ lock = p /\ ~hung
  /\ \/ migration = "none" /\ migration' = "dirty" /\ Goto(p, "create") /\ UNCHANGED <<local, lock>>
     \/ migration = "clean" /\ Goto(p, "redis") /\ lock' = NoProc /\ UNCHANGED <<local, migration>>
     \/ migration = "dirty" /\ Exit(p) /\ UNCHANGED migration
  /\ UNCHANGED <<servers, tables, faults>>

\* MySQL commits each CREATE TABLE by itself; the last is followed by SetVersion.
CreateTable(p) ==
  /\ stage[p] = "create" /\ lock = p /\ ~hung
  /\ \/ /\ tables < Tables
        /\ tables' = tables + 1
        /\ UNCHANGED <<stage, lock, migration>>
     \/ /\ tables = Tables
        /\ migration' = "clean"
        /\ lock' = NoProc
        /\ Goto(p, "redis")
        /\ UNCHANGED tables
  /\ UNCHANGED <<local, servers, faults>>

\* The connection that had the lock is gone.
MigrateFails(p) ==
  /\ stage[p] \in {"up", "create"} /\ lock # p
  /\ Exit(p)
  /\ UNCHANGED <<servers, tables, migration, faults>>

Migrate(p) == LockSchema(p) \/ Up(p) \/ CreateTable(p) \/ MigrateFails(p)

\* All CREATE TABLEs are one query. MySQL may run more of them for a client that
\* is gone, and only then ends the session and frees its lock.
OrphanCreates ==
  /\ lock = Orphan /\ ~hung
  /\ \/ tables < Tables /\ tables' = tables + 1 /\ UNCHANGED lock
     \/ lock' = NoProc /\ UNCHANGED tables
  /\ UNCHANGED <<stage, local, servers, migration, faults>>

-----------------------------------------------------------------------------
\* NewClient: a single ping.
PingRedis(p) ==
  /\ stage[p] = "redis"
  /\ \/ "redis" \notin outage /\ ~signalled[p] /\ Goto(p, "serving") /\ UNCHANGED <<local, lock>>
     \/ ("redis" \in outage \/ signalled[p]) /\ Exit(p)
  /\ UNCHANGED <<servers, tables, migration, faults>>

Accept(p) ==
  /\ stage[p] = "serving"
  /\ inflight[p] < MaxInflight
  /\ inflight' = [inflight EXCEPT ![p] = @ + 1]
  /\ UNCHANGED <<stage, attempt, cfg, signalled, servers, schema, faults>>

Answer(p) ==
  /\ inflight[p] > 0
  /\ inflight' = [inflight EXCEPT ![p] = @ - 1]
  /\ UNCHANGED <<stage, attempt, cfg, signalled, servers, schema, faults>>

\* srv.Shutdown closes the listener.
Shutdown(p) ==
  /\ stage[p] = "serving" /\ signalled[p]
  /\ Goto(p, "draining")
  /\ UNCHANGED <<local, servers, schema, faults>>

\* Faulty variant: Shutdown gets a context without a deadline.
DrainWithoutDeadline(p) ==
  /\ stage[p] = "draining"
  /\ inflight[p] = 0
  /\ Exit(p)
  /\ UNCHANGED <<servers, tables, migration, faults>>

\* Its last request is answered, or the 10 seconds are over.
Drain(p) ==
  /\ stage[p] = "draining"
  /\ Exit(p)
  /\ UNCHANGED <<servers, tables, migration, faults>>

-----------------------------------------------------------------------------
(* What goes wrong around the process *)

Signal(p) ==
  /\ stage[p] # "down" /\ ~signalled[p]
  /\ Fault
  /\ signalled' = [signalled EXCEPT ![p] = TRUE]
  /\ UNCHANGED <<stage, attempt, cfg, inflight, servers, schema>>

\* The process is killed, or ListenAndServe returns an error. MySQL may not have
\* seen yet that the client of its query is gone.
Crash(p) ==
  /\ stage[p] # "down"
  /\ Fault
  /\ \/ Exit(p)
     \/ stage[p] = "create" /\ lock = p /\ Gone(p) /\ lock' = Orphan
  /\ UNCHANGED <<signalled, servers, tables, migration>>

\* A server stops; MySQL's sessions, and the lock of one of them, are gone.
Break(s) ==
  /\ s \notin outage
  /\ Fault
  /\ outage' = outage \cup {s}
  /\ IF s = "mysql" THEN lock' = NoProc /\ hung' = FALSE ELSE UNCHANGED <<lock, hung>>
  /\ UNCHANGED <<stage, local, tables, migration>>

Repair(s) ==
  /\ s \in outage
  /\ outage' = outage \ {s}
  /\ UNCHANGED <<stage, local, hung, schema, faults>>

\* MySQL, or a statement that waits for a lock on a table, does not come back.
Hang ==
  /\ "mysql" \notin outage /\ ~hung
  /\ Fault
  /\ hung' = TRUE
  /\ UNCHANGED <<stage, local, outage, schema>>

Resume ==
  /\ hung
  /\ hung' = FALSE
  /\ UNCHANGED <<stage, local, outage, schema, faults>>

Servers == {"mysql", "redis"}

Run(p) == PingMySQL(p) \/ Migrate(p) \/ PingRedis(p) \/ Shutdown(p) \/ Drain(p)

Next ==
  \/ \E p \in Procs :
       \/ Start(p) \/ Run(p) \/ LockTimesOut(p)
       \/ Accept(p) \/ Answer(p) \/ Signal(p) \/ Crash(p)
  \/ \E s \in Servers : Break(s) \/ Repair(s)
  \/ OrphanCreates \/ Hang \/ Resume

Spec == Init /\ [][Next]_vars

\* The pings and the shutdown have time limits; Migrate goes on as long as MySQL
\* answers or refuses. The restart policy starts what was not stopped by hand,
\* and servers that are down are repaired. Nothing ends a hang, no session of a
\* dead process has to end, and no request has to arrive or to end.
FairSpec ==
  /\ Spec
  /\ \A p \in Procs : WF_vars(Run(p)) /\ WF_vars(~signalled[p] /\ Start(p))
  /\ \A s \in Servers : WF_vars(Repair(s))

-----------------------------------------------------------------------------
TypeOK ==
  /\ stage \in [Procs -> {"down", "ping", "migrate", "up", "create", "redis", "serving", "draining"}]
  /\ attempt \in [Procs -> 0 .. PingAttempts - 1]
  /\ cfg \in [Procs -> [address : 0 .. 1, secret : 0 .. MinSecret, limit : 0 .. DefaultLimit]]
  /\ inflight \in [Procs -> 0 .. MaxInflight]
  /\ signalled \in [Procs -> BOOLEAN]
  /\ outage \subseteq Servers
  /\ hung \in BOOLEAN
  /\ tables \in 0 .. Tables
  /\ migration \in {"none", "dirty", "clean"}
  /\ lock \in Procs \cup {NoProc, Orphan}
  /\ faults \in 0 .. MaxFaults

(* Requests are served only over a complete schema, whoever made it and      *)
(* whatever became of the processes that tried, and never without a secret   *)
(* or with a rate limit that lets nobody through.                            *)
ServesOnlyReady ==
  /\ TypeOK
  /\ \A p \in Procs : stage[p] \in {"serving", "draining"} =>
       /\ tables = Tables /\ migration = "clean"
       /\ cfg[p].address > 0 /\ cfg[p].secret >= MinSecret /\ cfg[p].limit > 0

(* A process that is told to stop is gone in the end, wherever it was and    *)
(* with requests that never end. Only in Migrate it may wait for ever, over  *)
(* a MySQL that hangs for ever.                                              *)
SignalsAreObeyed ==
  \A p \in Procs :
    signalled[p] ~> (stage[p] = "down" \/ [](hung /\ stage[p] \in Migrating))

(* Once the faults are over every process that was not stopped comes to      *)
(* serve for good; only a migration that was interrupted, or a MySQL that    *)
(* hangs for ever, keeps any of them from it.                                *)
ComesUp ==
  \/ <>[](\A p \in Procs : IF signalled[p] THEN stage[p] = "down" ELSE stage[p] = "serving")
  \/ <>[](migration = "dirty")
  \/ <>[]hung

=============================================================================
