-------------------------- MODULE LifecycleProofs --------------------------
(***************************************************************************)
(* A process serves only over a complete schema with settings that         *)
(* validate: for any number of processes, tables, pings, requests and      *)
(* faults. The argument: only the session that has the lock and runs the   *)
(* migration changes the schema, that of a dead process included; the row  *)
(* of schema_migrations is dirty all that while, and a process goes on     *)
(* only past a clean one, which nothing makes dirty again. A migration is  *)
(* left behind only by a fault.                                            *)
(***************************************************************************)
EXTENDS Lifecycle, TLAPS

Ready(c) ==
  /\ c \in [address : 0 .. 1, secret : 0 .. MinSecret, limit : 0 .. DefaultLimit]
  /\ Validate(c) /\ c.limit > 0

\* The stages past Migrate.
Migrated == {"redis", "serving", "draining"}

SchemaInv ==
  /\ migration = "clean" => tables = Tables
  /\ lock = Orphan => migration = "dirty"
  /\ \A p \in Procs :
       /\ stage[p] = "create" /\ lock = p => migration = "dirty"
       /\ stage[p] \in Migrated => migration = "clean"

SettingsInv == \A p \in Procs : stage[p] # "down" => Ready(cfg[p])

LInv == TypeOK /\ SchemaInv /\ SettingsInv

-----------------------------------------------------------------------------
LEMMA InitLInv == Init => LInv
<1> SUFFICES ASSUME Init PROVE LInv
  OBVIOUS
<1>1. hung \in BOOLEAN /\ signalled \in [Procs -> BOOLEAN]
  BY DEF Init
<1>2. TypeOK
  BY <1>1, NumbersAssumption DEF Init, TypeOK, NoConfig
<1>3. SchemaInv /\ SettingsInv
  BY NoProcAssumption DEF Init, SchemaInv, SettingsInv, Migrated
<1> QED  BY <1>2, <1>3 DEF LInv

\* What config.Load lets through.
LEMMA LoadedIsReady ==
  ASSUME NEW file \in Settings, NEW env \in Environments,
         Validate(ApplyDefaults(ApplyEnvOverrides(file, env)))
  PROVE  Ready(ApplyDefaults(ApplyEnvOverrides(file, env)))
<1>1. ApplyEnvOverrides(file, env) \in Settings
  BY DEF ApplyEnvOverrides, Settings, Environments
<1>2. ASSUME NEW c \in Settings
      PROVE  /\ ApplyDefaults(c).limit > 0
             /\ ApplyDefaults(c) \in [address : 0 .. 1, secret : 0 .. MinSecret,
                                      limit : 0 .. DefaultLimit]
  BY NumbersAssumption DEF ApplyDefaults, Settings
<1> QED  BY <1>1, <1>2 DEF Ready

\* A process that is gone is out of every invariant; its session may stay, and go
\* on with the migration it left dirty.
LEMMA GoneKeeps ==
  ASSUME LInv, NEW p \in Procs, Gone(p),
         \/ lock' \in {lock, NoProc}
         \/ stage[p] = "create" /\ lock = p /\ lock' = Orphan,
         UNCHANGED <<servers, tables, migration>>,
         signalled' \in [Procs -> BOOLEAN], faults' \in 0 .. MaxFaults
  PROVE  LInv'
<1> USE DEF LInv, Gone, Goto
<1>1. TypeOK'
  <2>1. lock' \in Procs \cup {NoProc, Orphan}
    BY DEF TypeOK
  <2>2. attempt' \in [Procs -> 0 .. PingAttempts - 1] /\ inflight' \in [Procs -> 0 .. MaxInflight]
    BY NumbersAssumption DEF TypeOK
  <2>3. cfg' \in [Procs -> [address : 0 .. 1, secret : 0 .. MinSecret, limit : 0 .. DefaultLimit]]
    BY NumbersAssumption DEF TypeOK, NoConfig
  <2> QED  BY <2>1, <2>2, <2>3 DEF TypeOK, servers
<1>2. SchemaInv'
  BY NoProcAssumption DEF TypeOK, SchemaInv, Migrated
<1>3. SettingsInv'
  BY DEF TypeOK, SettingsInv
<1> QED  BY <1>1, <1>2, <1>3

\* An exit closes the process's connections, and with them its session.
LEMMA ExitKeeps ==
  ASSUME LInv, NEW p \in Procs, Exit(p),
         UNCHANGED <<servers, tables, migration>>, faults' \in 0 .. MaxFaults
  PROVE  LInv'
  BY GoneKeeps DEF Exit, LInv, TypeOK

LEMMA StartKeeps == ASSUME LInv, NEW p \in Procs, Start(p) PROVE LInv'
<1> USE DEF LInv
<1>1. PICK file \in Settings, env \in Environments :
        LET c == ApplyDefaults(ApplyEnvOverrides(file, env)) IN
        \/ /\ Validate(c)
           /\ cfg' = [cfg EXCEPT ![p] = c]
           /\ Goto(p, "ping")
           /\ UNCHANGED <<attempt, inflight, lock, faults>>
        \/ ~Validate(c) /\ Gone(p) /\ Fault /\ UNCHANGED lock
  BY DEF Start
<1> DEFINE c == ApplyDefaults(ApplyEnvOverrides(file, env))
<1>2. Validate(c) => Ready(c)
  BY LoadedIsReady
<1> HIDE DEF c
<1>3. UNCHANGED <<servers, tables, migration>> /\ signalled' \in [Procs -> BOOLEAN]
  BY DEF Start, TypeOK
<1>4. CASE /\ Validate(c)
           /\ cfg' = [cfg EXCEPT ![p] = c]
           /\ Goto(p, "ping")
           /\ UNCHANGED <<attempt, inflight, lock, faults>>
  <2>1. TypeOK'
    BY <1>2, <1>3, <1>4 DEF TypeOK, Goto, Ready, servers
  <2>2. SchemaInv'
    BY <1>3, <1>4 DEF TypeOK, SchemaInv, Goto, Migrated
  <2>3. SettingsInv'
    BY <1>2, <1>4 DEF TypeOK, SettingsInv, Goto
  <2> QED  BY <2>1, <2>2, <2>3
<1>5. CASE Gone(p) /\ Fault /\ UNCHANGED lock
  BY <1>3, <1>5, GoneKeeps, NumbersAssumption DEF Fault, TypeOK
<1> QED  BY <1>1, <1>4, <1>5 DEF c

\* A step of p from one stage to the next that leaves its settings alone.
Moves(p) ==
  /\ stage[p] # "down" /\ UNCHANGED cfg
  /\ stage' = [stage EXCEPT ![p] = stage'[p]]

LEMMA MoveKeeps ==
  ASSUME LInv, NEW p \in Procs, Moves(p), TypeOK', SchemaInv'
  PROVE  LInv'
  BY DEF LInv, TypeOK, Moves, SettingsInv

Fails(p) == Exit(p) /\ UNCHANGED <<servers, tables, migration, faults>>

LEMMA MigrateKeeps ==
  ASSUME LInv, NEW p \in Procs, Migrate(p) \/ LockTimesOut(p)
  PROVE  LInv'
<1> USE DEF LInv
<1>1. CASE Fails(p)
  BY <1>1, ExitKeeps DEF Fails, TypeOK
<1>2. CASE /\ stage[p] = "migrate" /\ stage' = [stage EXCEPT ![p] = "up"]
           /\ lock = NoProc /\ lock' = p
           /\ UNCHANGED <<local, servers, tables, migration, faults>>
  <2>1. TypeOK'
    BY <1>2 DEF TypeOK, local, servers
  <2>2. SchemaInv'
    BY <1>2, NoProcAssumption DEF TypeOK, SchemaInv, Migrated
  <2> QED  BY <1>2, <2>1, <2>2, MoveKeeps DEF Moves, local, TypeOK
<1>3. CASE /\ stage[p] = "up" /\ lock = p /\ migration = "none" /\ migration' = "dirty"
           /\ stage' = [stage EXCEPT ![p] = "create"]
           /\ UNCHANGED <<local, lock, servers, tables, faults>>
  <2>1. TypeOK'
    BY <1>3 DEF TypeOK, local, servers
  <2>2. SchemaInv'
    BY <1>3 DEF TypeOK, SchemaInv, Migrated
  <2> QED  BY <1>3, <2>1, <2>2, MoveKeeps DEF Moves, local, TypeOK
<1>4. CASE /\ stage[p] = "up" /\ migration = "clean"
           /\ stage' = [stage EXCEPT ![p] = "redis"] /\ lock' = NoProc
           /\ UNCHANGED <<local, migration, servers, tables, faults>>
  <2>1. TypeOK'
    BY <1>4 DEF TypeOK, local, servers
  <2>2. SchemaInv'
    BY <1>4, NoProcAssumption DEF TypeOK, SchemaInv, Migrated
  <2> QED  BY <1>4, <2>1, <2>2, MoveKeeps DEF Moves, local, TypeOK
<1>5. CASE /\ stage[p] = "create" /\ lock = p /\ tables < Tables /\ tables' = tables + 1
           /\ UNCHANGED <<stage, lock, migration, local, servers, faults>>
  <2>1. TypeOK'
    BY <1>5, NumbersAssumption DEF TypeOK, local, servers
  <2>2. SchemaInv'
    BY <1>5 DEF TypeOK, SchemaInv, Migrated
  <2> QED  BY <1>5, <2>1, <2>2, MoveKeeps DEF Moves, local, TypeOK
<1>6. CASE /\ stage[p] = "create" /\ tables = Tables /\ migration' = "clean" /\ lock' = NoProc
           /\ stage' = [stage EXCEPT ![p] = "redis"]
           /\ UNCHANGED <<tables, local, servers, faults>>
  <2>1. TypeOK'
    BY <1>6 DEF TypeOK, local, servers
  <2>2. SchemaInv'
    BY <1>6, NoProcAssumption DEF TypeOK, SchemaInv, Migrated
  <2> QED  BY <1>6, <2>1, <2>2, MoveKeeps DEF Moves, local, TypeOK
<1> QED
  BY <1>1, <1>2, <1>3, <1>4, <1>5, <1>6
     DEF Migrate, LockSchema, LockTimesOut, Up, CreateTable, MigrateFails, Goto, Fails

LEMMA RunKeeps ==
  ASSUME LInv, NEW p \in Procs, PingMySQL(p) \/ PingRedis(p) \/ Shutdown(p) \/ Drain(p)
  PROVE  LInv'
<1> USE DEF LInv
<1>1. CASE Fails(p)
  BY <1>1, ExitKeeps DEF Fails, TypeOK
<1>2. CASE PingMySQL(p) /\ ~Fails(p)
  <2>1. TypeOK'
    BY <1>2, NumbersAssumption DEF PingMySQL, Fails, Goto, local, TypeOK, servers
  <2>2. SchemaInv'
    BY <1>2 DEF PingMySQL, Fails, Goto, local, TypeOK, SchemaInv, Migrated
  <2> QED  BY <1>2, <2>1, <2>2, MoveKeeps DEF PingMySQL, Fails, Goto, Moves, local, TypeOK
<1>3. CASE (PingRedis(p) \/ Shutdown(p)) /\ ~Fails(p)
  <2>1. /\ stage[p] \in Migrated /\ stage'[p] \in Migrated \ {"redis"}
        /\ stage' = [stage EXCEPT ![p] = stage'[p]]
        /\ UNCHANGED <<local, servers, schema, faults>>
    BY <1>3 DEF PingRedis, Shutdown, Fails, Goto, Migrated, TypeOK, schema
  <2>2. TypeOK'
    BY <2>1 DEF local, servers, schema, Migrated, TypeOK
  <2>3. SchemaInv'
    BY <2>1 DEF schema, Migrated, TypeOK, SchemaInv
  <2> QED  BY <2>1, <2>2, <2>3, MoveKeeps DEF Moves, local, Migrated
<1> QED  BY <1>1, <1>2, <1>3 DEF Fails, PingMySQL, PingRedis, Shutdown, Drain

LEMMA RequestsKeep ==
  ASSUME LInv, NEW p \in Procs, Accept(p) \/ Answer(p) \/ Signal(p) \/ Crash(p)
  PROVE  LInv'
<1> USE DEF LInv
<1>1. CASE Crash(p)
  BY <1>1, GoneKeeps, NumbersAssumption DEF Crash, Exit, Fault, TypeOK
<1>2. CASE Accept(p) \/ Answer(p) \/ Signal(p)
  <2>1. UNCHANGED <<stage, cfg, schema>>
    BY <1>2 DEF Accept, Answer, Signal
  <2>2. TypeOK'
    <3>1. CASE Accept(p)
      BY <3>1, NumbersAssumption DEF Accept, TypeOK, servers, schema
    <3>2. CASE Answer(p)
      BY <3>2, NumbersAssumption DEF Answer, TypeOK, servers, schema
    <3>3. CASE Signal(p)
      BY <3>3, NumbersAssumption DEF Signal, Fault, TypeOK, servers, schema
    <3> QED  BY <1>2, <3>1, <3>2, <3>3
  <2>3. SchemaInv' /\ SettingsInv'
    BY <2>1 DEF schema, SchemaInv, SettingsInv
  <2> QED  BY <2>2, <2>3
<1> QED  BY <1>1, <1>2

LEMMA ServersKeep ==
  ASSUME LInv, Hang \/ Resume \/ OrphanCreates \/ \E s \in Servers : Break(s) \/ Repair(s)
  PROVE  LInv'
<1> USE DEF LInv
<1>1. UNCHANGED <<stage, local, migration>> /\ lock' \in {lock, NoProc}
  BY DEF Hang, Resume, OrphanCreates, Break, Repair, schema
<1>2. tables' = tables \/ (lock = Orphan /\ tables' \in 0 .. Tables)
  BY NumbersAssumption DEF Hang, Resume, OrphanCreates, Break, Repair, schema, TypeOK
<1>3. outage' \subseteq Servers /\ hung' \in BOOLEAN
  BY DEF Hang, Resume, OrphanCreates, Break, Repair, servers, TypeOK
<1>4. faults' \in 0 .. MaxFaults
  BY NumbersAssumption DEF Hang, Resume, OrphanCreates, Break, Repair, Fault, TypeOK
<1>5. TypeOK'
  BY <1>1, <1>2, <1>3, <1>4 DEF TypeOK, local
<1>6. SchemaInv' /\ SettingsInv'
  BY <1>1, <1>2, NoProcAssumption DEF local, SchemaInv, SettingsInv
<1> QED  BY <1>5, <1>6

LEMMA LInvStep == LInv /\ [Next]_vars => LInv'
<1> SUFFICES ASSUME LInv, [Next]_vars PROVE LInv'
  OBVIOUS
<1>1. CASE UNCHANGED vars
  BY <1>1 DEF vars, servers, schema, LInv, TypeOK, SchemaInv, SettingsInv
<1> QED
  BY <1>1, StartKeeps, MigrateKeeps, RunKeeps, RequestsKeep, ServersKeep DEF Next, Run

-----------------------------------------------------------------------------
THEOREM LInvHolds == Spec => []LInv
  BY InitLInv, LInvStep, PTL DEF Spec

(* Whoever made the tables, and however many processes died or lost their     *)
(* connection over it: requests are served only over all of them, with a      *)
(* secret that is long enough and a rate limit that lets requests through.    *)
THEOREM ServesOnlyReadyHolds == Spec => []ServesOnlyReady
<1>1. LInv => ServesOnlyReady
  BY DEF LInv, SchemaInv, SettingsInv, Ready, Validate, ServesOnlyReady, Migrated
<1> QED  BY <1>1, LInvHolds, PTL

-----------------------------------------------------------------------------
(* What becomes of the schema: the steps that change it are those of the      *)
(* session that runs the migration, and an interrupted one is no process's.   *)

Interrupted ==
  migration = "dirty" /\ \A p \in Procs : ~(stage[p] = "create" /\ lock = p)

LEMMA SchemaStep ==
  ASSUME LInv, [Next]_vars
  PROVE  /\ migration = "clean" => UNCHANGED <<tables, migration>>
         /\ Interrupted => Interrupted'
<1> USE DEF Interrupted
<1>1. ASSUME NEW p \in Procs, Start(p)
      PROVE  UNCHANGED <<tables, migration>> /\ (Interrupted => Interrupted')
  BY <1>1 DEF Start, Gone, Goto, LInv, TypeOK
<1>2. ASSUME NEW p \in Procs, Migrate(p) \/ LockTimesOut(p)
      PROVE  /\ migration = "clean" => UNCHANGED <<tables, migration>>
             /\ Interrupted => Interrupted'
  BY <1>2, NoProcAssumption
     DEF Migrate, LockSchema, LockTimesOut, Up, CreateTable, MigrateFails, Exit, Gone, Goto,
         local, LInv, SchemaInv, TypeOK
<1>3. ASSUME NEW p \in Procs, PingMySQL(p) \/ PingRedis(p) \/ Shutdown(p) \/ Drain(p) \/ Crash(p)
      PROVE  UNCHANGED <<tables, migration>> /\ (Interrupted => Interrupted')
  BY <1>3, NoProcAssumption
     DEF PingMySQL, PingRedis, Shutdown, Drain, Crash, Exit, Gone, Goto, schema, LInv, TypeOK
<1>4. ASSUME NEW p \in Procs, Accept(p) \/ Answer(p) \/ Signal(p)
      PROVE  UNCHANGED <<tables, migration>> /\ (Interrupted => Interrupted')
  BY <1>4 DEF Accept, Answer, Signal, schema
<1>5. CASE Hang \/ Resume \/ \E s \in Servers : Break(s) \/ Repair(s)
  <2>1. UNCHANGED <<stage, tables, migration>> /\ lock' \in {lock, NoProc}
    BY <1>5 DEF Hang, Resume, Break, Repair, schema
  <2> QED  BY <2>1, NoProcAssumption
<1>6. CASE OrphanCreates
  BY <1>6, NoProcAssumption DEF OrphanCreates, LInv, SchemaInv
<1>7. CASE UNCHANGED vars
  BY <1>7 DEF vars, schema
<1> QED  BY <1>1, <1>2, <1>3, <1>4, <1>5, <1>6, <1>7 DEF Next, Run

(* The schema is made once: no later start, of whichever process, no failure  *)
(* and no session that outlives its process touches the tables or the version *)
(* row of an applied migration.                                               *)
THEOREM SchemaIsMadeOnce ==
  Spec => [][migration = "clean" => UNCHANGED <<tables, migration>>]_vars
<1>1. LInv /\ [Next]_vars => [migration = "clean" => UNCHANGED <<tables, migration>>]_vars
  BY SchemaStep
<1> QED  BY <1>1, LInvHolds, PTL DEF Spec

(* The other outcome that ComesUp allows is final: once the process that ran  *)
(* the migration is gone, it stays dirty and nobody gets past it, however     *)
(* often the processes are started again.                                     *)
THEOREM InterruptedForEver ==
  Spec => [](Interrupted => [](Interrupted /\ \A p \in Procs : stage[p] \notin Migrated))
<1>1. LInv /\ Interrupted => \A p \in Procs : stage[p] \notin Migrated
  BY DEF LInv, SchemaInv, Interrupted
<1>2. LInv /\ Interrupted /\ [Next]_vars => Interrupted'
  BY SchemaStep
<1> QED  BY <1>1, <1>2, LInvHolds, PTL DEF Spec

-----------------------------------------------------------------------------
(* The migration lock, and what an undisturbed start may do to the schema.    *)

LockIsUsed == lock \in Procs => stage[lock] \in {"up", "create"}

OnlyFaultsInterrupt == faults = 0 => ~Interrupted

\* Without a fault no server is down, nobody is told to stop, no process is dead,
\* and who is past GET_LOCK has the lock.
Undisturbed ==
  faults = 0 =>
    /\ outage = {} /\ lock # Orphan
    /\ \A p \in Procs : ~signalled[p] /\ (stage[p] \in {"up", "create"} => lock = p)

StartInv == LockIsUsed /\ Undisturbed /\ OnlyFaultsInterrupt

LEMMA InitStartInv == Init => StartInv
  BY NoProcAssumption
     DEF Init, StartInv, LockIsUsed, Undisturbed, OnlyFaultsInterrupt, Interrupted

\* After a fault only the lock matters.
LEMMA AfterFault ==
  ASSUME LInv', LockIsUsed', faults' # 0
  PROVE  StartInv'
  BY DEF StartInv, Undisturbed, OnlyFaultsInterrupt

\* An exit of a process that does not run the migration.
LEMMA ExitKeepsStart ==
  ASSUME LInv, LInv', StartInv, NEW p \in Procs, Fails(p),
         ~(stage[p] = "create" /\ lock = p)
  PROVE  StartInv'
<1> USE DEF Fails, Exit, Gone, Goto, StartInv, LInv, TypeOK, servers
<1>1. LockIsUsed'
  BY NoProcAssumption DEF LockIsUsed
<1>2. Undisturbed'
  BY NoProcAssumption DEF Undisturbed
<1>3. OnlyFaultsInterrupt'
  <2> SUFFICES ASSUME faults' = 0, migration' = "dirty"
               PROVE  \E q \in Procs : stage'[q] = "create" /\ lock' = q
    BY DEF OnlyFaultsInterrupt, Interrupted
  <2>1. PICK q \in Procs : stage[q] = "create" /\ lock = q
    BY DEF OnlyFaultsInterrupt, Interrupted
  <2>2. q # p
    BY <2>1
  <2> QED  BY <2>1, <2>2
<1> QED  BY <1>1, <1>2, <1>3

LEMMA StartInvStep ==
  ASSUME LInv, LInv', StartInv, [Next]_vars
  PROVE  StartInv'
<1>1. ASSUME NEW p \in Procs, Start(p)
      PROVE  StartInv'
  <2>1. UNCHANGED <<outage, tables, migration>> /\ signalled' = [signalled EXCEPT ![p] = FALSE]
    BY <1>1 DEF Start, servers
  <2>2. stage[p] = "down" /\ UNCHANGED lock /\ lock # p
    BY <1>1 DEF Start, StartInv, LockIsUsed
  <2>3. CASE Gone(p) /\ Fault
    <3>1. faults' # 0
      BY <2>3 DEF Fault, LInv, TypeOK
    <3>2. LockIsUsed'
      BY <2>2, <2>3 DEF Gone, Goto, StartInv, LockIsUsed, LInv, TypeOK
    <3> QED  BY <3>1, <3>2, AfterFault
  <2>4. CASE Goto(p, "ping") /\ UNCHANGED faults
    BY <2>1, <2>2, <2>4
       DEF Goto, StartInv, LockIsUsed, Undisturbed, OnlyFaultsInterrupt, Interrupted, LInv, TypeOK
  <2> QED  BY <1>1, <2>3, <2>4 DEF Start
<1>2. ASSUME NEW p \in Procs, Migrate(p) \/ LockTimesOut(p)
      PROVE  StartInv'
  <2> USE NoProcAssumption DEF LInv
  <2>1. CASE Fails(p)
    <3>1. ~(stage[p] = "create" /\ lock = p)
      BY <1>2, <2>1
         DEF Migrate, LockSchema, LockTimesOut, Up, CreateTable, MigrateFails, Fails, Exit, Gone,
             Goto, TypeOK
    <3> QED  BY <2>1, <3>1, ExitKeepsStart
  <2>2. CASE ~Fails(p)
    <3> USE <1>2, <2>2
            DEF Migrate, LockSchema, LockTimesOut, Up, CreateTable, MigrateFails, Fails, Goto,
                local, servers, TypeOK
    <3>1. LockIsUsed'
      BY DEF StartInv, LockIsUsed
    <3>2. Undisturbed'
      <4> SUFFICES ASSUME faults = 0
                   PROVE  /\ outage = {} /\ lock' # Orphan
                          /\ \A q \in Procs : ~signalled[q]
                          /\ \A q \in Procs : stage'[q] \in {"up", "create"} => lock' = q
        BY DEF Undisturbed
      <4>1. /\ outage = {} /\ lock # Orphan
            /\ \A q \in Procs : ~signalled[q]
            /\ \A q \in Procs : stage[q] \in {"up", "create"} => lock = q
        BY DEF StartInv, Undisturbed
      <4>2. lock' # Orphan
        BY <4>1
      <4>3. ASSUME NEW q \in Procs, stage'[q] \in {"up", "create"}
            PROVE  lock' = q
        BY <4>1, <4>3
      <4> QED  BY <4>1, <4>2, <4>3
    <3>3. OnlyFaultsInterrupt'
      BY DEF StartInv, OnlyFaultsInterrupt, Interrupted, SchemaInv
    <3> QED  BY <3>1, <3>2, <3>3 DEF StartInv
  <2> QED  BY <2>1, <2>2
<1>3. ASSUME NEW p \in Procs, PingMySQL(p) \/ PingRedis(p) \/ Shutdown(p) \/ Drain(p)
      PROVE  StartInv'
  <2>1. CASE Fails(p)
    <3>1. stage[p] # "create"
      BY <1>3 DEF PingMySQL, PingRedis, Shutdown, Drain
    <3> QED  BY <2>1, <3>1, ExitKeepsStart
  <2>2. CASE ~Fails(p)
    <3>1. /\ stage[p] \notin {"up", "create"} /\ stage'[p] \notin {"up", "create"}
          /\ stage' = [stage EXCEPT ![p] = stage'[p]]
          /\ UNCHANGED <<signalled, outage, schema, faults>>
      BY <1>3, <2>2
         DEF PingMySQL, PingRedis, Shutdown, Drain, Fails, Goto, local, servers, schema, LInv,
             TypeOK
    <3> QED
      BY <3>1, NoProcAssumption
         DEF schema, StartInv, LockIsUsed, Undisturbed, OnlyFaultsInterrupt, Interrupted, LInv,
             TypeOK
  <2> QED  BY <2>1, <2>2
<1>4. ASSUME NEW p \in Procs, Crash(p)
      PROVE  StartInv'
  <2>1. faults' # 0
    BY <1>4 DEF Crash, Fault, LInv, TypeOK
  <2>2. LockIsUsed'
    BY <1>4, NoProcAssumption
       DEF Crash, Exit, Gone, Goto, StartInv, LockIsUsed, LInv, TypeOK
  <2> QED  BY <2>1, <2>2, AfterFault
<1>5. ASSUME NEW p \in Procs, Accept(p) \/ Answer(p) \/ Signal(p)
      PROVE  StartInv'
  <2>1. UNCHANGED <<stage, outage, schema>>
    BY <1>5 DEF Accept, Answer, Signal, servers
  <2>2. faults' > 0 \/ UNCHANGED <<signalled, faults>>
    BY <1>5 DEF Accept, Answer, Signal, Fault, LInv, TypeOK
  <2> QED
    BY <2>1, <2>2
       DEF schema, StartInv, LockIsUsed, Undisturbed, OnlyFaultsInterrupt, Interrupted
<1>6. CASE Hang \/ \E s \in Servers : Break(s)
  <2>1. faults' # 0
    BY <1>6 DEF Hang, Break, Fault, LInv, TypeOK
  <2>2. UNCHANGED stage /\ lock' \in {lock, NoProc}
    BY <1>6 DEF Hang, Break, schema
  <2>3. LockIsUsed'
    BY <2>2, NoProcAssumption DEF StartInv, LockIsUsed
  <2> QED  BY <2>1, <2>3, AfterFault
<1>7. CASE Resume \/ OrphanCreates \/ \E s \in Servers : Repair(s)
  <2>1. /\ UNCHANGED <<stage, local, migration, faults>>
        /\ lock' = lock \/ (lock = Orphan /\ lock' = NoProc)
        /\ outage' \subseteq outage
    BY <1>7 DEF Resume, OrphanCreates, Repair, servers, schema
  <2> QED
    BY <2>1, NoProcAssumption
       DEF local, StartInv, LockIsUsed, Undisturbed, OnlyFaultsInterrupt, Interrupted
<1>8. CASE UNCHANGED vars
  BY <1>8
     DEF vars, servers, schema, StartInv, LockIsUsed, Undisturbed, OnlyFaultsInterrupt,
         Interrupted
<1> QED  BY <1>1, <1>2, <1>3, <1>4, <1>5, <1>6, <1>7, <1>8 DEF Next, Run

LEMMA StartInvHolds == Spec => []StartInv
<1>1. LInv /\ LInv' /\ StartInv /\ [Next]_vars => StartInv'
  BY StartInvStep
<1> QED  BY <1>1, InitStartInv, LInvHolds, PTL DEF Spec

(* However many processes start together, and in whatever order they reach    *)
(* the lock: as long as nothing fails and nobody is told to stop, none of     *)
(* them leaves a migration half made. An interrupted one needs a fault.       *)
THEOREM OnlyFaultsInterruptHolds == Spec => []OnlyFaultsInterrupt
  BY StartInvHolds, PTL DEF StartInv

=============================================================================
