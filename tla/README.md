# TLA+ model of the task service

A Go REST service for tasks in teams: roles (owner, admin, member), an audit
trail of every task, task lists cached in Redis, invitations by mail. This
directory holds TLA+ modules for its core, TLC configurations that check them on
small instances, and TLAPS proofs that hold for all instances.

    tlc -workers 2 -config MCTaskService.cfg MCTaskService
    tlapm TaskServiceProofs.tla

## 1. The system and its parts

Every request runs in a goroutine of its own. The process keeps no shared state of
its own except the circuit breaker of the mail client; what requests share is in
MySQL (InnoDB, default isolation) and Redis. A request is therefore a sequence of
statements, each atomic, interleaved with those of all other requests, and it can
end after any of them: an error, a client that hangs up (the context is cancelled),
a process that dies.

| Component | Source | State | Operations | Talks to |
|---|---|---|---|---|
| Task changes | `service/task_service.go`, `store/mysql/task_repo.go`, `domain/task.go` | `tasks`, `task_history`, row locks | Create, Update | teams (role, membership), cache (invalidate) |
| Task reading | same files | none | List, History | cache, MySQL |
| Authorization | `service/authorization.go`, `domain/models.go` | none | CanInviteWithRole, CanUpdateTask | called by the services, CanUpdateTask inside the transaction |
| Teams | `service/team_service.go`, `store/mysql/team_repo.go` | `teams`, `team_members` | CreateTeam, ListTeams, Invite | users, mail |
| Task list cache | `store/rediscache/task_cache.go` | per team a version, per version and filter an entry with TTL | GetList, SetList, InvalidateTeam | called by List, Create, Update |
| Accounts | `service/auth_service.go`, `store/mysql/user_repo.go` | `users` | Register, Login | JWT |
| JWT, auth middleware | `auth/jwt.go` | none | Generate, Parse, Middleware | |
| Rate limiter | `ratelimit/redis_limiter.go`, `httpapi/middleware.go` | a token bucket per user or address in Redis | Allow | fails open |
| Mail client | `email/http_sender.go` | circuit breaker | SendInvitation | external HTTP service |
| Analytics | `store/mysql/analytics_repo.go` | none | three reports | reads every table |
| HTTP API, configuration, metrics | `httpapi`, `config`, `metrics` | counters | decoding, status codes | all services |
| Lifecycle, connection pool | `cmd/api/main.go`, `store/mysql/db.go` | the pool | start, migrate, graceful shutdown | |

What is hard in it:

* Update reads the task, the actor's role and the assignee's membership in
  statements outside the transaction that acts on them; only the row is read again
  under `FOR UPDATE`.
* Every return path of the transaction has to release the row lock, and COMMIT may
  take effect although the caller is told it failed.
* The row and its audit rows are diffed and stamped in Go, not in SQL.
* A list is filled from MySQL between two reads of the cache version.
* Two invitations of one user race to a primary key, and a mail follows only one.
* The Redis client repeats a call whose answer is lost, three times by default, and the
  calls it repeats are a script that takes tokens and an INCR: not idempotent, either.
* The limiter, the mail client and the pool are built to fail open, to refuse early and
  to wait without a time limit; what they still promise is a matter of numbers and of
  timing.
* Pages are read by offset while rows are added, and cached one by one.
* A start migrates, and MySQL commits each CREATE TABLE by itself. Migrate looks at no
  context and has no time limit but that of GET_LOCK.

Correct means, per component:

* task changes: writes look atomic, authorised and fully audited; no lost update;
  `completed_at` agrees with the trail; assignees are members; times are ordered;
  locks are released, every request is answered, and the answer is true;
* teams: one owner, roles granted by the entitled and permanent, one mail per
  member;
* cache: after an invalidation a list is fresh, but for a known window; stale
  pages go away, also after Redis has lost its last second;
* reading: a client that walks from page to page misses a row for named reasons only;
  far pages are answered or refused, never wrong where an int can count them;
* accounts: no two share an address or a name; whoever was told 201 owns the account and
  can log in; nobody acts longer than a token lives;
* rate limiter: bounded grants, a true Retry-After, no tokens out of expiry;
* mail client: bounded trials, opening on a burst only, recovery;
* connection pool: no leak, no circular wait, nobody waits for ever;
* lifecycle: requests are served over a complete schema only, signals are obeyed, and
  processes come up when the faults are over;
* analytics: the reports agree with the audit trail, and with the member table also where
  somebody has edited it by hand.

## 2. Modules

| Module | Models | Role |
|---|---|---|
| `Access` | role predicates, CanInviteWithRole, CanUpdateTask | operators |
| `TeamMembers` | table `team_members`, a committed INSERT a step | abstract specification of teams |
| `TeamService` | CreateTeam and Invite, a database or mail call a step | implements `TeamMembers` |
| `TaskLedger` | tasks and audit trail, a committed transaction a step | abstract specification of task changes; extends `TeamMembers` |
| `TaskService` | Create and Update, a database or Redis call a step | implements `TaskLedger` |
| `TaskCache` | cache, writers and listers of one team | what the lists of a team see |
| `TaskApi` | `TaskService` with the listers of `TaskCache` beside it | composition; implements `TaskCache` |
| `RedisRestart` | `TaskCache` over an append-only file, with crashes of Redis | extends `TaskCache` |
| `TaskPages` | pages of tasks and of history, COUNT, SELECT, page cache, int arithmetic | |
| `Analytics` | the three reports over the tables of `TaskLedger` | extends `TaskLedger` |
| `Accounts` | Register, Login, tokens | |
| `RateLimiter` | middleware and Lua script | |
| `EmailBreaker` | SendInvitation and the circuit breaker | |
| `ConnPool` | connections, row locks, waiting | |
| `Lifecycle` | processes from configuration to exit, migration | |
| `*Proofs` | theorems, section 4 | |
| `MC*` | instances for TLC | |

Modules meet where the program shares state. `TeamService` implements `TeamMembers`, and
`TaskLedger` and `TaskService` let teams change by any of its steps at any moment.
`TaskApi` runs the requests of `TaskService` and the listers of `TaskCache` over one set of
version keys, and its property `CacheSpec` (`INSTANCE TaskCache WITH ...`) says that
every behaviour is one of `TaskCache`, seen from one team: a request that writes to the
team is a writer, whose COMMIT adds it to the database and whose INCR, sent once or
several times, is the invalidation; requests of other teams are stutters. So what is proved of `TaskCache` holds
of the lists of what the service really writes. `Analytics` reads the tables of the ledger,
which the service implements. Both refinements of `TaskService`, and that of `TeamService`,
are proved as well as checked.

### State and actions

`TaskService`. `pc[r]` is the call request `r` makes next; `req`, `role`, `row`, `now`
are its Go locals; `lock[t]` is InnoDB's exclusive row lock; `version` is the cache
version. Actions are named after the functions: `StartCreate`/`StartUpdate` are
everything before the first call (trimming, validation, default status), `Get`,
`MemberRole`, `CheckAssignee` the three reads, `Stamp` and `Insert` the two halves of
`TaskRepository.Create` (the time is read after BEGIN, the rows become visible at
COMMIT), `LockRow`, `Authorize`, `Commit` the phases of `TaskRepository.Update`,
`InvalidateTeam` the INCR, one attempt a step: Redis runs it, or it is lost, or it is stuck
on the way (`strays`) and run later (`LateIncr`), and the client may send another
(`tries`, `MaxRetries`). `CommitUnacked` is a COMMIT whose answer is lost, `Fail` any
other error. The statements of one transaction that no other request can see
are one action, the one in which they become visible.

`TaskLedger`. `tasks[t]` is the row, `history[t]` one entry for each committed
transaction: the rows of `task_history` that share `changed_by`, `action` and
`created_at`, as the set of their field changes. `Truncate` is the 500 runes the trail
keeps of a description. Entries, rows and patches are records over the four fields
a patch can set.

`TeamService`. As above; `req[r]` is the invitation being served, `mailed` the mails
that have gone out, each with the request that sent it.

`TaskCache`. A write is an element of `db`, so a page is the set of writes it shows.
`key[l]` is the version a lister built its key with, first in GetList and again in
SetList. `tries` and `strays` are those of `TaskService`, so a write may move the version several
times, or after its answer; `slot` is the number its INCR gave first. `start`, `slot`,
`since` and `degraded` are history variables: they record what the properties need and
guard nothing.

`TaskApi`. `wrote` and `slot` record which team a request has written to and what its INCR
gave the first time it ran; they are what the refinement maps to writers.

`RedisRestart`. `disk` is the append-only file, written by `Fsync` (every second, so at any
time) and loaded by `Crash`: the version may go back and its entries with it.

`TaskPages`. A row is its id. `Enter` and `Leave` are what writers do to a filtered list,
`Offset`, `NormalPage`, `NormalSize` and `HasNext` the arithmetic on ints of `Bits` bits,
wrapping as Go's does. A page is stored with the COUNT and the SELECT it was made of.
`first`, `last`, `seen`, `grew` and `agreed` are history variables of the walk.

`Accounts`. `Collate` is what the unique keys and the lookup compare, `LowerTrim` and `Trim`
what the service normalises. `Insert` is decided by the keys alone, as in the code;
`Fail` may follow an INSERT that took effect. Login compares a known address and an
unknown one through the same steps. A token is a user and an expiry.

`RateLimiter`. `Script` is the Lua script, one atomic step against Redis' clock, which may be
set back; numbers are scaled by a minute so that a refill is integral. `AllowError` is a
call that fails before or after the script ran: the Redis client runs it again, and at
last the request passes. `window` is a history variable: what one key has been granted
since some run, and how far the clock has run meanwhile.

`EmailBreaker`. `cb` is the breaker's state, time left and counts; `young` are the calls of
its generation, so a late result of an earlier one is told apart. The breaker looks at
the clock only when a call begins or ends (`Current`), which is why an open breaker
closes on the next invitations and not by itself. `mail` is what has become of a call,
`failed` how many failed how many ticks ago.

`ConnPool`. `at` is what a handler does next, `busy` are the handlers with a connection, `lock`
the row locks of transactions; `Acquire` and `LockRow` are the two waits without a time
limit. The other statements are steps without a condition.

`Lifecycle`. `stage` is the line of `run()`, `schema` what MySQL keeps: the tables made so
far, the row of `schema_migrations`, and the migration lock. `Gone` is what dies with a
process; `Exit` takes its connections too, and with them the lock, unless it is killed
while its CREATE TABLEs run: they are one query, and its session (`Orphan`) may go on
making tables for a while (`OrphanCreates`). `outage` are servers that refuse, `hung` a
MySQL that neither answers nor refuses: there the pings time out, and Migrate waits,
except perhaps for the lock (`LockTimesOut`). `signalled` outlives the process: a container
stopped by hand is not restarted. One setting stands for each way `config.Load` treats one.

`Analytics`. Each report is a function of the tables, the third of any member table; a day
is a tick.

`Faulty variant` definitions stand next to what they vary. Nothing uses them; each is
what a plausible slip in the Go code would make of its neighbour, and swapping it in
makes the property listed beside it in `PROJECT.json` fail. Where a module's only type
invariant is not listed by itself, it is the first conjunct of the safety property that
the run checks.

## 3. Runs

| Configuration | Checks | Instance | States |
|---|---|---|---|
| `MCTaskService.cfg` | TypeOK, AuditChain, CompletedAtIsAudited, AssigneeIsMember, HistoryTimeOrdered, LocksAreHeldInTransactions, LedgerSpec, EveryRequestAnswered | 2 users, 1 team, 1 task, 1 POST, 2 PUT, INCR sent once, FairSpec | 311 thousand |
| `MCTaskApi.cfg` | AnswersAreTrue, CacheSpec | 1 user, 1 team, 1 POST (INCR sent twice), 1 PUT, 1 GET | 1.7 million |
| `MCRedisRestart.cfg` | StaleOnlyUntilCrash, ConvergesAfterCrash | 1 writer (INCR sent twice), 1 lister, failing calls, 2 crashes, FairSpecOnDisk | 731 thousand |
| `MCTaskCacheRace.cfg` | InvalidationTakesEffect: **violated** | 2 writers, 2 listers, Redis never fails | counterexample |
| `MCTeamService.cfg` | OneOwner, RolesAreGranted, MailedOncePerMember, RolesArePermanent, MembersSpec | 4 users, 1 team, 1 creation, 3 invitations | 19 thousand |
| `MCTaskPages.cfg` | WalkIsComplete, WalkIsTight, FarPagesAreSafe | 3 rows, ints of 4 bits, 2 page sizes, 1 cached page | 7.6 million |
| `MCAnalytics.cfg` | SummaryAgreesWithTrail, RankingIsFair, ForeignAssigneesAreReported | 3 users, 3 tasks, 4 audit entries, 2 ranks | 329 thousand |
| `MCAccounts.cfg` | AccountsAreDistinct, CreatedIsOwned, LoginFindsAccount, ActsWithinTTL | 2 requests at a time, 2 ids, 3 addresses, 4 names | 1 million |
| `MCRateLimiter.cfg` | GrantsAreBounded, WaitingIsRewarded, ExpiryGrantsNothing | limit 2 a minute of 3 ticks, 2 keys, 1 retry | 2.5 million |
| `MCEmailBreaker.cfg` | TrialLoadIsBounded, OpensOnBurst, Recovers | 3 calls, 2 trials, 3 failures to open, FairBreakerSpec | 535 thousand |
| `MCConnPool.cfg` | ConnsAreInUse, LockHolderProceeds, EveryRequestEnds | 3 requests, 2 connections, 2 rows, FairPoolSpec | 4 thousand |
| `MCLifecycle.cfg` | ServesOnlyReady, SignalsAreObeyed, ComesUp | 2 processes, 2 tables, 3 faults, FairSpec | 65 thousand |

Bounds. `MaxTime` caps the clock of the task service (1: two different times, the least
that can be out of order). Its requests are served once each, so their number bounds
everything else. Two updates are the least that can lose one; with the creation they give
trails of three entries, enough for a chain with a middle. The patches set, change and
clear the status, the assignee and a description that differs only beyond 500 runes; two
bodies are rejected. Two users are an owner and somebody invited, so all three ways to be
authorised occur. Three invitations allow an admin to be made and then to race with the
owner for one user. In `MCTaskApi` one patch changes nothing, which the service treats as a
success. The POST sends its INCR twice and both can be run late, so up to three
INCRs of the two writes come in any order beside the GET. A second team, whose key could be
confused with the first, and a retry of the PUT exceed what TLC does in five minutes:
`ApiImplementsCache` covers any number of teams and retries.

In `MCRedisRestart` one writer with two attempts suffices for a lister to start between two
increments, for a late INCR after a crash, and for a version number to be used twice;
the lister lists again, so it reads what it stored, and with the second crash a version can
go back twice. Two writers with late INCRs are again too many states; the bound on staleness
is proved for any number (`StaleOnlyUntilCrashHolds`), and `MCTaskCacheRace` has two. In
`MCTaskService` retries would only multiply states, as nothing but `TaskApi` looks at the
version. Three rows with
two page sizes have walks of one, two and three pages; of 4-bit ints page 7 is the last
whose number exists, and both `page*size` and the offset wrap there. One cached page
suffices for two pages of a walk to be of different age. In `MCAccounts` two of the addresses
and two of the names are equal to the collation and different to Go, one needs
normalising and one name is too short. A limit of 2 a minute of 3 ticks with a clock to 4
lets a bucket empty, refill, expire and be set back within a window (`MaxTravel`) that is
longer than a minute. Three calls exceed the two trials of a half-open breaker and just
suffice to open it. Three requests exceed a pool of two while one of them waits for the
row of another. Three faults are a crash in the middle of the migration, a MySQL
that hangs while the next process starts, and a signal to that one. `MaxEntries` bounds all trails of
`MCAnalytics`: three tasks and an edit, or one task that is finished, reopened and finished
again. Its three users are one more than the ranks listed, so a rank can be missing
between two others and somebody can be left out.

Symmetry is used in the runs of invariants and of `[][A]_v` properties only, over sets
whose elements no definition tells apart. Deadlock is no error where the system stops
when all requests are served; the breaker, the pool, the accounts and the processes go on
for ever and are checked for it.

Fairness. `FairSpec` of TaskService makes a request that can make its next call make
it: a goroutine is not starved, and a call returns, if only with an error. A wait for
a row lock is not such a step, so EveryRequestAnswered does say that the lock is
released. `FairSpecOnDisk` adds that a TTL runs out; Redis may crash at any time, but finitely
often. `FairBreakerSpec` lets time pass and handlers go on, and assumes that there is
always another invitation, for a breaker that nobody calls stays open. `FairPoolSpec`
is strong for the two waits: `database/sql` serves its waiters from a queue and InnoDB
its lock queue, so none is passed over for ever although each chance is short; it does
not assume that a chance arises. `FairSpec` of Lifecycle rests on the time limits of the
pings and of `Shutdown`, on `restart: unless-stopped` in docker-compose.yml, which starts again
what was not stopped by hand (`~signalled[p] /\ Start(p)`), and on servers that are down being
repaired. It assumes nothing of a MySQL that hangs: Migrate has no context, and neither
`migratemysql.Config` nor the DSN sets a timeout, so none of its steps is enabled while
it waits for an answer, `LockTimesOut` is not part of what must happen, and a hang need not end. The session of a dead
process need not end, nor a request. Nothing is assumed anywhere about requests arriving,
clocks, or failures happening or not.

### What the violated run shows

`MCTaskCacheRace.cfg`: lister reads version 0, misses, reads MySQL; a writer commits and
increments the version to 1, successfully; the lister's SetList reads the version
*again* and stores its list under version 1. The next list request, which begins after the
invalidation, is answered without the task, for up to the TTL. With the key of
GetList kept for SetList the list would go under version 0, where nobody looks.
`StaleOnlyIfRacedOrDegraded` (proved, and checked as part of `StaleOnlyUntilCrash`) says that
this and a failed version read are the only ways, and `ConvergesAfterCrash` that the damage
ends.

### What else the runs tell

* Rate limiter. The README of the service gives 100 requests a minute. A bucket that was full is
  drained and refilled meanwhile, so a minute can see almost twice as many;
  `GrantsAreBounded` is the true bound. It counts what the script grants: while Redis is
  unreachable every request passes, by design.
* Mail. Counts are cleared every 10 s and a hanging call fails after 3 s, so a service that
  hangs opens the breaker only if several callers wait for it at a time. Failures that return
  fast (a refused connection, a 5xx) let a single handler collect five of them. Either way
  it takes five within the interval (`OpensOnBurst`). Requests that their clients cancel
  count as failures.
* Migration. A process that dies between two CREATE TABLEs leaves version 1 dirty, and no
  later start gets past `m.Up()`, although the statements are `IF NOT EXISTS` and could be
  run again. `ComesUp` therefore has that exception, and needs it: without the second
  disjunct one crash refutes it. Until its query ends MySQL may make more tables for the dead
  process; that does no harm, as the version row is dirty (`ServesOnlyReady`).
* Hung MySQL. In Migrate a process waits for it without limit, and a signal does not end that
  wait: `SignalsAreObeyed` and `ComesUp` have that exception, and need it.
* Repeated INCR. A version that moves several times for one write, or after its answer, only
  supersedes more pages: the bound on staleness is the same with and without retries.
* Pages. A row can be missed when rows leave the filter, when two pages of a walk are of
  different age in the cache, or when a row comes between COUNT and SELECT of the last
  page. Pages whose end no int can count are refused by MySQL as a negative offset
  (a 5xx) or answered with the rows of the wrapped offset.
* Redis. After a crash that undoes an INCR a number is handed out twice, and a page of its first
  use may be served although the write's invalidation had succeeded. The run bounds the
  damage by the TTL.

## 4. Proofs

| Module | Theorems |
|---|---|
| `TaskLedgerProofs` | LedgerTypeCorrect, AssigneesAreMembers, HistoryIsTimeOrdered, AuditTrailIsAChain, CompletionIsAudited; of the reports (`Analytics`) ReportsReadTheLedger, SummaryAgreesWithTrailHolds, RankingIsFairHolds, ForeignAssigneesAreReportedHolds |
| `TaskServiceProofs` | TypeCorrect, LocksEndWithTransactions, ImplementsLedger, and the four ledger invariants for the service; ServiceReportsAreTrue; EveryWriteIsOfARequestHolds, RequestsAdvanceHolds; AnswersAreTrueHolds, ApiImplementsCache, ListsMissOnlyWhatRaces |
| `TaskCacheProofs` | TypeCorrect, StalenessExplained; with crashes of Redis TypesSurviveCrashes, StaleOnlyUntilCrashHolds, StalenessDiesHolds |
| `TeamServiceProofs` | TypeCorrect, TeamsHaveOneOwner, RolesComeFromEntitled, OneMailPerMember, RolesStay, ImplementsMembers; AnswersAreTrueHolds, GrantsComeFromOwnerHolds |
| `AccountsProofs` | AccountsAreDistinctHolds, CreatedIsOwnedHolds, LoginFindsAccountHolds, ActsWithinTTLHolds |
| `TaskPagesProofs` | FarPagesAreSafeHolds, WalkIsCompleteHolds, WalkIsTightHolds |
| `LimitsProofs` (`RateLimiter`, `EmailBreaker`, `ConnPool`) | GrantsAreBoundedHolds, WaitingIsRewardedHolds, ExpiryGrantsNothingHolds; TrialLoadIsBoundedHolds, OpensOnBurstHolds, FullBreakerIsTryingHolds; ConnsAreInUseHolds, HoldersNeverWaitHolds, SomebodyProceedsHolds |
| `LifecycleProofs` | ServesOnlyReadyHolds, SchemaIsMadeOnce, InterruptedForEver, OnlyFaultsInterruptHolds |

Assumptions on the constants, all of them `ASSUME`s of the modules, which TLC evaluates in
the runs:

* the null values (`NoUser`, `NoTask`, `NoTime`, `NoReq`, `NoFilter`, ...) are not ordinary ones;
* POST and PUT requests are different, and bodies are functions from field names to texts
  of that field; what the reports see written is such a body too (`BodiesAssumption`);
* the tables are finite where rows are counted (`FiniteAssumption`, `IdsAssumption`), ids
  are numbers and users have different ones (`UserIdAssumption`);
* limits, windows and widths are numbers, at least 1 where the code makes them so; an int
  has at least two bits, and the page sizes of the code fit in it;
* no mail call outlives the open state it sees begin (`OpenForAssumption`: 3 s and 30 s).

Nothing is assumed of `LowerTrim`, `Trim`, `Collate` and `Truncate`.

Ledger. `LedgerTypeOK` is inductive. Each other invariant is inductive relative to it
(CompletedAtIsAudited and the chain also need that a trail is never empty), because
a write adds one entry at the end: a field it changes continues the chain from the row
the transaction has locked, and the others keep their last rewrite.

Service. No ledger property is inductive for the service, which acts on what it has
read earlier. `SInv` adds, for every request (`RInv`), what is still true of its locals:
team, role and membership, because nothing deletes or changes a member row and a task
never changes teams (`Grows`); the row itself, because the request holds its lock; the
stamp, because it was read under that lock and the clock has only moved on. `StepRefines`
then maps every step to a ledger step or a stutter, and the ledger theorems carry over, with
what `TaskLedgerProofs` derives from them for the reports (ServiceReportsAreTrue).

Who wrote what. The ledger allows a write by anybody entitled at any time;
`EveryWriteIsOfARequest` ties each one to a request of the program. A task changes only in the
step in which a request commits, by what the body of that request asks for, applied to
the row in the tables and checked against the rights in the tables at that moment (not
those the request has read), with its audit entry, and no other task changes. That is what "no
lost update" means for a service that reads a row twice; with a plain SELECT in place of
FOR UPDATE it fails. `RequestsAdvance` numbers the calls of a request: every step of the
program takes one request forward and none back, or sends its INCR again, as often as the
client may; so none commits twice.

Service and cache. `WInv` says that the history variables of TaskApi follow the requests: one
has written from its COMMIT on, to the team whose key it increments next, and has a
number once it is answered 2xx. `AnswersAreTrue` needs `SInv` besides, and the cache's
steps follow: a COMMIT for the team is a writer's commit, each attempt of its INCR one of
the invalidation, with the same retries left and the same stray INCRs on the way, and a step for
another team a stutter. `StalenessExplained` is then instantiated with the mapping, so
the bound on staleness is proved of the stepwise service.

Cache. `CInv` says that every live page, and every page being built from COUNT on,
contains each write whose invalidation number (`slot`) is at most the version its filler
began under (`since`): INCR follows COMMIT and `slot` is the number it gave first, so whoever
reads version v reads tables that hold every write numbered up to v, and INCRs that are
repeated or late only raise v. An answered lister either built the page itself
(`since` is the version it started with) or found it under the key of that version; in
the second case only a race or a degraded read lets `since` be older. For the end of staleness,
`StaleFills` are the listers that are building a page without some write and `StaleKeys` the
entries without one: while nothing is written and Redis does not crash, the first set only
shrinks, and the second grows only by what leaves the first. The types of `RInv` are all
this needs.

Teams. `TInv` carries the inviter's entitlement from GetMemberRole to the INSERT, and says
that at most one request is about to mail, or has mailed, the member of a row. `Asked`
adds that a request that still has to mail finds the row as it asked for it, from which
the truth of the answers follows (`AnswersAreTrue` of `TeamServiceProofs`, for invitations
what that of TaskApi is for tasks). `GrantsComeFromOwner` is about the table only: an
admin can be made by an owner alone, and a row keeps its inviter, so the chain of inviters
of a member is at most two long and ends at the owner.

Crashes of Redis. `RInv` keeps the types of what is on disk, which once was in memory, and
`CInv` as long as no crash has been counted.

Accounts. `AInv` says that a row, once inserted, stays as it is and that no two collate alike
(`Distinct`). So the id a request holds across calls still names the row it inserted, and a
lookup by collation can find one account only: the one a right login was made for
(`Knows`). Tokens last TTL from a login of their user, and the last login is later still
(`TokensAreFresh`).

Reports. Every write of the reports' histories is a write of the ledger
(ReportsReadTheLedger), so the ledger theorems hold when they read. `TrailTells` adds that a
task was created by the first entry of its trail, and that a status other than the present
one is behind a later entry. For the ranking, `ROW_NUMBER` is the number of users placed
before; that the places of a finite set are taken once each, without gap, is a lemma about
finite sets. The third report is proved of the member table and of what would be left of it without one
row (`ForeignAssigneesAreReportedHolds`): assignees being members, the tasks
it lists then are those of the member whose row is gone.

Pages. `PagesInv` follows a walk: of the rows of its first page, all whose place is before the
next page have been shown (`ShownSoFar`), because a row that comes can only push others
further back; and as long as COUNT and SELECT agree the page before has
announced this one (`PageWasAnnounced`). Pages up to `MaxInt \div size` are those whose end an
int can count: there the offset does not wrap, for any width and any size.

Lifecycle. `LInv`: only the process with the lock, at `create`, changes the schema; the version
row is dirty all that while; and whoever is past `m.Up()` came by a clean row, which no step
makes dirty again; where the lock is that of a dead process' session, the row is dirty and stays
so. The same invariant shows that an interrupted migration stays so for
ever: the bad outcome that `ComesUp` has to allow is final. `StartInv` says what it takes to get there:
a process that has the lock is at `up` or `create` (`LockIsUsed`), and as long as there was no
fault no server is down, no session outlives its process, nobody is told to stop, and who is
past GET_LOCK has the lock (`Undisturbed`); so the only exits without a fault are of processes that do not run the
migration, those that waited for the lock in vain.

Rate limiter. `GInv` bounds a sum that every run of the script leaves as it is, what a key
holds plus what it was granted in a window: by a full bucket and the refill of the
window's time from above (`NotTooMuch`), and by the refill since the window began, capped by
the bucket, from below (`NotTooLittle`). The lower bound speaks of the time stored in
the bucket: with the clock in its place a clock set back would break it. The bounds
`MaxClock` and `MaxTravel` may have any value.

Breaker. `BreakerInv`: while it is open, each call in flight is at least as old as the open
state, so when that expires the last of them has timed out and a half-open breaker has
none but its own trials, at most as many as it has counted. That is where `OpenForAssumption`
is needed. For `OpensOnBurst`, `Counted` says that what a closed breaker has counted is no more than
what failed since its generation began, which is `Interval` ago at most; a set of
(tick, n-th failure) pairs stands for the failures, and grows or is shifted injectively. `Room`
compares what a half-open breaker has let through with what has come back: if it
refuses, the difference is not empty, and is a call that the HTTP timeout ends.

Pool. `PoolInv`: a handler has a connection exactly while it is at a statement or in a
transaction, and who holds a row has locked it in the transaction it is still in, past both waits.
`SomebodyProceeds` follows by counting: if everybody waited, connections would all be taken, by
handlers that wait for rows, whose holders are past both waits.

Only model-checked: the liveness properties, and `LockHolderProceeds`, which speaks of ENABLED and
of whose guards `HoldersNeverWaitHolds` proves what it needs of the state. Fairness is out of the
prover's reach; the part of each argument that is about states and steps is proved:

| Liveness (TLC) | Proved part |
|---|---|
| EveryRequestAnswered | RequestsAdvanceHolds, LocksEndWithTransactions: steps only go forward, and a row lock is held by a request that waits for nothing |
| ConvergesAfterCrash | StalenessDiesHolds: no stale page is made anew; entries run out by their TTL |
| Recovers | FullBreakerIsTryingHolds: who is refused by a half-open breaker has a trial to wait for |
| EveryRequestEnds | SomebodyProceedsHolds: no circular wait |
| ComesUp | OnlyFaultsInterruptHolds, InterruptedForEver: the exception for a dirty migration needs a fault and is final |
| SignalsAreObeyed | none: each stage's exit on a signal is a guard of the model, and what is left is fairness |

Every other property of a passing run is the statement of a theorem, or a conjunct of one.
`InvalidationTakesEffect` is false.

## 5. What the models leave out

* One MySQL and one clock that never runs backwards. Instances with skewed clocks, or
  a clock set back, would break HistoryTimeOrdered; the code assumes neither happens.
  (Redis' clock may be set back: `RateLimiter`.)
* Deadlock detection and lock wait timeouts of InnoDB appear as `Fail`. Each
  transaction locks a single task row, so no cycle of waits can arise among updates.
* Rows deleted by hand, except that the third report is checked against a member table from
  which one row is missing. No statement of the program deletes or changes users, teams,
  members or history; `ON DELETE` clauses are not modelled.
* Texts are opaque: trimming, truncation, lower case and collation are functions given as
  constants. Passwords are equal or not; signatures are not modelled.
* Decoding of JSON, ids and query parameters, the encoding of answers, and the metrics,
  which count and decide nothing. A `REDIS_DB` that is no number is ignored by
  `config.Load`; a number stands for it in no model.
* `WriteTimeout` and `ReadTimeout` of the HTTP server: a client that is cut off is a client
  that hangs up, which is `Fail`.
* Buckets lost with a crash of Redis start full, as new ones do.
* A POST that is retried after a lost answer creates a second task: the API has no
  idempotency key and promises nothing here.

## 6. Plan

Done: the modules of section 2 and the proofs of section 4, with the safety parts of the
liveness properties. What is left would need a prover for fairness: the liveness properties
themselves, from the proved parts and the fairness of section 3.
