# Formal model of fasti-kit

fasti-kit is a FastAPI starter kit: an API process, a background worker
process, PostgreSQL (a primary and a replica) and a Redis that holds the cache,
the token blocklist and the job queue. Most of its code is
wiring; what is hard is the small part where a request or a job makes promises
across several transactions and across two stores that do not commit together.
This directory models that part in TLA+, checks it with TLC on small instances,
and proves with TLAPS what matters most for every instance.

Source paths below are relative to the repository's root (`src/` in
`PROJECT.json`).

## 1. Inventory

| Component | Code | State | Operations |
|---|---|---|---|
| Transactional outbox and relay | `core/outbox/` | `outbox_events` rows (`created_at`, `attempts`, `dispatched_at`, `failed_at`), row locks of open batches, the relay's heartbeat key | `stage_add`, `dispatch_pending`, `cleanup_dispatched`, `oldest_pending_age`, `relay_loop` |
| Job queue and worker lifecycle | `core/queue.py`, `core/worker/` | SAQ jobs in Redis (status, attempts, key) | `enqueue_task`, startup and shutdown hooks, mail task, three nightly clean-up tasks |
| Dead-letter queue | `core/dead_letter/` | `dead_letter_jobs` rows (`retried_at`) | `record_dead_letter` hook, list, get, retry, delete, purge, `cleanup_dead_letter_task` |
| Refresh sessions | `auth/repositories/refresh_session_repository.py`, `AuthService.login/refresh/logout/close_account/reset_password` | `refresh_sessions` rows (generation, `rotated_at`, `revoked_at`, `expires_at`), the clients' cookies | create, rotate, get, revoke, revoke all, purge |
| One-time account links | `AuthService.verify_email/resend_verification/forgot_password/reset_password`, `account_repository.py` | `pending_*_jti` of the user, `revoked_tokens` rows, outbox rows | start and finish verification, start and finish a reset |
| Revoked tokens and Redis blocklist | `auth/blocklist.py`, `auth/dependencies.py`, `revoked_token_repository.py` | `revoked_tokens`, the Redis keys `jti:*`, `ready`, `seeding` | revoke, lookup with fallback, claim_seeding, seed, purge |
| Users | `user/`, `scripts/seed.py` | `users` rows and their unique index | register (with its link and its outbox row), update, deactivate, read through the cache; seed |
| Database routing session | `core/database.py` | the request's `force_primary` flag, the session's pending work | `get_bind`, the flush listener, failover, `transaction` |
| Migration lock and start-up | `core/migration_lock.py`, `alembic/env.py`, `entrypoint.sh`, the lifespan of `main.py` | a PostgreSQL advisory lock, the revision in `alembic_version`, the transaction of alembic's connection | lock, migrate, unlock, check, serve |
| Tagged response cache | `core/cache.py` | cache entries and tag sets in Redis, each with a ttl | cache-aside read, `invalidate_tags` |
| Health probes | `core/health.py` | none of their own | probes of the others' state |
| Scaffolding | `scripts/create_*.py`, `scripts/_boilerplate.py` | files of the repository | create and register a domain |
| HTTP shell, mail, settings, logging | `main.py`, `core/*` | none the others depend on | wiring and I/O |

How they interact:

- A business transaction (registration, a verification or reset request, a
  dead-letter retry) writes its own rows **and** an outbox row in one
  `transaction()`; nothing else enqueues a mail.
- Every worker process runs one `relay_loop`. It reads outbox rows from
  PostgreSQL under `FOR UPDATE SKIP LOCKED` and calls `enqueue_task` (Redis) for
  each of them inside that transaction, with the key `outbox:<id>`; one commit
  settles the batch.
- SAQ runs the job. After every attempt it calls the `after_process` hook, which
  writes a `dead_letter_jobs` row for a terminal failure. An admin's retry turns
  that row into a new outbox row.
- Every API container migrates the database before it serves; containers of one
  deployment, and of an old and a new image, meet at the advisory lock and at
  the revision.
- Registrations, changes of address and the seed script meet at the unique index
  of `users.email`, and nowhere else: none of them looks before it writes.
- A login creates a session row and hands out a cookie with the session's id and
  generation; refresh, logout, password reset and account closing all meet on
  that row, each in its own transaction; a reset and a closing update `users` first
  and the sessions last, and a login waits for neither.
- Logout and closing write to the Redis blocklist first and to `revoked_tokens`
  second; every authenticated request reads the first and falls back to the
  second.

What is hard, and what makes each component correct:

| Component | Hard behaviour | Correct means |
|---|---|---|
| Outbox | two relays polling at once; Redis accepted what PostgreSQL then rolled back; an answer that is lost; rows that fail over and over ahead of others; a Redis restart | a row is claimed by one batch at a time; a duplicate needs a fault; a dispatched row stands for a real job; every row is settled; the task eventually runs |
| Dead-letter queue | concurrent retry, delete and purge of a row; a claim whose transaction rolls back; the hook failing after the job ended; an answer computed from a read made later | one event per retried row; true answers; no failure disappears by itself; only terminal failures are recorded; every task ends |
| Refresh sessions | tabs that race; a decision taken on a row read, or by a clock taken, an await ago; a reset or a closing between two steps, and a login between its UPDATE and its COMMIT; the boundary of the expiry | one successor per generation; reuse only if superseded; an ended session stays ended; a reset reaches every session committed before its UPDATE; a closed account stops rotating |
| Account links | superseding a link between the comparison and the burning of its jti; a purge of burned jtis racing a slow request | a link works at most once, and only the latest one |
| Blocklist | a flush or a crash between seeding and `ready`; one of the two writes of a logout failing | `ready` implies that every live revocation is in Redis |
| Routing session | a failover whose rollback meets pending work; a read after a write | no write is lost by a failover; a request reads its own writes |
| Cache | a fill that overlaps an invalidation; a tag set that expires before its members | after an invalidation no older value is served longer than documented |
| Scaffolding | commands that are interrupted, repeated, or follow a formatter that rearranged what they wrote | what create-all has reported stays wired; nothing half-made is ever mounted; a domain can be imported again once everything begun in it is finished; a second run changes nothing |
| Migration and start-up | the body raising, the process or its client dying while the session lock is held; an image older than the schema; a lock query that leaves a transaction open | one migration at a time, commit included; nobody serves on a schema older than its code; the newest image comes up in the end |
| Users | three writes of one registration; requests that wait for each other's uncommitted index entries, also in a circle; a seed script that resets rows in use | no account without its link and mail, no mail without an account; no address with two accounts; nobody waits for ever |

`PROJECT.json` lists the individual hazards with their source lines.

## 2. Plan

In this order; all but 11 exist.

1. `TaskDelivery`: the abstract promise of the outbox.
2. `OutboxRelay`: the detailed outbox; implements 1. `OutboxRelay_proofs`: its
   invariants and the refinement, for all constants.
3. `DeadLetter`: composes with 1 (not with 2: the refinement is what allows it).
   `DeadLetter_proofs`: its safety properties, for all constants.
4. `RefreshSession`: sessions of one account. `RefreshSession_proofs`: its safety
   properties, for all constants.
5. `AccountLinks`: one-time links of one account. `AccountLinks_proofs`: its safety
   properties, for all constants.
6. `TokenBlocklist`: the Redis copy of `revoked_tokens`. `Redis_proofs`: its safety
   properties, for all constants. Still to come: an abstract specification, a set of
   revoked tokens that only grows until they expire, which the lookup with its
   fallback implements as long as Redis loses nothing at a bad moment.
7. `TagCache`: fills against invalidations, ttl of entries and of tag sets.
   `Redis_proofs`: its safety properties, for all constants.
8. `RoutingSession`: reads, pins and failover of database sessions.
   `Database_proofs`: its safety properties, for all constants.
9. `Scaffold`: the create-* commands, interrupted and repeated. `Scaffold_proofs`:
   its safety properties, for all constants.
10. `Deployment`: containers that migrate and start. `Database_proofs`: its safety
    properties, for all constants.
11. `HealthProbe`, still to come: the relay's heartbeat and backlog age, on top of 2.
12. `Accounts`: the users table, composed with 1. `Accounts_proofs`: its safety
    properties, for all constants.

## 3. What is modelled

### TaskDelivery

State: for every event whether its task is owed, kept or abandoned (`promise`),
and which tasks reached the queue (`handed`). `Promise`, `HandOver` and `Resolve`
are all that may happen; in particular a task is kept only after it was handed
over, is handed over only while owed, and neither end is ever revised. It has no
counterpart line by line: it states what `core/outbox` is for.

### OutboxRelay

One record of variables per row, per relay and per job.

| Model | Code |
|---|---|
| `status`, `created`, `attempts` | the committed columns of an `outbox_events` row; `pending` is `dispatched_at` and `failed_at` both null |
| `held[r]`, `outcome[r]` | the rows locked by the open transaction of relay `r`, and its uncommitted updates |
| `job`, `accepted`, `ran`, `lost` | the keyed job in SAQ, and what happened to it (the last three are history) |
| `StageAdd`, `FinishTransaction` | `OutboxRepository.stage_add` and the end of the caller's `transaction()`; `created_at` is taken at the former, so rows may become visible out of order |
| `Select` | the `SELECT … ORDER BY created_at LIMIT … FOR UPDATE SKIP LOCKED` of `dispatch_pending` |
| `Send`, `SendFails`, `SendAnswerLost` | one iteration of its `for` loop; `enqueue_task` returns, raises, or raises after Redis executed it |
| `Commit`, `RollBack` | the single commit of the batch, and everything that prevents it (crash, cancellation at shutdown, PostgreSQL) |
| `CleanupDispatched` | `cleanup_dispatched`; how old rows are is left open |
| `RunJob`, `LoseJob` | external: a worker finishes the job; Redis restarts without its last second |

`Enqueue` models SAQ's keyed enqueue as `core/queue.py` relies on it: a no-op
while a job with that key is incomplete, a new job afterwards.

### DeadLetter

The life of a task from the moment it is owed. The outbox is
`INSTANCE TaskDelivery` over the module's own `promise` and `handed`; every
handover may create a job (`HandOver`) or find one incomplete. Jobs follow
SAQ's life cycle (`Start`, `Complete`, `Fail`, `Abort`, `WorkerDies`, `Sweep`),
the part of it outside the repository is mapped as external. `due` holds the
hooks that still have to run, with the status **their** job object carries: the
hook decides on that, not on what the queue says by then. `HookRecords` and
`HookFails` are the two outcomes of `record_dead_letter`; the latter includes
its `except` that logs and returns.

The admin API is modelled statement by statement, because its answers are made
in a later transaction than its decision: `Receive`, then `RetryClaims`
(`UPDATE … WHERE retried_at IS NULL RETURNING`, which takes the row lock),
`RetryCommits` or `RetryRollsBack`, `RetryExplains` (404 or 409), and
`DeleteLooks`, `DeleteRemoves`. `claim` is the row lock. `PurgeBefore` and
`PurgeRetried` are the two forms of `purge`; the second is also the nightly task.

### RefreshSession

The sessions of one verified account, the cookies its clients have, and the
requests in progress. A handler is a program counter plus what it has read:
`LoginReads`/`LoginCreates`, and
`RefreshStarts` → `Rotates`, or `RotateMisses` → `Inspects` → `RevokesReused`.
A repository call with one statement on these tables is one step; everything may
happen between two. `rotate` and the purge take their clock before they await the
statement that compares with it: `Rotates`, `RotateMisses` and `PurgeExpired` choose
it among the times since the request's last read. `Deliver` lets the response with
the new cookie be lost. `Abandons` is a client that hangs up, a statement that fails
or a server that dies.

`reset_password` and `close_account` are READ COMMITTED transactions of several
statements: `StagesUser` (`UPDATE users`, which holds the user's row against other
resets and closings, but not against the INSERT of a login), `SweepsSessions`
(`UPDATE refresh_sessions`, which reaches the rows that are committed when it
begins) and `CommitsEnding`. Between the last two the rows reached are `Locked`:
rotation, revocation, logout and purge wait for the COMMIT and test their WHERE
clause on what it left; a login inserts a row that this sweep does not reach. The
history variables number the sweeps and remember when a session was created (`era`),
which sweep was committed last (`swept`), and what the closing found (`closed`,
`final`).

Only the columns of the session table and `users.is_active` / `password_hash` are
here; the tokens the same transactions revoke belong to `TokenBlocklist`, the link
they burn to `AccountLinks`.

### AccountLinks

The verification and reset links of one account. `pending` holds the two
`pending_*_jti` columns, `revoked` the rows of `revoked_tokens` that belong to
links. A request for a link is `RequestStarts` (the read, possibly of a replica)
and `Issues` (one transaction). Redeeming is `Opens` (the token decodes) →
`ChecksUsed` (`exists`) → `Compares` (with the pending jti) → `Redeems` or
`RedeemConflicts` (the unique jti). The user row and the burned jti are one
transaction, the three reads before it are not part of it. `effects` counts how
often a link changed the account. Registration is `Init`. A link presented at the
endpoint of the other kind is refused before anything is read and has no action.

### TokenBlocklist

`table` is `revoked_tokens`; `keys`, `ready` and `seeding` are the three kinds of
Redis key, `saved` what Redis has on disk. `Publishes`, `PublishFails` and
`Records` are `logout` and `close_account`. A check is `LooksUp` (one `MGET`), or,
without READY or without Redis, `AsksTable` → `Claims` → `Lists` → `FillsCopy` →
`SetsReady`; each of these awaits, and the pipelines may fail halfway
(`PublishFails`, `FillFails`). The lock of the seeder may expire under it
(`SeedingExpires`). `RedisLoses` is a flush or a restart from `saved`; `torn`
records the keys lost at a moment when nothing would put them back: below a
READY that survived, after the listing of a seeder, or between the two writes of
a logout.

### TagCache

`entry` and `tagSet` are the two kinds of Redis key, each with what is left of its
ttl. A call of a cached function is `Misses` → `Computes` → `Fills`: the lookup,
the reading of the data and the one pipeline that stores the result and lists its
key under each tag; everything may happen between two of them, and `Abandons`
stands for an exception or a crash. A hit changes nothing. `invalidate_tags` is
`Begins`, one `ReadsTag` per tag, and `Deletes`, the pipeline that removes what was
found together with the tag sets. A result is represented by its age: how many
invalidations had begun when it was computed. `raced` marks a call that was under
way when an invalidation read one of its tags, or began after that.

### RoutingSession

The database sessions of one request or job, one after the other. `primary` and
`replica` are the committed writes on either side, `pinned` is
`force_primary_var`, `pending` and `sent` are the session's work before and after
a flush. `Opens` and `Closes` are `db_session` (which resets the pin) or
`AsyncSessionLocal` used directly (which does not), `Reads` is a read whose target
`get_bind` chooses, `FailsOver` a read repeated by `_with_failover`, `Pins` and
`Peeks` the two ways repositories set the flag, for good or for one read. `Adds`,
`Flushes`, `Executes`, `Commits` and `RollsBack` are the unit of work and
`transaction`; the answer of a commit may be lost. `Replicates` is the lag: any
committed write may arrive at any time, in any order. `made` records what the code
has reason to believe it has written, `missed` what its last read should have
shown and did not.

### Scaffold

A command is the list of the writes it still has to make (`todo`), in the order of
`generate_all` and `generate_domain`, and every write is an action that first looks
at what is there, as `write_new_file`, `update_init` and the `register_*` functions
do. `Interrupted` ends a command between two of them. Which modules, exports,
factories and model imports exist are sets; only `core/api_versions.py` is modelled
as the statements it is made of, because `register_router` edits it by lines and
ruff merges, sorts and wraps them afterwards (`Sorted`, `LastIsWrapped`). `Sorted`
says at which place a domain's import ends up: at the number of domains with imports
that ruff puts no later (`Rank`). A file is
written whole or not at all, ruff is installed, and nobody edits files by hand.

What importing a module takes is stated separately from what create-all makes.
`Complete(e)` says that the parts of `e` are there. Importing any module of a domain
runs the `__init__` of its package, which imports every entity that package exports,
and `dependencies.py` imports those that have factories: `Sound(e)` says that what is
imported of `e` finds what it imports (`Uses`, `Has`), and `HalfMade(d)` are the
entities of `d` for which that fails. One of them keeps all others of its domain, and
so the application, from being imported.

### Deployment

One start of a container is a program counter: `Boots`, then the statements of
`migration_lock` one by one (`TriesLock`, `GetsLock`, `CommitsLockQuery`, …,
`Unlocks`, `Finishes`), with `ReadsRevision` and `Upgrades` for the body,
`run_migrations`, and `Serves` for the lifespan's check. `schema` is the committed
revision, `began` says whether the connection is inside a transaction: alembic
commits only one it has begun itself, which is why the lock query has to be
committed first. An upgrade is one transaction for all missing revisions.
`Fails` is an exception anywhere (nothing catches it, `NullPool` closes the
connection and with it the lock, `set -e` ends the container), `CannotLocate` an
image that finds a revision it does not know, `Killed` a container whose backend
may live on until PostgreSQL notices (`Orphan`, `SessionEnds`). Every container is
restarted.

### Accounts

`email` is the committed column of `users`, `handler` the requests in progress:
`RegisterStarts` → `Inserts` → `CommitsAccount` and `PatchStarts` → `LocksRow` →
`WritesAddress` → `CommitsPatch`. An uncommitted row is seen by nobody, but its
index entry is felt: who wants an address waits for every transaction that may
still take it or release it (`Deciding`), then gets it or a `ConflictError`
(`Refuses`). `WaitsFor` and `DeadlockDetected` are PostgreSQL's. The outbox is
`INSTANCE TaskDelivery` with one event, the mail, per account. The seed script
commits after each row, so each is an action (`SeedResets`, `SeedCounts`,
`SeedAddsAdmin`, `SeedAddsUser`, `SeedVerifies`), and it may stop between any two.
`Verifies` stands for `AccountLinks`.

## 4. The runs

`tlc -config <cfg> <module>`; sizes are distinct states.

| Run | Constants that matter | What it shows |
|---|---|---|
| `outbox_relay` (25 600) | 2 rows, 2 relays, batches of 2, 2 attempts, 1 fault, 1 lost job, fairness | `DuplicatesNeedAFault`, `DispatchedIsAccountedFor`, `KeepsThePromise` (OutboxRelay implements TaskDelivery), `EventuallyRun` |
| `dead_letter` (134 000) | 1 task and its retry, 2 requests, 2 tries per job, 1 fault, fairness | `OneEventPerRetry`, `AnswersAreTrue`, `NoFailureVanishes`, `OnlyDeadJobsAreRecorded`, `EveryTaskEnds` |
| `refresh_sessions` (1 810 000, symmetric) | 1 session, 3 requests, 2 rotations, 2 resets or closings, clock to 3, ttl 2, grace 1 | `OneRotationPerGeneration`, `ReuseMeansSuperseded`, `ResetReachesEverySession`, `EndedSessionsStayEnded`, `ClosedAccountStopsRotating` |
| `links_redeem` (384 000, symmetric) | 3 links, 2 requests, resets live 1 tick, verifications 2, clock to 3 | `UsedOnceWhileValid`, `SupersededLinksFail` |
| `blocklist_copy` (689 000, symmetric) | 1 token, 3 requests, 2 losses | `ReadyIsComplete`, `LogoutIsSeen` |
| `routing_session` (920, symmetric) | 3 writes | `ReadYourWrites`, `FailoverDropsNothing` |
| `tag_cache` (811 000, symmetric) | 2 keys that share one of 2 tags, same ttl 2, 2 calls and 2 invalidations at a time, 2 invalidations | `InvalidatedStaysGone` |
| `tag_cache_lives` (violation) | the two keys live 2 and 1 | an entry outlives the invalidation of its tag |
| `scaffold` (1 225 000) | 3 entities in 2 domains, one sorted before and one after the project's own, imports of two names are wrapped, 2 layers | `FinishedIsWired`, `MountedIsComplete`, `SecondRunChangesNothing` |
| `scaffold_wrapped` (violation) | 2 entities in the domain sorted last | the next create-all writes into the wrapped import |
| `deployment` (29 200) | 1 container of an old image, 2 of a new one, 3 failures or kills, fairness | `OneMigratesAtATime`, `ServesMigrated`, `NewestServe` |
| `accounts` (106 300) | 2 accounts, 3 addresses, 2 requests beside the seed script, fairness | `NobodyIsStranded`, `OneOwner`, `EveryRequestEnds` |

Each passing run's type invariant is checked once per module. Every property of
a passing run has a mutant in `PROJECT.json`: a changed guard or update that a
plausible bug would make, under which TLC finds that property violated.

**Bounds.** Constants named *bound* in the modules do not exist in the code; they
cut off counters.

- Outbox: two relays are the least that can collide, and a third adds no kind of
  conflict, because a lock has one holder. Two rows are the least for a row that
  fails in front of another one, and each relay may hold one of them (a row staged
  after the first relay's `SELECT`) or one relay both. The proofs of section 6
  remove these bounds from everything but the two liveness properties.
  A batch of two holds rows with different outcomes; it takes every row there is, so
  the LIMIT does not bind. With `BatchSize = 1` in the same configuration it does, one
  relay is left with the newer row while the older one fails, and all properties hold
  as well (15 700 states).
  `MaxAttempts = 2` has an attempt that parks and one that does not. One fault is
  enough for a duplicate, one lost job for a task that is not run.
- Dead letters: two requests are a retry and another retry or a delete of the same
  row, with the purges as the third writer; a rolled-back retry lets the other one
  through. The retry's own job may fail and leave a row that is retried in turn, as
  far as the claim. `MaxRetries = 2` has a failure that is repeated and one that is
  final. `MaxJobs = 1` leaves out the second job the queue creates when an event is
  handed over again after its first job ended; the proofs hold for any number.
- Deployment: two containers of one image race for the lock, the older one finds a
  schema it does not know. Three faults are one for each container, or a kill during
  the recovery from two others. The proofs hold for any number of all of them.
- Accounts: two requests are the least that can wait for each other; three addresses
  are the administrator's and two that accounts may exchange. The seed script adds a
  third writer. The proofs hold for any number of accounts and requests.
- Sessions: `MaxGen = 2` is the least for a cookie two generations behind, three
  requests the least for one that loses to two others. The clock passes the
  grace period and the expiry of a session, also of one created late. Two sweeps are
  a reset and a closing that overlap, or one of either that was rolled back or
  repeated. With one session a row is all that the requests share; that the
  transactions that end several rows at once couple them (`Locked`, `Waits`) is left
  to the proofs of section 6, which need none of these bounds.
- Links: two requests race on one link, or one redeems while the other supersedes;
  three links allow a superseded one of either kind and one still to be issued.
- Blocklist: three requests are two seeders and a logout. One loss breaks a copy,
  the second one happens while it is being rebuilt. One token is enough because
  every step acts on each token for itself (a pipeline that fails halfway sets any
  subset of its keys), and the three flags are shared. The proofs need neither bound
  nor argument.
- Routing: three writes are one committed, one sent and one pending; the proofs
  hold for any number.
- Scaffold: two entities of one domain make ruff merge and (`Fits = 1`) wrap their
  import, which is harmless there because the project's own domain sorts after
  theirs; the third entity, alone in a domain that sorts last, has its import
  appended and recognised. Two of the six layers, the first and the last, are
  enough because the others are written and exported in the same way. Commands are
  not bounded: the sets they fill are. The proofs hold for any entities, domains and
  layers, and say what the condition on the imports is (`TailFits`).
- Cache: two keys that share one tag, one of which has a second tag, are the least
  for an invalidation that reads one set after another and for a tag set that two
  functions extend. Two calls and two invalidations overlap in every way; the
  proofs hold for any number, and for all keys, tags and ttls with `SameLife`.

**Symmetry** is used in safety runs only, over ids that are compared for equality
and nothing else.

**Deadlock.** `CHECK_DEADLOCK FALSE` everywhere: with finitely many ids the
models come to rest once every row is settled, every request is answered or the
clock is at its bound. That nothing gets stuck before is what the liveness
properties say.

## 5. Fairness

- `OutboxRelay`: weak fairness of each relay's `RelayStep`, since `relay_loop`
  is `while True` with a sleep and survives every `Exception`; a relay that was
  killed is the loop of the restarted worker. Weak fairness of `RunJob`:
  workers take queued jobs. Nothing is assumed of producers, of the clean-up, or
  of the success of an enqueue: a row settles when every single enqueue fails,
  which is what parking is for, and `EventuallyRun` excepts the rows that are parked.
- `DeadLetter`: weak fairness of `HandOver` and `Settle` of each event.
  `OutboxRelay` justifies the second (`EventuallyRun`), and the first as far
  as a handover is attempted; an event may still be abandoned. Weak fairness of
  `WorkerNext` per job: workers dequeue, a task function ends or hits SAQ's job
  timeout, the hook runs in SAQ's `finally`, and SAQ's upkeep sweeps stuck jobs.
  Admins and faults owe nothing.
- `Deployment`: weak fairness of each container's start: the containers are
  `restart: unless-stopped`. Strong fairness of `GetsLock`: PostgreSQL's lock queue
  is first come, first served, while a lock taken and freed by others in between
  would make the step disabled again and again. Weak fairness of `SessionEnds`.
  Failures and kills owe nothing; the number of them is bounded, as it is in any
  deployment that succeeds. An older image may crash and restart for ever, and
  `NewestServe` holds beside it.
- `Accounts`: strong fairness of a request's steps, for the same reason: row locks
  and index waits are granted in turn. Weak fairness of `DeadlockDetected`
  (`deadlock_timeout`). New requests, the seed script and failures owe nothing.
- `RefreshSession`, `AccountLinks`, `TokenBlocklist`, `TagCache`, `RoutingSession`
  and `Scaffold` have safety properties only.

## 6. What is proved

`OutboxRelay_proofs` proves, from `OutboxAssumption` (batch size and attempt
limit are positive naturals, the bounds are naturals) and for any sets of rows
and relays, also infinite ones:

| Theorem | Statement |
|---|---|
| `TypeCorrect` | `Spec => []TypeOK` |
| `ClaimsAreExclusive` | `Spec => []ExclusiveClaim` |
| `OneJobPerFault` | `Spec => []DuplicatesNeedAFault` |
| `NothingDispatchedIsForgotten` | `Spec => []DispatchedIsAccountedFor` |
| `ParkingIsFinal` | `Spec => ParkedIsFinal` |
| `RelayImplementsDelivery` | `Spec => KeepsThePromise` |

All rest on `Invariance`, `Spec => []IInv`. None of the properties is inductive:
`DuplicatesNeedAFault` would allow a pending row with one job, no fault and that
job done, from which the next poll makes a second one. `IInv` adds what the code
relies on without saying so:

- `OutcomeOfHeld`: uncommitted updates belong to locked rows;
- `AttemptsLeft`: a row that can still be selected has attempts left, so a
  committed failure parks it exactly at the limit;
- `JobWasAccepted`, `SentWasAccepted`: a job in the queue, a row marked as sent
  and a settled row each go back to a job the queue created;
- `JobsCounted`: the jobs of a row, beyond those a batch forgot, are at most the
  one of the batch that holds it as sent or that settled it.

There is one lemma per action or per group of actions that touch the same state
(`ProducerPreserves`, `SelectPreserves`, `SendPreserves`, `FailurePreserves`,
`CommitPreserves`, `RollBackPreserves`, `OthersPreserve`), and `NextPreserves`
puts them together. The refinement (`StepRefines`) maps the commit of a batch to
one `Resolve`, an enqueue to `HandOver` or, when the key is still queued, to a
stutter, and everything else but the producer's commit to a stutter. That the
kept rows of a batch were handed over before is `SentWasAccepted`.

`RefreshSession_proofs` proves, from `SessionAssumption` (ttl, grace period and
the bounds are naturals, the ttl is positive), for any sets of sessions and requests:

| Theorem | Statement |
|---|---|
| `TypeCorrect` | `Spec => []TypeOK` |
| `OneWinner` | `Spec => []OneRotationPerGeneration` |
| `NoRevocationWithoutReuse` | `Spec => []ReuseMeansSuperseded` |
| `OnlyYoungerSessionsOutliveAReset` | `Spec => []ResetReachesEverySession` |
| `EndedForGood` | `Spec => EndedSessionsStayEnded` |
| `ClosedAccountRunsDry` | `Spec => []ClosedAccountStopsRotating` |

Again all rest on `Invariance`. What the requests carry from one transaction to
the next is what makes the properties true, and `IInv` states it:

- `CookieOfSession`, `RefreshersHaveCookies`: a cookie belongs to a session that
  was created, and whoever refreshes holds one, so the generation it names is
  never ahead of the row's;
- `MissedForAReason`: between a rotation that matched no row and the read that
  follows it, the row can only have ended or moved on. `ReuseMeansSuperseded`
  depends on it: the code that inspects the row trusts that the miss and the read
  tell one story, although they are two statements;
- `SweepsAreNumbered`, `SweepsHoldTheirRows`: an open transaction that has run its
  UPDATE of `refresh_sessions` holds every live row that was committed before it.
  `ResetReachesEverySession` needs this, because what a COMMIT ends was decided some
  steps earlier;
- `ClosedMeansNoNewCookies`: a request that passed the check of the user before the
  account was closed carries no generation beyond the one that the closing found. The
  code never checks the user again after `rotate`, so such a request may still win a
  rotation of a session committed behind the closing's UPDATE; the cookie this yields
  is refused by the check of the user.

`EndedStayEnded` says that no step revives a session or moves its end,
`OnlyRotationsCount` that only `Rotates` changes a generation, `RotationsAreInTime`
that it does so by a clock before the end; `EndedForGood` follows from these and the
invariant.

`Redis_proofs` proves of `TagCache`, from `CacheAssumption` (every key has tags and a
positive ttl) and `SameLife` (functions that share a tag have the same ttl), for any
sets of keys, tags, calls and invalidations:

| Theorem | Statement |
|---|---|
| `CacheTypeCorrect` | `SameLife => (Spec => []TypeOK)` |
| `NoEntryIsOrphaned` | `SameLife => (Spec => []EntriesAreListed)` |
| `InvalidationClearsTheTag` | `SameLife => (Spec => []InvalidatedStaysGone)` |

`SameLife` is the condition under which the code does what `README.md:195` says; run
`tag_cache_lives` shows what happens without it, and nothing in the code enforces it.
What `CacheInv` adds is what an invalidation in progress knows:

- `OverlapsAreKnown`: every call on a tag that a sweep has read is marked `raced`;
- `SweptIsFound`: an entry that no overlapping call stored, listed under a tag the
  sweep has read, is among what the sweep will delete;
- `ResultsAreRecent`: a call that overlaps nothing computes or carries a result that
  no finished invalidation of its tags should have removed;
- `NumbersAreBegun`: an invalidation's number is one of those given out.

It proves of `TokenBlocklist`, from `BlocklistAssumption` (the bound on losses is a
natural), for any sets of tokens and requests, so for any number of seeders at once:

| Theorem | Statement |
|---|---|
| `BlocklistTypeCorrect` | `BlocklistSpec => []BlocklistTypeOK` |
| `ReadyVouches` | `BlocklistSpec => []ReadyIsComplete` |
| `LogoutIsFinal` | `BlocklistSpec => []LogoutIsSeen` |

`ReadyIsComplete` speaks of one moment; what makes it inductive (`BlocklistInv`) is
that whoever is about to act on an older reading still knows enough. *Covered* means:
in Redis, expired, or `torn`.

- `PublishedBeforeRecorded`: a logout that is about to write its rows has its keys in
  Redis. It is why a row committed after a seeder's listing needs nothing from that
  seeder, and why the order of the two writes in `logout` may not be turned round;
- `SeedersCover`: what the table has beyond a seeder's listing is covered while it
  fills, and the whole table once it is about to set READY. It does not mention the
  lock: `SEEDING_KEY` only saves work, and may expire under a slow seeder;
- `SavedCovers`: what the copy on disk lacks of the table, if it has READY, is covered
  now, so a restart loses only keys that Redis has, and `torn` counts those;
- `LogoutsAreRecorded`, `LateChecksKnow`: a token whose logout was answered has its
  row until it expires, and a check that began after that finds it clean only if its
  key was torn or it expired meanwhile.

`Database_proofs` proves of `RoutingSession`, for any set of writes:

| Theorem | Statement |
|---|---|
| `SessionTypeCorrect` | `SessionSpec => []SessionTypeOK` |
| `OwnWritesAreRead` | `SessionSpec => []ReadYourWrites` |
| `FailoverIsSafe` | `SessionSpec => []FailoverDropsNothing` |
| `ReadersAreNotPinned` | `SessionSpec => []PinsAreWanted` |

One fact carries all of it, `WritersArePinned`: who has sent or committed something
is pinned until the session ends. It is why the replica's lag does not matter, and
why a failover, which needs an unpinned session without pending work, rolls back
nothing.

`DeadLetter_proofs` proves, from `DeadLetterAssumption` (some events are not retries,
the limits are positive, `NoRun` and `Free` are nobody's names), for any sets of
events and requests:

| Theorem | Statement |
|---|---|
| `TypeCorrect` | `Spec => []TypeOK` |
| `RetryIsAtomic` | `Spec => []OneEventPerRetry` |
| `AnswersStayTrue` | `Spec => []AnswersAreTrue` |
| `RowsAreFailures` | `Spec => []OnlyDeadJobsAreRecorded` |
| `FailuresAreKept` | `Spec => []NoFailureVanishes` |
| `RowsNeverReturn` | `Spec => RowsOnlyMoveOn` |
| `OutboxIsRespected` | `Spec => Outbox!Spec` |

The invariant is about what travels between two statements:

- `RequestsKnow`: a request that claimed its row still holds the lock, and one that
  got no row and now asks why finds it retried or gone: that is why the 409 is true
  although it comes from a later read;
- `LockedRowsAreOpen`, `OriginsAreOwed`: a claim is on an unretried row, and an event
  that retries a row was committed with the claim, so it is never issued twice;
- `HooksAreDue`: a hook with a failure to record finds the job ended that way and no
  row. Retryable attempts queue hooks too, with a status that records nothing;
- `AttemptsLeft`: a queued job has attempts left, so none is tried too often.

`RowsOnlyMoveOn` says that rows go from open to retried to gone and never back, and that
a job that has a row never runs again; a hook that comes late finds no row to reopen
because of `HooksAreDue`. `OutboxIsRespected`, here and in `Accounts_proofs`, is what
puts the models on top of each other: `OutboxRelay` implements `TaskDelivery`, and the
modules that stand on it do to their promises only what `TaskDelivery` allows.

`WorkerPreserves` treats the ends of an attempt alike, `RowsGo` the three ways rows
disappear, `RequestMoves` the steps of a request that only read.

`AccountLinks_proofs` proves, from `LinksAssumption` (lifetimes are positive), for
any sets of links and requests:

| Theorem | Statement |
|---|---|
| `TypeCorrect` | `Spec => []TypeOK` |
| `LinksAreSingleUse` | `Spec => []UsedOnceWhileValid` |
| `OldLinksAreDead` | `Spec => []SupersededLinksFail` |

`LinksAreNumbered` and `PendingIsNewest` carry the second: the pending link has the
highest number of its kind, so a comparison that succeeds can only be overtaken by
links issued after the request came (`RequestsHaveLinks`). `IssuedBeforeUse` is what
the first needs when a link comes to be.

`Database_proofs` proves of `Deployment`, from `DeploymentAssumption` (every image
knows a revision), for any set of containers and images:

| Theorem | Statement |
|---|---|
| `MigrationTypeCorrect` | `Spec => []TypeOK` |
| `MigrationsAreExclusive` | `Spec => []OneMigratesAtATime` |
| `ServersAreMigrated` | `Spec => []ServesMigrated` |
| `SchemaOnlyGrows` | `Spec => [][schema' >= schema]_vars` |

- `HolderIsInside`: the session that has the lock is exactly the one between lock and
  unlock, through failures, kills and lost backends;
- `BeganToLock`: the transaction of the lock query is over before alembic begins its
  own. Without it the upgrade would commit only after the unlock;
- `DoneMeansMigrated`: whoever is through with alembic has left a schema that is new
  enough, also if a newer image migrates next.

`Accounts_proofs` proves, from `AccountsAssumption` (`None` and `Null` are no
addresses), for any sets of accounts, addresses and requests:

| Theorem | Statement |
|---|---|
| `TypeCorrect` | `Spec => []TypeOK` |
| `SignupIsAtomic` | `Spec => []NobodyIsStranded` |
| `AddressesAreUnique` | `Spec => []OneOwner` |
| `OutboxIsRespected` | `Spec => Outbox!Spec` |

- `IdsAreGivenOut`, `RegistrationsAreNew`: an id is registered by one request, and
  nothing of it is committed before its account;
- `RowsAreLocked`: a row that a request has updated is locked by nobody else and does
  not disappear (also not by `--reset`, which waits for it);
- `EntriesAreUnique`: an uncommitted index entry is for an address that no other row
  and no other uncommitted entry has. `OneOwner` is about committed rows only and is
  not inductive without it.

`Scaffold_proofs` proves, from `ScaffoldAssumption` (finitely many entities, one of
which the project comes with; `Order` lists every domain once), for any entities,
domains and layers:

| Theorem | Statement |
|---|---|
| `TypeCorrect` | `Spec => []TypeOK` |
| `MountedFailsByUnmounted` | `Spec => []MountedIsComplete` |
| `FinishedStaysMounted` | `Spec => []FinishedIsMounted` |
| `FinishedStaysWired` | `ASSUME TailFits PROVE Spec => []FinishedIsWired` |
| `RepeatingChangesNothing` | `ASSUME TailFits PROVE Spec => []SecondRunChangesNothing` |

The first three hold for imports of any length. `InProgress` says that a command in
progress is at some place of its list and that every step before that place is done,
and stays done, for its entity; `InOrder` says, for each step of each command, which
earlier step it builds on (`AllStepsAreInOrder`, for any number of layers). Together
they give the type invariant (no export of a module that was not written),
`MountedIsComplete` (`register_router` comes after everything of its own that the
router imports) and `FinishedIsMounted`, the part of `FinishedIsWired` that holds also
in a file that no longer parses: the lines and files of a finished entity, and of the
one the project came with, never go away. What the theorems say of importing rests on
`CompleteIsSound`: an entity with all its parts keeps no other from being imported, so
whatever does is not mounted, and there is no such entity where everything begun has
been seen through (`SeenThroughIsImportable`).

`TailFits` is the condition that separates the runs `scaffold`, where it holds, and
`scaffold_wrapped`, where it does not: the domains from the project's own to the last
in ruff's order have no more entities than fit on one import line. Only those can be
the last import, because the project's own is always there:

- `ImportsFit`: the last import is on one line, so `register_router` has never written
  into one; every name is imported from its own domain. After ruff it follows from
  where `Sorted` puts the last import (`SortedIsMerged`, on `RanksAreOneToOne`);
- `RepeatKeeps`: while a repeated command runs, the project differs from what it was
  in at most one import line, and only between `register_router`, which does not
  recognise a line that ruff has merged, and `format_paths`, which merges it again
  (`Duplicated`, `AgainMakesNoDifference`).

A `create-all` is a repetition if its entity was reported before and no command since
has been interrupted between `register_router` and ruff (the guard in `CreateAll`).

Proved but not among the runs' properties: `ExclusiveClaim`, `ParkedIsFinal`,
`EntriesAreListed`, `PinsAreWanted`, `schema' >= schema` and the two
`OutboxIsRespected`, which follow from how few places write the state they speak of;
`RowsOnlyMoveOn`; and `FinishedIsMounted`, which `FinishedIsWired` includes.

Only model-checked: liveness (`EventuallyRun`, `EveryTaskEnds`, `NewestServe`,
`EveryRequestEnds`), because fairness and ENABLED are outside the prover's reach. Every
other property of a passing run is one of the theorems above.

## 7. Where code and documents disagree

- `README.md:195` says `invalidate_tags(...)` "clears everything under a tag at
  once", `core/cache.py:94` that it "wipes all cache keys associated with the
  provided tags". Storing an entry gives each of its tag sets the ttl of that entry,
  also when the set had more left (`core/cache.py:82`). If a function with a shorter
  ttl shares the tag, the set expires before entries it lists, and an invalidation
  after that leaves them. Run `tag_cache_lives`.

- `scripts/create_all.py:37` says create-all wires the entity into the app,
  `README.md:298` that a second run changes nothing. `register_router` inserts the
  new import after the line on which the last import **starts**
  (`scripts/_boilerplate.py:311`). Once ruff has wrapped that import (three or four
  routers of a domain that sorts after `user`, or of `user` itself), the line lands
  inside its parentheses: `core/api_versions.py` no longer parses, ruff cannot
  repair it, and create-all reports success. Repeating a command does it too, since
  a line merged by ruff is not recognised as present. Run `scaffold_wrapped`.

Not run, but worth knowing:

- `tests/test_auth_flows.py:3-5` speaks of "the single-use guarantee on the token".
  It holds while the link is valid (`UsedOnceWhileValid`). Once the link has expired,
  `exists` ignores its row and the purge deletes it, and a request that had decoded
  the link in time can redeem it again. It takes a request that is under way while
  the nightly purge runs.
- The seed script adds the administrator in one commit and gives it its scopes in the
  next (`scripts/seed.py:56-68`). Interrupted in between, it leaves an administrator
  without scopes, and a second run with `--force` finds the address in use, skips it
  and still reports that it seeded an admin (`:84`).
- The seed script counts users on a replica. One that lags may show an empty table,
  and a run without `--force` then adds to a populated one, which
  `tests/test_seed.py:66` says it refuses.
- `PATCH /users/me` with `{"email": null}` passes validation, violates the NOT NULL
  of the column and is answered with 409 "Email already in use"
  (`user/repositories/user_repository.py:142-150`). A change of address leaves
  `is_verified` set.
- A container of an older image that restarts after a newer one has migrated cannot
  locate the revision and restarts for ever; nothing but the deployment order
  prevents it.
- The comment in `core/migration_lock.py` says that without the early commit
  migrations would be rolled back. The commit after the unlock (`:37`) would commit
  them; what would be lost is the exclusion (`OneMigratesAtATime`), since the lock is
  free by then.
- With the default settings a row is parked after 10 attempts 5 seconds apart, before
  `outbox_max_lag_seconds` (60) could report it.

- `README.md:184` says a side effect is "delivered at-least-once", while a row that
  failed `outbox_max_attempts` enqueues gets `failed_at` (`core/outbox/relay.py:51`)
  and is never looked at again. TaskDelivery calls this *abandoned*.
- `README.md:78` says that jobs that exhaust their retries land in
  `dead_letter_jobs`. If the hook's own transaction fails, its exception is logged
  and dropped (`core/dead_letter/hook.py:47`) and the job leaves no row.
  `NoFailureVanishes` excepts these jobs (`unrecorded`).
- `tests/test_auth_flows.py:416-417` says a replayed old cookie revokes the session
  "unless it is a tab race". A tab whose cookie was the newest when it asked, but
  which is served after **two** rotations within the grace period, is treated as
  reuse: `_was_just_rotated_from` knows only the last one.
- A cached call that overlaps an invalidation may store an old value after it, which
  is served until its ttl ends; `InvalidatedStaysGone` leaves out these calls
  (`raced`) and says that there are no others.
- Two entities of the same name in different domains have the same router variable:
  the second create-all adds an import that shadows the first, and no include line.
  `Scaffold` has a router name per entity.
- A package exports all entities of its domain, so one that is half made keeps the
  application from starting: a `create-all` interrupted after its router is exported
  (`update_init` in `generate_route`) and before `generate_dependencies` has written
  the factory that the router imports, `create-repository` before there is a model,
  or `create-route` by itself, whose command prints a reminder. A finished and mounted
  entity of that domain is then complete but cannot be imported (`HalfMade`), until
  `create-all` is run to its end for the other one. `FinishedIsWired` and
  `MountedIsComplete` say that nothing else can keep it from being imported.
- A login may commit its session after `UPDATE refresh_sessions` of a reset or a
  closing and before its COMMIT (`auth/repositories/account_repository.py:36-41,
  79-85`), having seen the user as it was. That session is not ended. After a reset it
  lives on; after a closing it may be rotated once, by a request that had passed the
  check of the user before, and then never again
  (`ClosedAccountStopsRotating`).
- `rotate` takes `now` before it awaits its UPDATE
  (`auth/repositories/refresh_session_repository.py:29`), so a session may be rotated
  just after its end. Its `expires_at` does not move, and the cookie that results
  expires with it (`auth/routes/auth_router.py:37`).

Two behaviours are accepted by the code and contradict no document, so no
property denies them: the client that never received its new cookie has its
session revoked by its next refresh after the grace period
(`AuthService.refresh`), and a login that had read the old hash before a password
reset committed creates its session after it (`SecurityService.authenticate`
awaits bcrypt in between). `ResetReachesEverySession` therefore speaks of the
sessions that were committed when the reset's UPDATE began.

## 8. What is not modelled, and why

Not yet (section 2): the health probes, which only read: the relay's heartbeat key,
`oldest_pending_age` and the checks of Redis and of the replica.

Of `Accounts`: the seed script runs each of its statements and commits it in one
action, so it waits for others but nobody waits for it; a circle through the DELETE of
`--reset`, which the deadlock detector would break as it breaks those of two requests,
does not appear. Changes of the name or of the password write single columns that no
property depends on; `force_delete` has no caller among the routes; whether
`ensure_safe_operation` lets the seed script run is left open, so it always may. Of
`Deployment`: what a revision does, downgrades, and offline mode, which prints SQL.

Redis and PostgreSQL of the blocklist lose data only as `RedisLoses` says; a key
lost that way lets a revoked token pass until it expires (`torn`), which no
document denies.

The cache's Redis does not restart in `TagCache`, and no key is evicted; both only
remove entries, or a tag set before its entries, which has the consequence that
`tag_cache_lives` shows. Cache keys are model values: that two calls get different
keys (`str()` of the arguments) is not examined. Sessions in `RoutingSession` follow
one another; sessions of other requests appear as nothing but more lag.

Not at all: the HTTP shell, OpenAPI customisation, middlewares, rate limiter, mail
transport, settings and logging: stateless wiring, I/O or a library's work. Text and
payloads of mails, JWT encoding and password hashing are data that no property
distinguishes: a cookie is the pair it carries, a password check the version of
the hash it was made against. Scheduling of the nightly tasks is left open (they
may run at any time), and so are the retention periods, except where a comparison
with the clock is the point (sessions).
