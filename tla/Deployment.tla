----------------------------- MODULE Deployment -----------------------------
(***************************************************************************)
(* How the API containers start: entrypoint.sh runs alembic upgrade head   *)
(* and then the server, alembic's env.py migrates under an advisory lock   *)
(* of a PostgreSQL session, the server's lifespan checks its databases.    *)
(* Any of it may fail or be killed, and the containers are restarted.      *)
(* Two images of different age may be deployed at the same time.           *)
(***************************************************************************)
EXTENDS Naturals

CONSTANTS
  Apps,          \* containers started with RUN_MIGRATIONS=true
  Head,          \* Head[c]: the number of revisions the image of c knows
  MaxFaults      \* bound: failures and kills in a behaviour

\* The lock is free, or belongs to a backend whose client is gone and that has
\* not noticed yet.
NoOne == "no one"
Orphan == "orphan"

ASSUME DeploymentAssumption ==
  /\ Head \in [Apps -> Nat \ {0}]
  /\ NoOne \notin Apps /\ Orphan \notin Apps
  /\ MaxFaults \in Nat

VARIABLES
  pc,            \* pc[c]: where the start of c is
  lock,          \* the session that holds MIGRATION_LOCK_ID
  schema,        \* the committed revision in alembic_version, 0 for none
  began,         \* began[c]: c's connection is inside a transaction
  found,         \* found[c]: the revision c read before it migrates
  work,          \* work[c]: the revision of c's uncommitted upgrade
  faults         \* failures and kills so far

vars == <<pc, lock, schema, began, found, work, faults>>

Places == {"down", "lock", "wait", "held", "read", "upgrade", "unlock", "finish",
           "check", "serve"}

\* Alembic gets no further than reading a revision that its image knows.
TypeOK ==
  /\ pc \in [Apps -> Places]
  /\ lock \in Apps \cup {NoOne, Orphan}
  /\ schema \in Nat
  /\ began \in [Apps -> BOOLEAN]
  /\ found \in [Apps -> Nat] /\ \A c \in Apps : found[c] <= Head[c]
  /\ work \in [Apps -> Nat]
  /\ faults \in 0 .. MaxFaults

Init ==
  /\ pc = [c \in Apps |-> "down"]
  /\ lock = NoOne
  /\ schema = 0
  /\ began = [c \in Apps |-> FALSE]
  /\ found = [c \in Apps |-> 0]
  /\ work = [c \in Apps |-> 0]
  /\ faults = 0

Go(c, place) == pc' = [pc EXCEPT ![c] = place]

-----------------------------------------------------------------------------
(* alembic upgrade head *)

\* The container starts, or is restarted, and alembic connects.
Boots(c) ==
  /\ pc[c] = "down"
  /\ Go(c, "lock")
  /\ UNCHANGED <<lock, schema, began, found, work, faults>>

\* _try_lock: the query begins a transaction, whether or not it gets the lock.
TriesLock(c) ==
  /\ pc[c] = "lock"
  /\ IF lock = NoOne THEN lock' = c /\ Go(c, "held") ELSE Go(c, "wait") /\ UNCHANGED lock
  /\ began' = [began EXCEPT ![c] = TRUE]
  /\ UNCHANGED <<schema, found, work, faults>>

\* pg_advisory_lock returns.
GetsLock(c) ==
  /\ pc[c] = "wait"
  /\ lock = NoOne
  /\ lock' = c
  /\ Go(c, "held")
  /\ UNCHANGED <<schema, began, found, work, faults>>

\* Mutant: the lock query's transaction is left open.
StaysInside(c) == TRUE

\* connection.commit(): the session's lock survives it.
StillInside(c) == FALSE

CommitsLockQuery(c) ==
  /\ pc[c] = "held"
  /\ began' = [began EXCEPT ![c] = StillInside(c)]
  /\ Go(c, "read")
  /\ UNCHANGED <<lock, schema, found, work, faults>>

\* Mutant: alembic goes on from whatever revision it finds.
KnowsAny(c) == TRUE

\* Alembic can only locate revisions that are in its versions directory.
Knows(c) == schema <= Head[c]

\* run_migrations: alembic looks up where the database is.
ReadsRevision(c) ==
  /\ pc[c] = "read"
  /\ Knows(c)
  /\ found' = [found EXCEPT ![c] = schema]
  /\ Go(c, "upgrade")
  /\ UNCHANGED <<lock, schema, began, work, faults>>

\* What is committed when alembic leaves its with context.begin_transaction():
\* it commits only a transaction it has begun itself.
SchemaAfterUpgrade(c) == IF began[c] THEN schema ELSE Head[c]

\* All missing revisions, and the new alembic_version, in one transaction.
Upgrades(c) ==
  /\ pc[c] = "upgrade"
  /\ schema' = IF found[c] < Head[c] THEN SchemaAfterUpgrade(c) ELSE schema
  /\ work' = [work EXCEPT ![c] = Head[c]]
  /\ Go(c, "unlock")
  /\ UNCHANGED <<lock, began, found, faults>>

\* pg_advisory_unlock takes effect at once, not with a commit.
Unlocks(c) ==
  /\ pc[c] = "unlock"
  /\ lock' = NoOne
  /\ Go(c, "finish")
  /\ UNCHANGED <<schema, began, found, work, faults>>

\* The last commit, which takes with it what the body left uncommitted; then
\* alembic exits and entrypoint.sh replaces itself with the server.
Finishes(c) ==
  /\ pc[c] = "finish"
  /\ schema' = IF began[c] THEN work[c] ELSE schema
  /\ began' = [began EXCEPT ![c] = FALSE]
  /\ Go(c, "check")
  /\ UNCHANGED <<lock, found, work, faults>>

-----------------------------------------------------------------------------
(* The server *)

\* lifespan: the primary answers; a replica that does not is only logged.
Serves(c) ==
  /\ pc[c] = "check"
  /\ Go(c, "serve")
  /\ UNCHANGED <<lock, schema, began, found, work, faults>>

-----------------------------------------------------------------------------
(* Failures *)

\* Mutant: entrypoint.sh without its set -e.
PlaceAfterErrorWithoutE(c) == IF pc[c] = "check" THEN "down" ELSE "check"

\* set -e: a failed alembic ends the container, as a failed check does.
PlaceAfterError(c) == "down"

\* Mutant: the connection goes back to a pool, with its session's lock.
LockAfterErrorInPool(c) == lock

\* The connection is closed for good (NullPool), and its session's lock is gone.
LockAfterError(c) == IF lock = c THEN NoOne ELSE lock

Exits(c) ==
  /\ pc' = [pc EXCEPT ![c] = PlaceAfterError(c)]
  /\ lock' = LockAfterError(c)
  /\ began' = [began EXCEPT ![c] = FALSE]
  /\ UNCHANGED <<schema, found, work>>

\* Alembic does not know the revision it finds: a newer image has migrated.
CannotLocate(c) ==
  /\ pc[c] = "read"
  /\ ~Knows(c)
  /\ Exits(c)
  /\ UNCHANGED faults

Fault == faults < MaxFaults /\ faults' = faults + 1

\* A query, a revision or a startup check raises.  Nothing in migration_lock
\* catches it: the unlock is skipped and the transaction rolls back.
Fails(c) ==
  /\ pc[c] \notin {"down", "serve"}
  /\ Fault
  /\ Exits(c)

\* The container is killed, or stopped by a deployment.  The backend of its
\* connection may live on for a while.
Killed(c) ==
  /\ pc[c] # "down"
  /\ Fault
  /\ Go(c, "down")
  /\ lock' = IF lock = c THEN Orphan ELSE lock
  /\ began' = [began EXCEPT ![c] = FALSE]
  /\ UNCHANGED <<schema, found, work>>

\* PostgreSQL finds the connection broken and ends its session.
SessionEnds ==
  /\ lock = Orphan
  /\ lock' = NoOne
  /\ UNCHANGED <<pc, schema, began, found, work, faults>>

-----------------------------------------------------------------------------
Starts(c) ==
  \/ Boots(c) \/ TriesLock(c) \/ CommitsLockQuery(c) \/ ReadsRevision(c)
  \/ CannotLocate(c) \/ Upgrades(c) \/ Unlocks(c) \/ Finishes(c) \/ Serves(c)

Next ==
  \/ \E c \in Apps : Starts(c) \/ GetsLock(c) \/ Fails(c) \/ Killed(c)
  \/ SessionEnds

Spec == Init /\ [][Next]_vars

\* Containers are restarted (unless-stopped) and go on; PostgreSQL notices dead
\* clients, and its lock queue is first come, first served, so that a waiter is
\* not passed over for ever.  Failures owe nothing.
Fairness ==
  /\ \A c \in Apps : WF_vars(Starts(c)) /\ SF_vars(GetsLock(c))
  /\ WF_vars(SessionEnds)

FairSpec == Spec /\ Fairness

-----------------------------------------------------------------------------
(* Properties *)

\* "Only one process migrates at a time" (migration_lock.py:20), including the
\* commit: from the moment a process reads the revision until its own upgrade
\* is committed, nobody else changes it, and what it unlocks is committed.
OneMigratesAtATime ==
  \A c \in Apps :
    /\ pc[c] = "upgrade" => found[c] = schema
    /\ pc[c] = "unlock" => schema = Head[c]

\* entrypoint.sh: a container serves only on a schema that has every revision
\* its code was written for, whatever failed on the way.
ServesMigrated == \A c \in Apps : pc[c] \in {"check", "serve"} => schema >= Head[c]

\* The lock never stays behind: every container of the newest image serves in
\* the end, after failures, kills, lost backends and older images that keep
\* failing and restarting.
Newest(c) == \A d \in Apps : Head[d] <= Head[c]
NewestServe == \A c \in Apps : Newest(c) => (pc[c] = "down" ~> pc[c] = "serve")
=============================================================================
