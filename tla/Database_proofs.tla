---------------------------- MODULE Database_proofs ----------------------------
(***************************************************************************)
(* What the code promises about PostgreSQL: the sessions of a request or   *)
(* job (RoutingSession), for every set of writes, and the migrations of    *)
(* containers that start (Deployment), for any number of containers, of    *)
(* images of whatever age, and of failures.                                *)
(***************************************************************************)
EXTENDS RoutingSession, Deployment, TLAPS

-----------------------------------------------------------------------------
(* RoutingSession *)

\* What makes the failover and the replica safe: whoever sent or committed
\* something is pinned until the session ends.
WritersArePinned == open /\ sent \cup own # {} => pinned

\* The inductive invariant.
SessionInv ==
  /\ SessionTypeOK
  /\ WritersArePinned
  /\ ReadYourWrites
  /\ FailoverDropsNothing
  /\ PinsAreWanted

-----------------------------------------------------------------------------

\* No session is open at first, and nothing is written.
LEMMA SessionInitEstablishes == SessionInit => SessionInv
  BY DEF SessionInit, SessionInv, SessionTypeOK, WritersArePinned, ReadYourWrites,
         FailoverDropsNothing, PinsAreWanted

\* Opening, closing and rolling back: a session starts with nothing and leaves
\* nothing, and the code is told what a rollback took.
LEMMA SessionLifePreserves ==
  ASSUME SessionInv,
         \/ \E reset \in BOOLEAN : Opens(reset)
         \/ Closes \/ RollsBack
  PROVE  SessionInv'
<1> USE DEF SessionInv, SessionTypeOK, WritersArePinned, ReadYourWrites,
            FailoverDropsNothing, PinsAreWanted, dataVars
<1>1. ASSUME NEW reset \in BOOLEAN, Opens(reset)
      PROVE  SessionInv'
  <2>1. CASE reset
    BY <1>1, <2>1 DEF Opens
  <2>2. CASE ~reset
    BY <1>1, <2>2 DEF Opens
  <2> QED BY <2>1, <2>2
<1>2. CASE Closes
  BY <1>2 DEF Closes, LeftBehind
<1>3. CASE RollsBack
  <2>1. UNCHANGED <<primary, replica, open, scoped, outer, own, missed>>
    BY <1>3 DEF RollsBack, scopeVars
  <2>2. pending' = {} /\ sent' = {} /\ made' = made \cap own
    BY <1>3 DEF RollsBack
  <2>3. UNCHANGED <<pinned, asked>> \/ (pinned' = TRUE /\ asked' = TRUE)
    BY <1>3 DEF RollsBack
  <2>4. SessionTypeOK'
    BY <2>1, <2>2, <2>3
  <2>5. WritersArePinned' /\ PinsAreWanted'
    BY <2>1, <2>2, <2>3
  <2>6. ReadYourWrites' /\ FailoverDropsNothing'
    BY <2>1, <2>2
  <2> QED BY <2>4, <2>5, <2>6
<1> QED BY <1>1, <1>2, <1>3

\* Reads: a pinned session sees what it has sent and committed, another one has
\* neither; a failover happens only in the latter.
LEMMA ReadsPreserve ==
  ASSUME SessionInv,
         \/ \E kind \in {"select", "text"} : Reads(kind)
         \/ FailsOver \/ Pins \/ Peeks
  PROVE  SessionInv'
<1> USE DEF SessionInv, SessionTypeOK, WritersArePinned, ReadYourWrites,
            FailoverDropsNothing, PinsAreWanted, dataVars, scopeVars, workVars
<1>1. ASSUME NEW kind \in {"select", "text"}, Reads(kind)
      PROVE  SessionInv'
  <2>1. missed' = {}
    BY <1>1 DEF Reads, Target, Visible
  <2> QED BY <1>1, <2>1 DEF Reads
<1>2. CASE FailsOver
  <2>1. sent = {} /\ own = {} /\ pending = {}
    BY <1>2 DEF FailsOver, CanFailOver
  <2>2. made = {}
    BY <2>1, <1>2 DEF FailsOver
  <2> QED BY <1>2, <2>1, <2>2 DEF FailsOver
<1>3. CASE Pins
  BY <1>3 DEF Pins
<1>4. CASE Peeks
  BY <1>4 DEF Peeks, Visible, Restored
<1> QED BY <1>1, <1>2, <1>3, <1>4

\* Writes: what is added becomes sent, what is sent becomes committed, and the
\* session is pinned as soon as something leaves it.
LEMMA WritesPreserve ==
  ASSUME SessionInv,
         \/ \E w \in Writes : Adds(w) \/ Executes(w)
         \/ Flushes
         \/ \E answered \in BOOLEAN : Commits(answered)
  PROVE  SessionInv'
<1> USE DEF SessionInv, SessionTypeOK, WritersArePinned, ReadYourWrites,
            FailoverDropsNothing, PinsAreWanted, dataVars, scopeVars
<1>1. ASSUME NEW w \in Writes, Adds(w)
      PROVE  SessionInv'
  BY <1>1 DEF Adds
<1>2. ASSUME NEW w \in Writes, Executes(w)
      PROVE  SessionInv'
  BY <1>2 DEF Executes
<1>3. CASE Flushes
  BY <1>3 DEF Flushes, PinAfterFlush
<1>4. ASSUME NEW answered \in BOOLEAN, Commits(answered)
      PROVE  SessionInv'
  <2>1. CASE pending # {}
    BY <1>4, <2>1 DEF Commits, PinAfterFlush
  <2>2. CASE pending = {}
    BY <1>4, <2>2 DEF Commits
  <2> QED BY <2>1, <2>2
<1> QED BY <1>1, <1>2, <1>3, <1>4

\* Replication touches nothing of a session.
LEMMA ReplicationPreserves ==
  ASSUME SessionInv, Replicates
  PROVE  SessionInv'
  BY DEF Replicates, SessionInv, SessionTypeOK, WritersArePinned, ReadYourWrites,
         FailoverDropsNothing, PinsAreWanted, scopeVars, workVars

\* Every step of the specification keeps the invariant.
LEMMA SessionNextPreserves == SessionInv /\ [SessionNext]_sessionVars => SessionInv'
<1> SUFFICES ASSUME SessionInv, [SessionNext]_sessionVars
             PROVE  SessionInv'
  OBVIOUS
<1>1. CASE SessionNext
  BY <1>1, SessionLifePreserves, ReadsPreserve, WritesPreserve, ReplicationPreserves
     DEF SessionNext
<1>2. CASE UNCHANGED sessionVars
  BY <1>2 DEF sessionVars, SessionInv, SessionTypeOK, WritersArePinned, ReadYourWrites,
              FailoverDropsNothing, PinsAreWanted
<1> QED BY <1>1, <1>2

-----------------------------------------------------------------------------

\* The inductive invariant holds in every reachable state.
THEOREM SessionInvariance == SessionSpec => []SessionInv
<1>1. SessionInit => SessionInv
  BY SessionInitEstablishes
<1>2. SessionInv /\ [SessionNext]_sessionVars => SessionInv'
  BY SessionNextPreserves
<1> QED BY <1>1, <1>2, PTL DEF SessionSpec

\* Every variable of the session keeps its type, and a closed session holds no
\* work (core/database.py:218).
THEOREM SessionTypeCorrect == SessionSpec => []SessionTypeOK
<1>1. SessionInv => SessionTypeOK
  BY DEF SessionInv
<1> QED BY <1>1, SessionInvariance, PTL

\* A session's reads return what it has sent or committed, however far the
\* replica lags (get_bind and the before_flush listener of core/database.py).
THEOREM OwnWritesAreRead == SessionSpec => []ReadYourWrites
<1>1. SessionInv => ReadYourWrites
  BY DEF SessionInv
<1> QED BY <1>1, SessionInvariance, PTL

\* The rollback of a failover discards nothing the code has written
\* (_can_fail_over of core/database.py).
THEOREM FailoverIsSafe == SessionSpec => []FailoverDropsNothing
<1>1. SessionInv => FailoverDropsNothing
  BY DEF SessionInv
<1> QED BY <1>1, SessionInvariance, PTL

\* A session that only reads is never left on the primary by a peek or by the
\* session before it (db_session, RevokedTokenRepository.exists).
THEOREM ReadersAreNotPinned == SessionSpec => []PinsAreWanted
<1>1. SessionInv => PinsAreWanted
  BY DEF SessionInv
<1> QED BY <1>1, SessionInvariance, PTL

-----------------------------------------------------------------------------
(* Deployment *)

Inside == {"held", "read", "upgrade", "unlock"}

\* The session between lock and unlock is the one that has the lock.
HolderIsInside == \A c \in Apps : lock = c <=> pc[c] \in Inside

\* The transaction of the lock query is over before alembic begins its own.
BeganToLock == \A c \in Apps : began[c] => pc[c] \in {"wait", "held"}

\* Whoever is through with alembic has left a schema that is new enough.
DoneMeansMigrated ==
  \A c \in Apps : pc[c] \in {"finish", "check", "serve"} => schema >= Head[c]

\* The inductive invariant.
MigrationInv ==
  /\ TypeOK
  /\ HolderIsInside
  /\ BeganToLock
  /\ OneMigratesAtATime
  /\ DoneMeansMigrated

-----------------------------------------------------------------------------

\* Everything is down at first.
LEMMA MigrationInitEstablishes == Init => MigrationInv
<1> SUFFICES ASSUME Init PROVE MigrationInv
  OBVIOUS
<1>1. TypeOK
  BY DeploymentAssumption DEF Init, TypeOK, Places
<1>2. \A c \in Apps : pc[c] = "down" /\ lock # c /\ ~began[c]
  BY DeploymentAssumption DEF Init
<1> QED
  BY <1>1, <1>2 DEF MigrationInv, HolderIsInside, Inside, BeganToLock, OneMigratesAtATime,
                    DoneMeansMigrated

\* Before the lock: nobody's place inside changes but that of who gets it.
LEMMA LockingPreserves ==
  ASSUME MigrationInv, NEW c \in Apps,
         Boots(c) \/ TriesLock(c) \/ GetsLock(c) \/ CommitsLockQuery(c)
  PROVE  MigrationInv'
<1> USE DEF MigrationInv, TypeOK, Places, Go
<1>1. /\ UNCHANGED <<schema, found, work, faults>>
      /\ pc' \in [Apps -> Places] /\ \A d \in Apps \ {c} : pc'[d] = pc[d]
      /\ pc'[c] \in {"lock", "wait", "held", "read"}
  BY DEF Boots, TriesLock, GetsLock, CommitsLockQuery
<1>2. TypeOK'
  BY <1>1 DEF Boots, TriesLock, GetsLock, CommitsLockQuery, StillInside
<1>3. HolderIsInside'
  <2>1. CASE Boots(c)
    BY <2>1 DEF Boots, HolderIsInside, Inside
  <2>2. CASE TriesLock(c)
    <3>1. CASE lock = NoOne
      BY <2>2, <3>1, DeploymentAssumption DEF TriesLock, HolderIsInside, Inside
    <3>2. CASE lock # NoOne
      BY <2>2, <3>2 DEF TriesLock, HolderIsInside, Inside
    <3> QED BY <3>1, <3>2
  <2>3. CASE GetsLock(c)
    BY <2>3, DeploymentAssumption DEF GetsLock, HolderIsInside, Inside
  <2>4. CASE CommitsLockQuery(c)
    BY <2>4 DEF CommitsLockQuery, HolderIsInside, Inside
  <2> QED BY <2>1, <2>2, <2>3, <2>4
<1>4. BeganToLock'
  BY DEF Boots, TriesLock, GetsLock, CommitsLockQuery, StillInside, BeganToLock
<1>5. OneMigratesAtATime' /\ DoneMeansMigrated'
  BY <1>1 DEF OneMigratesAtATime, DoneMeansMigrated
<1> QED BY <1>2, <1>3, <1>4, <1>5

\* Under the lock: the revision that was read is still there, and the upgrade
\* is committed at its own end.
LEMMA MigratingPreserves ==
  ASSUME MigrationInv, NEW c \in Apps, ReadsRevision(c) \/ Upgrades(c) \/ Unlocks(c)
  PROVE  MigrationInv'
<1> USE DEF MigrationInv, TypeOK, Places, Go
<1>1. CASE ReadsRevision(c)
  <2>1. TypeOK'
    BY <1>1, DeploymentAssumption DEF ReadsRevision, Knows
  <2>2. HolderIsInside' /\ BeganToLock'
    BY <1>1 DEF ReadsRevision, HolderIsInside, Inside, BeganToLock
  <2>3. OneMigratesAtATime' /\ DoneMeansMigrated'
    BY <1>1 DEF ReadsRevision, OneMigratesAtATime, DoneMeansMigrated
  <2> QED BY <2>1, <2>2, <2>3
<1>2. CASE Upgrades(c)
  <2>1. Head[c] \in Nat /\ found[c] \in Nat /\ found[c] <= Head[c] /\ found[c] = schema
    BY <1>2, DeploymentAssumption DEF Upgrades, OneMigratesAtATime
  <2>2. ~began[c]
    BY <1>2 DEF Upgrades, BeganToLock
  <2>3. schema' = Head[c] /\ schema' >= schema
    BY <1>2, <2>1, <2>2 DEF Upgrades, SchemaAfterUpgrade
  <2>4. TypeOK'
    BY <1>2, <2>1, <2>3 DEF Upgrades
  <2>5. HolderIsInside' /\ BeganToLock'
    BY <1>2 DEF Upgrades, HolderIsInside, Inside, BeganToLock
  <2>6. \A d \in Apps \ {c} : pc'[d] = pc[d] /\ pc[d] \notin Inside
    BY <1>2 DEF Upgrades, HolderIsInside, Inside
  <2>7. OneMigratesAtATime'
    BY <1>2, <2>3, <2>6 DEF Upgrades, OneMigratesAtATime, Inside
  <2>8. DoneMeansMigrated'
    <3>1. \A d \in Apps : Head[d] \in Nat
      BY DeploymentAssumption
    <3> QED BY <1>2, <2>3, <2>6, <3>1 DEF Upgrades, DoneMeansMigrated
  <2> QED BY <2>4, <2>5, <2>7, <2>8
<1>3. CASE Unlocks(c)
  <2>1. TypeOK' /\ HolderIsInside' /\ BeganToLock'
    BY <1>3, DeploymentAssumption DEF Unlocks, HolderIsInside, Inside, BeganToLock
  <2>2. Head[c] \in Nat /\ schema = Head[c]
    BY <1>3, DeploymentAssumption DEF Unlocks, OneMigratesAtATime
  <2>3. OneMigratesAtATime' /\ DoneMeansMigrated'
    BY <1>3, <2>2 DEF Unlocks, OneMigratesAtATime, DoneMeansMigrated
  <2> QED BY <2>1, <2>3
<1> QED BY <1>1, <1>2, <1>3

\* After the unlock: the last commit has nothing left to commit.
LEMMA StartingPreserves ==
  ASSUME MigrationInv, NEW c \in Apps, Finishes(c) \/ Serves(c)
  PROVE  MigrationInv'
<1> USE DEF MigrationInv, TypeOK, Places, Go
<1>1. ~began[c] /\ UNCHANGED <<lock, schema, found, work, faults>>
  BY DEF Finishes, Serves, BeganToLock
<1>2. TypeOK' /\ HolderIsInside' /\ BeganToLock'
  BY <1>1 DEF Finishes, Serves, HolderIsInside, Inside, BeganToLock
<1>3. OneMigratesAtATime' /\ DoneMeansMigrated'
  BY <1>1 DEF Finishes, Serves, OneMigratesAtATime, DoneMeansMigrated
<1> QED BY <1>2, <1>3

\* Failures: a session that ends takes its lock and its transaction with it, a
\* killed one leaves the lock with a backend that is nobody's.
LEMMA FailurePreserves ==
  ASSUME MigrationInv, NEW c \in Apps, CannotLocate(c) \/ Fails(c) \/ Killed(c) \/ SessionEnds
  PROVE  MigrationInv'
<1> USE DEF MigrationInv, TypeOK, Places, Go
<1>1. UNCHANGED <<schema, found, work>> /\ faults' \in 0 .. MaxFaults
  BY DeploymentAssumption DEF CannotLocate, Fails, Killed, SessionEnds, Exits, Fault
<1>2. CASE CannotLocate(c) \/ Fails(c)
  <2>1. /\ pc' = [pc EXCEPT ![c] = "down"]
        /\ lock' = IF lock = c THEN NoOne ELSE lock
        /\ began' = [began EXCEPT ![c] = FALSE]
    BY <1>2 DEF CannotLocate, Fails, Exits, PlaceAfterError, LockAfterError
  <2>2. TypeOK' /\ BeganToLock'
    BY <1>1, <2>1 DEF BeganToLock
  <2>3. HolderIsInside'
    BY <2>1, DeploymentAssumption DEF HolderIsInside, Inside
  <2>4. OneMigratesAtATime' /\ DoneMeansMigrated'
    BY <1>1, <2>1 DEF OneMigratesAtATime, DoneMeansMigrated
  <2> QED BY <2>2, <2>3, <2>4
<1>3. CASE Killed(c)
  <2>1. TypeOK' /\ BeganToLock'
    BY <1>1, <1>3 DEF Killed, BeganToLock
  <2>2. HolderIsInside'
    BY <1>3, DeploymentAssumption DEF Killed, HolderIsInside, Inside
  <2>3. OneMigratesAtATime' /\ DoneMeansMigrated'
    BY <1>1, <1>3 DEF Killed, OneMigratesAtATime, DoneMeansMigrated
  <2> QED BY <2>1, <2>2, <2>3
<1>4. CASE SessionEnds
  <2>1. TypeOK' /\ BeganToLock'
    BY <1>4 DEF SessionEnds, BeganToLock
  <2>2. HolderIsInside'
    BY <1>4, DeploymentAssumption DEF SessionEnds, HolderIsInside
  <2>3. OneMigratesAtATime' /\ DoneMeansMigrated'
    BY <1>4 DEF SessionEnds, OneMigratesAtATime, DoneMeansMigrated
  <2> QED BY <2>1, <2>2, <2>3
<1> QED BY <1>2, <1>3, <1>4

\* Every step keeps the invariant.
LEMMA MigrationNextPreserves == MigrationInv /\ [Next]_vars => MigrationInv'
<1> SUFFICES ASSUME MigrationInv, [Next]_vars PROVE MigrationInv'
  OBVIOUS
<1>1. CASE UNCHANGED vars
  BY <1>1 DEF vars, MigrationInv, TypeOK, HolderIsInside, BeganToLock, OneMigratesAtATime,
              DoneMeansMigrated
<1>2. ASSUME NEW c \in Apps, Starts(c) \/ GetsLock(c) \/ Fails(c) \/ Killed(c)
      PROVE  MigrationInv'
  BY <1>2, LockingPreserves, MigratingPreserves, StartingPreserves, FailurePreserves
     DEF Starts
<1>3. CASE SessionEnds
  <2>1. CASE Apps = {}
    BY <1>3, <2>1 DEF SessionEnds, MigrationInv, TypeOK, HolderIsInside, BeganToLock,
                      OneMigratesAtATime, DoneMeansMigrated
  <2>2. CASE Apps # {}
    <3>1. PICK c \in Apps : TRUE
      BY <2>2
    <3> QED BY <1>3, <3>1, FailurePreserves
  <2> QED BY <2>1, <2>2
<1> QED BY <1>1, <1>2, <1>3 DEF Next

-----------------------------------------------------------------------------

\* The inductive invariant: the lock is with whoever is between lock and
\* unlock, and no transaction of the lock query reaches into the migration.
THEOREM MigrationInvariance == Spec => []MigrationInv
  BY MigrationInitEstablishes, MigrationNextPreserves, PTL DEF Spec

\* Every variable keeps its range; no image reads past its own revisions.
THEOREM MigrationTypeCorrect == Spec => []TypeOK
<1>1. MigrationInv => TypeOK
  BY DEF MigrationInv
<1> QED BY <1>1, MigrationInvariance, PTL

\* However many containers start at once, fail or are killed, one migrates at a
\* time, and what it unlocks is committed.
THEOREM MigrationsAreExclusive == Spec => []OneMigratesAtATime
<1>1. MigrationInv => OneMigratesAtATime
  BY DEF MigrationInv
<1> QED BY <1>1, MigrationInvariance, PTL

\* No container serves, or checks whether it can, on a schema older than its own.
THEOREM ServersAreMigrated == Spec => []ServesMigrated
<1>1. MigrationInv => ServesMigrated
  BY DEF MigrationInv, DoneMeansMigrated, ServesMigrated
<1> QED BY <1>1, MigrationInvariance, PTL

\* The schema never goes back, whichever image migrates last.
THEOREM SchemaOnlyGrows == Spec => [][schema' >= schema]_vars
<1>1. MigrationInv /\ [Next]_vars => [schema' >= schema]_vars
  <2> SUFFICES ASSUME MigrationInv, Next PROVE schema' >= schema
    BY DEF MigrationInv, TypeOK, vars
  <2>1. schema \in Nat
    BY DEF MigrationInv, TypeOK
  <2>2. ASSUME NEW c \in Apps, Upgrades(c) PROVE schema' >= schema
    BY <2>1, <2>2, DeploymentAssumption
       DEF MigrationInv, TypeOK, Upgrades, SchemaAfterUpgrade, OneMigratesAtATime
  <2>3. ASSUME NEW c \in Apps, Finishes(c) PROVE schema' >= schema
    BY <2>1, <2>3 DEF MigrationInv, BeganToLock, Finishes
  <2> QED
    BY <2>1, <2>2, <2>3
       DEF Next, Starts, Boots, TriesLock, CommitsLockQuery, ReadsRevision, CannotLocate,
           Unlocks, Serves, GetsLock, Fails, Killed, SessionEnds, Exits
<1> QED BY <1>1, MigrationInvariance, PTL DEF Spec
=============================================================================
