---------------------------- MODULE RoutingSession ----------------------------
(***************************************************************************)
(* The database sessions of one request or job, one after the other:       *)
(* reads go to a replica that lags, unless force_primary_var has pinned    *)
(* them to the primary; a read that fails is repeated on the primary after *)
(* a rollback, if the session holds no work.                               *)
(***************************************************************************)
EXTENDS FiniteSets

CONSTANT Writes     \* rows added, changed or deleted

VARIABLES
  primary,          \* the writes committed on the primary
  replica,          \* those that have reached the replica
  open,             \* whether there is a session
  scoped,           \* whether it is a db_session, which resets the pin
  outer,            \* the pin when it was opened
  pinned,           \* force_primary_var
  pending,          \* session.new, dirty and deleted: not flushed yet
  sent,             \* flushed or executed in the open transaction
  own,              \* history: what the session has committed
  made,             \* history: what its code believes it has written
  asked,            \* history: whether it wrote, failed over or asked for the primary
  missed            \* history: its own writes that its last read did not see

dataVars == <<primary, replica>>
scopeVars == <<open, scoped, outer>>
workVars == <<pending, sent, own, made>>
sessionVars == <<primary, replica, open, scoped, outer, pinned, pending, sent,
                 own, made, asked, missed>>

SessionTypeOK ==
  /\ primary \in SUBSET Writes
  /\ replica \in SUBSET primary
  /\ open \in BOOLEAN /\ scoped \in BOOLEAN /\ outer \in BOOLEAN
  /\ pinned \in BOOLEAN /\ asked \in BOOLEAN
  /\ pending \in SUBSET Writes /\ sent \in SUBSET Writes
  /\ own \in SUBSET primary
  /\ made \in SUBSET Writes
  /\ missed \in SUBSET Writes
  /\ ~open => pending = {} /\ sent = {}

SessionInit ==
  /\ primary = {} /\ replica = {}
  /\ open = FALSE /\ scoped = FALSE /\ outer = FALSE
  /\ pinned = FALSE
  /\ pending = {} /\ sent = {} /\ own = {} /\ made = {}
  /\ asked = FALSE
  /\ missed = {}

-----------------------------------------------------------------------------
(* The life of a session *)

\* db_session sets the pin to FALSE, AsyncSessionLocal by itself leaves it.
Opens(reset) ==
  /\ ~open
  /\ open' = TRUE
  /\ scoped' = reset
  /\ outer' = pinned
  /\ pinned' = (pinned /\ ~reset)
  /\ own' = {} /\ made' = {}
  /\ asked' = FALSE
  /\ missed' = {}
  /\ UNCHANGED <<dataVars, pending, sent>>

\* Mutant: the session goes back unclosed.
LeftBehindAsItIs(ws) == ws

\* What close leaves of uncommitted work.
LeftBehind(ws) == {}

\* close, and db_session resets the pin.  AsyncSessionLocal leaves it as it is.
Closes ==
  /\ open
  /\ open' = FALSE
  /\ pinned' = IF scoped THEN outer ELSE pinned
  /\ pending' = LeftBehind(pending) /\ sent' = LeftBehind(sent)
  /\ made' = {}
  /\ missed' = {}
  /\ UNCHANGED <<dataVars, scoped, outer, own, asked>>

\* A statement fails for good, or the code raises: transaction and db_session
\* roll back and pass the exception on, which the code may handle.  A write
\* that failed has pinned before it did.
RollsBack ==
  /\ open
  /\ \/ UNCHANGED <<pinned, asked>>
     \/ pinned' = TRUE /\ asked' = TRUE
  /\ pending' = {} /\ sent' = {}
  /\ made' = made \cap own
  /\ UNCHANGED <<dataVars, scopeVars, own, missed>>

-----------------------------------------------------------------------------
(* Reads *)

\* get_bind: a select goes to the replica unless pinned, text() never does.
Target(kind) == IF pinned \/ kind = "text" THEN "primary" ELSE "replica"

\* What a read in the open transaction returns.
Visible(target) == IF target = "primary" THEN primary \cup sent ELSE replica

Reads(kind) ==
  /\ open
  /\ missed' = (sent \cup own) \ Visible(Target(kind))
  /\ UNCHANGED <<dataVars, scopeVars, pinned, workVars, asked>>

\* Mutant: the guard before it looked at pending work.
CanFailOverWhilePending == ~pinned

\* _can_fail_over
CanFailOver == ~pinned /\ pending = {}

\* OperationalError: pin, roll back, and repeat on the primary.
FailsOver ==
  /\ open
  /\ CanFailOver
  /\ pinned' = TRUE
  /\ asked' = TRUE
  /\ pending' = {} /\ sent' = {}
  /\ missed' = own \ primary
  /\ UNCHANGED <<dataVars, scopeVars, own, made>>

\* force_primary_var.set(True): reads with consistent=True, and every
\* repository method before it writes.
Pins ==
  /\ open
  /\ pinned' = TRUE
  /\ asked' = TRUE
  /\ UNCHANGED <<dataVars, scopeVars, workVars, missed>>

\* Mutant: the pin stays.
RestoredNever(before) == TRUE

\* force_primary_var.reset(token)
Restored(before) == before

\* exists, list_active and RefreshSessionRepository.get: one read on the
\* primary, and the pin as it was.
Peeks ==
  /\ open
  /\ missed' = (sent \cup own) \ Visible("primary")
  /\ pinned' = Restored(pinned)
  /\ UNCHANGED <<dataVars, scopeVars, workVars, asked>>

-----------------------------------------------------------------------------
(* Writes *)

\* db.add, setattr, db.delete: nothing is sent, and autoflush is off.
Adds(w) ==
  /\ open
  /\ w \notin primary \cup sent \cup pending
  /\ pending' = pending \cup {w}
  /\ made' = made \cup {w}
  /\ UNCHANGED <<dataVars, scopeVars, pinned, sent, own, asked, missed>>

\* Mutant: no before_flush listener.
PinAfterFlushNone(before) == before

\* _pin_primary_on_flush
PinAfterFlush(before) == TRUE

Flushes ==
  /\ open
  /\ pending # {}
  /\ sent' = sent \cup pending
  /\ pending' = {}
  /\ pinned' = PinAfterFlush(pinned)
  /\ asked' = TRUE
  /\ UNCHANGED <<dataVars, scopeVars, own, made, missed>>

\* insert, update or delete through execute or scalars: get_bind pins.
Executes(w) ==
  /\ open
  /\ w \notin primary \cup sent \cup pending
  /\ sent' = sent \cup {w}
  /\ made' = made \cup {w}
  /\ pinned' = TRUE
  /\ asked' = TRUE
  /\ UNCHANGED <<dataVars, scopeVars, pending, own, missed>>

\* commit flushes first.  If its answer is lost, the code takes it for a
\* failure and transaction rolls back what is no longer there.
Commits(answered) ==
  /\ open
  /\ primary' = primary \cup sent \cup pending
  /\ own' = own \cup sent \cup pending
  /\ sent' = {} /\ pending' = {}
  /\ made' = IF answered THEN made ELSE made \cap own
  /\ IF pending # {} THEN pinned' = PinAfterFlush(pinned) /\ asked' = TRUE
                     ELSE UNCHANGED <<pinned, asked>>
  /\ UNCHANGED <<replica, scopeVars, missed>>

\* The replica applies some of what it lacks.
Replicates ==
  /\ \E ws \in SUBSET (primary \ replica) : ws # {} /\ replica' = replica \cup ws
  /\ UNCHANGED <<primary, scopeVars, pinned, workVars, asked, missed>>

SessionNext ==
  \/ \E reset \in BOOLEAN : Opens(reset)
  \/ Closes \/ RollsBack
  \/ \E kind \in {"select", "text"} : Reads(kind)
  \/ FailsOver \/ Pins \/ Peeks
  \/ \E w \in Writes : Adds(w) \/ Executes(w)
  \/ Flushes
  \/ \E answered \in BOOLEAN : Commits(answered)
  \/ Replicates

SessionSpec == SessionInit /\ [][SessionNext]_sessionVars

-----------------------------------------------------------------------------
(* Properties *)

\* A session's reads return what it has sent or committed, however far the
\* replica lags (tests/test_db_routing.py:65).
ReadYourWrites == missed = {}

\* Until an exception tells the code otherwise, what it has written is still
\* pending, sent or committed: the rollback of a failover takes nothing away
\* behind its back (core/database.py:140).
FailoverDropsNothing == open => made \subseteq pending \cup sent \cup own

\* A session that only reads, peeks included, stays off the primary.
PinsAreWanted == open /\ pinned => asked \/ (outer /\ ~scoped)
=============================================================================
