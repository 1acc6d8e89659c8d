--------------------------- MODULE RefreshSession ---------------------------
(***************************************************************************)
(* Login sessions and the rotation of their refresh cookies, for one       *)
(* verified account: AuthService over the refresh_sessions table.  Every   *)
(* request is a sequence of transactions with awaits between them, so a    *)
(* handler acts on what it read some steps ago.  Statements run in READ    *)
(* COMMITTED: they see the rows committed when they begin, wait for rows   *)
(* that another transaction changed, and re-test their WHERE clause then.  *)
(* A repository call with one statement on these tables is one step; the   *)
(* reset and the closing have two, and stay open between them.             *)
(***************************************************************************)
EXTENDS Naturals, FiniteSets

CONSTANTS
  Sessions,      \* ids of refresh_sessions rows (uuid4: never reused)
  Handlers,      \* requests in progress at one time
  TTL,           \* settings.jwt_refresh_token_ttl_days, in ticks
  Grace,         \* settings.refresh_reuse_grace_seconds, in ticks
  MaxTime,       \* bound: the clock
  MaxGen,        \* bound: rotations of one session
  MaxSweeps      \* bound: UPDATEs of refresh_sessions by resets and closings

ASSUME SessionAssumption ==
  /\ TTL \in Nat \ {0} /\ Grace \in Nat
  /\ MaxTime \in Nat /\ MaxGen \in Nat /\ MaxSweeps \in Nat

VARIABLES
  now,           \* datetime.now(UTC)
  active,        \* users.is_active
  status,        \* status[s]: "live" is a row with revoked_at null
  generation,    \* generation[s], rotated[s], expires[s]: the row's columns
  rotated,
  expires,
  cookies,       \* the <<s, g>> cookies some client received
  handler,       \* handler[h]: where the request is and what it carries
  wins,          \* history: wins[s][g] rotations from generation g succeeded
  sweeps,        \* history: the sweeps, which are numbered as they begin
  era,           \* history: era[s] is sweeps when s was created
  swept,         \* history: the last sweep that was committed
  closed,        \* history: the sweep of the closing, once that is committed
  final          \* history: generation as the closing found it

rowVars == <<status, generation, rotated, expires>>
sweepVars == <<sweeps, era, swept, closed, final>>
vars == <<now, active, status, generation, rotated, expires, cookies, handler,
          wins, sweeps, era, swept, closed, final>>

Generations == 0 .. MaxGen
Times == 0 .. MaxTime
Sweeps == 0 .. MaxSweeps
Idle == [pc |-> "idle"]

\* A login or a refresh, with the time of its first read.
LoggingIn == [pc : {"create"}, since : Times]
Refreshing == [pc : {"rotate", "inspect", "revoke"}, since : Times,
               sid : Sessions, gen : Generations]

\* A reset or a closing before its transaction, and in it, where it holds the
\* lock of the user's row and then those of the sessions it revokes.  "repeat"
\* closes an account that is closed: its UPDATE changes nothing, locks nothing.
Kinds == {"reset", "close", "repeat"}
Ending == [pc : {"reset"}]
            \cup [pc : {"staged"}, kind : Kinds]
            \cup [pc : {"swept"}, kind : Kinds, rows : SUBSET Sessions, sweep : Sweeps]

Requests == {Idle} \cup LoggingIn \cup Refreshing \cup Ending

TypeOK ==
  /\ now \in Times
  /\ active \in BOOLEAN
  /\ status \in [Sessions -> {"none", "live", "revoked", "purged"}]
  /\ generation \in [Sessions -> Generations]
  /\ rotated \in [Sessions -> Nat]
  /\ expires \in [Sessions -> Nat]
  /\ cookies \in SUBSET (Sessions \X Generations)
  /\ handler \in [Handlers -> Requests]
  /\ wins \in [Sessions -> [Generations -> Nat]]
  /\ sweeps \in Sweeps /\ swept \in Sweeps /\ closed \in Sweeps
  /\ era \in [Sessions -> Sweeps]
  /\ final \in [Sessions -> Generations]

Init ==
  /\ now = 0
  /\ active = TRUE
  /\ status = [s \in Sessions |-> "none"]
  /\ generation = [s \in Sessions |-> 0]
  /\ rotated = [s \in Sessions |-> 0]
  /\ expires = [s \in Sessions |-> 0]
  /\ cookies = {}
  /\ handler = [h \in Handlers |-> Idle]
  /\ wins = [s \in Sessions |-> [g \in Generations |-> 0]]
  /\ sweeps = 0 /\ swept = 0 /\ closed = 0
  /\ era = [s \in Sessions |-> 0]
  /\ final = [s \in Sessions |-> 0]

IsLive(s) == status[s] = "live" /\ expires[s] > now

\* Mutant: the cookie is built from the generation before that of the row.
DeliverBehind(s, g) == cookies' \in {cookies, cookies \cup {<<s, g - 1>>}}

\* The response with the new cookie reaches the client, or is lost.
Deliver(s, g) == cookies' \in {cookies, cookies \cup {<<s, g>>}}

Finish(h) == handler' = [handler EXCEPT ![h] = Idle]

\* The row of s was changed by an open transaction: a statement that would
\* change it waits.
Locked(s) ==
  status[s] = "live" /\ \E h \in Handlers : handler[h].pc = "swept" /\ s \in handler[h].rows

-----------------------------------------------------------------------------
(* login *)

\* authenticate reads the user; the right password of that moment and an
\* active account will pass the check after the bcrypt await, others change
\* nothing.
LoginReads(h) ==
  /\ handler[h] = Idle
  /\ active
  /\ handler' = [handler EXCEPT ![h] = [pc |-> "create", since |-> now]]
  /\ UNCHANGED <<now, active, rowVars, cookies, wins, sweepVars>>

\* session_repo.create, with the answer of a check of what was read and an
\* expiry reckoned from some moment since then.
LoginCreates(h) ==
  /\ handler[h].pc = "create"
  /\ \E s \in Sessions, at \in handler[h].since .. now :
       /\ status[s] = "none"
       /\ status' = [status EXCEPT ![s] = "live"]
       /\ expires' = [expires EXCEPT ![s] = at + TTL]
       /\ era' = [era EXCEPT ![s] = sweeps]
       /\ Deliver(s, 0)
  /\ Finish(h)
  /\ UNCHANGED <<now, active, generation, rotated, wins, sweeps, swept, closed, final>>

-----------------------------------------------------------------------------
(* refresh *)

\* Mutant: refresh without its check of the user.
AdmitsAnyUser == TRUE

\* refresh reads the user from the primary and refuses an inactive one.
AdmitsUser == active

\* The cookie, which expires with its session, is presented.
RefreshStarts(h, s, g) ==
  /\ handler[h] = Idle
  /\ <<s, g>> \in cookies
  /\ g < MaxGen
  /\ expires[s] > now
  /\ AdmitsUser
  /\ handler' = [handler EXCEPT ![h] =
       [pc |-> "rotate", since |-> now, sid |-> s, gen |-> g]]
  /\ UNCHANGED <<now, active, rowVars, cookies, wins, sweepVars>>

\* Mutants: rotate without its generation, and without its revoked_at.
RotatableAnyGeneration(s, g, at) == status[s] = "live" /\ expires[s] > at
RotatableRevoked(s, g, at) ==
  status[s] \in {"live", "revoked"} /\ expires[s] > at /\ generation[s] = g

\* The WHERE clause of rotate, with the clock it took.
Rotatable(s, g, at) == status[s] = "live" /\ expires[s] > at /\ generation[s] = g

\* rotate: it takes its clock some time after the user was read, and awaits one
\* UPDATE ... RETURNING, which it commits.
Rotates(h) ==
  /\ handler[h].pc = "rotate"
  /\ LET s == handler[h].sid
         g == handler[h].gen IN
     /\ \E at \in handler[h].since .. now :
          /\ Rotatable(s, g, at)
          /\ rotated' = [rotated EXCEPT ![s] = at]
     /\ ~Locked(s)
     /\ generation[s] < MaxGen
     /\ generation' = [generation EXCEPT ![s] = @ + 1]
     /\ wins' = [wins EXCEPT ![s][g] = @ + 1]
     /\ Deliver(s, generation[s] + 1)
  /\ Finish(h)
  /\ UNCHANGED <<now, active, status, expires, sweepVars>>

RotateMisses(h) ==
  /\ handler[h].pc = "rotate"
  /\ \E at \in handler[h].since .. now :
       ~Rotatable(handler[h].sid, handler[h].gen, at)
  /\ handler' = [handler EXCEPT ![h].pc = "inspect"]
  /\ UNCHANGED <<now, active, rowVars, cookies, wins, sweepVars>>

\* Mutant: the tab race is looked for one generation too far.
WasJustRotatedFromNewer(s, g) == generation[s] > g + 1

WasJustRotatedFrom(s, g) == generation[s] = g + 1 /\ now <= rotated[s] + Grace

\* session_repo.get, a fresh read: 401 for a session that ended, 409 within
\* the grace period, else the cookie was reused.
Inspects(h) ==
  /\ handler[h].pc = "inspect"
  /\ LET s == handler[h].sid IN
     IF IsLive(s) /\ ~WasJustRotatedFrom(s, handler[h].gen)
     THEN handler' = [handler EXCEPT ![h].pc = "revoke"]
     ELSE Finish(h)
  /\ UNCHANGED <<now, active, rowVars, cookies, wins, sweepVars>>

Revoked(ss) ==
  [s \in Sessions |-> IF s \in ss /\ status[s] = "live" THEN "revoked" ELSE status[s]]

\* session_repo.revoke, then the 401.
RevokesReused(h) ==
  /\ handler[h].pc = "revoke"
  /\ ~Locked(handler[h].sid)
  /\ status' = Revoked({handler[h].sid})
  /\ Finish(h)
  /\ UNCHANGED <<now, active, generation, rotated, expires, cookies, wins, sweepVars>>

-----------------------------------------------------------------------------
(* reset_password and close_account: UPDATE users, UPDATE refresh_sessions,  *)
(* COMMIT                                                                    *)

\* reset_password read an active user for a good link; it hashes the password.
ResetReads(h) ==
  /\ handler[h] = Idle
  /\ active
  /\ handler' = [handler EXCEPT ![h] = [pc |-> "reset"]]
  /\ UNCHANGED <<now, active, rowVars, cookies, wins, sweepVars>>

\* No open transaction has changed the user's row.
UserFree ==
  \A h \in Handlers : handler[h].pc \in {"staged", "swept"} => handler[h].kind = "repeat"

\* stage_update flushes the UPDATE of users; inserts into refresh_sessions only
\* need the key of that row and do not wait for it.  A closing may read the
\* account as open and wait for the UPDATE of another, or find it closed.
StagesUser(h) ==
  /\ \E kind \in Kinds :
       /\ \/ kind = "reset" /\ handler[h].pc = "reset"
          \/ kind # "reset" /\ handler[h] = Idle
       /\ IF kind = "repeat" THEN ~active ELSE UserFree
       /\ handler' = [handler EXCEPT ![h] = [pc |-> "staged", kind |-> kind]]
  /\ UNCHANGED <<now, active, rowVars, cookies, wins, sweepVars>>

\* Mutant: only sessions that were refreshed before are ended.
RotatedSessionsOfUser == {s \in Sessions : status[s] = "live" /\ generation[s] > 0}

\* The WHERE clause of stage_revoke_all_for_user.
SessionsOfUser == {s \in Sessions : status[s] = "live"}

\* The UPDATE of refresh_sessions reaches the rows that are committed now.
SweepsSessions(h) ==
  /\ handler[h].pc = "staged"
  /\ sweeps < MaxSweeps
  /\ sweeps' = sweeps + 1
  /\ handler' = [handler EXCEPT ![h] = [pc |-> "swept", kind |-> handler[h].kind,
                                       rows |-> SessionsOfUser, sweep |-> sweeps + 1]]
  /\ UNCHANGED <<now, active, rowVars, cookies, wins, era, swept, closed, final>>

\* An earlier transaction holds rows that this one's UPDATE waits for.
Waits(h) ==
  \E i \in Handlers :
    /\ handler[i].pc = "swept" /\ handler[i].sweep < handler[h].sweep
    /\ handler[i].rows \cap handler[h].rows # {}

\* The COMMIT.
CommitsEnding(h) ==
  /\ handler[h].pc = "swept"
  /\ ~Waits(h)
  /\ status' = Revoked(handler[h].rows)
  /\ active' = (active /\ handler[h].kind = "reset")
  /\ swept' = IF handler[h].sweep > swept THEN handler[h].sweep ELSE swept
  /\ IF active /\ ~active'
     THEN closed' = handler[h].sweep /\ final' = generation
     ELSE UNCHANGED <<closed, final>>
  /\ Finish(h)
  /\ UNCHANGED <<now, generation, rotated, expires, cookies, wins, sweeps, era>>

\* The client hangs up, a statement fails (a reset link that was used by now)
\* or the server dies: an open transaction is rolled back.
Abandons(h) ==
  /\ handler[h] # Idle
  /\ Finish(h)
  /\ UNCHANGED <<now, active, rowVars, cookies, wins, sweepVars>>

-----------------------------------------------------------------------------
(* What else ends sessions: each is one transaction *)

\* account_repo.logout, with the session of the cookie that came along.
Logout(s) ==
  /\ \E g \in Generations : <<s, g>> \in cookies
  /\ expires[s] > now
  /\ ~Locked(s)
  /\ status' = Revoked({s})
  /\ UNCHANGED <<now, active, generation, rotated, expires, cookies, handler,
                 wins, sweepVars>>

\* cleanup_refresh_sessions_task, with the clock it took.
PurgeExpired ==
  /\ \E at \in 0 .. now :
       LET ended == {s \in Sessions : status[s] # "none" /\ expires[s] <= at} IN
       /\ \A s \in ended : ~Locked(s)
       /\ status' = [s \in Sessions |-> IF s \in ended THEN "purged" ELSE status[s]]
  /\ UNCHANGED <<now, active, generation, rotated, expires, cookies, handler,
                 wins, sweepVars>>

Tick ==
  /\ now < MaxTime
  /\ now' = now + 1
  /\ UNCHANGED <<active, rowVars, cookies, handler, wins, sweepVars>>

-----------------------------------------------------------------------------
HandlerNext(h) ==
  \/ LoginReads(h) \/ LoginCreates(h)
  \/ \E s \in Sessions, g \in Generations : RefreshStarts(h, s, g)
  \/ Rotates(h) \/ RotateMisses(h) \/ Inspects(h) \/ RevokesReused(h)
  \/ ResetReads(h) \/ StagesUser(h) \/ SweepsSessions(h) \/ CommitsEnding(h)
  \/ Abandons(h)

Next ==
  \/ \E h \in Handlers : HandlerNext(h)
  \/ \E s \in Sessions : Logout(s)
  \/ PurgeExpired \/ Tick

Spec == Init /\ [][Next]_vars

-----------------------------------------------------------------------------
(* Properties *)

\* rotate is a compare-and-set: of all the tabs that present generation g of
\* a session exactly one ever gets the next cookie, and no cookie is ahead of
\* its row (tests/test_refresh_session_repository.py:14).
OneRotationPerGeneration ==
  \A s \in Sessions :
    /\ \A g \in Generations : wins[s][g] = IF g < generation[s] THEN 1 ELSE 0
    /\ \A g \in Generations : <<s, g>> \in cookies => g <= generation[s]

\* A session that was revoked, purged or has expired never comes back, and no
\* step moves its end.  What a revoked or purged one has issued is final; one
\* that has expired issues a cookie, expired as it is, only to a request that
\* was admitted and took its clock before the end and whose UPDATE was late.
EndedSessionsStayEnded ==
  [][\A s \in Sessions : status[s] # "none" =>
       /\ ~IsLive(s) => ~IsLive(s)'
       /\ expires'[s] = expires[s]
       /\ generation'[s] # generation[s] =>
            status[s] = "live" /\ rotated'[s] < expires[s]]_vars

\* A reset or a closing reaches every session committed before its UPDATE of
\* refresh_sessions, also one that was being rotated: what is live after the
\* COMMIT was created by a login that committed after that UPDATE.
ResetReachesEverySession ==
  \A s \in Sessions : status[s] = "live" => era[s] >= swept

\* Once the closing is committed, no session its UPDATE reached rotates again,
\* not even for a request under way, and one that was committed behind that
\* UPDATE does at most once: what passed the check of the user before may win
\* a rotation, and nothing passes it with the cookie that yields.
ClosedAccountStopsRotating ==
  ~active => \A s \in Sessions :
    generation[s] <= IF era[s] < closed THEN final[s] ELSE final[s] + 1

\* A session is revoked for reuse only on a cookie that really was superseded,
\* and not while its one successor is within the grace period when inspected.
ReuseMeansSuperseded ==
  \A h \in Handlers : handler[h].pc = "revoke" =>
    LET s == handler[h].sid IN
    /\ generation[s] > handler[h].gen
    /\ generation[s] = handler[h].gen + 1 => now > rotated[s] + Grace
=============================================================================
