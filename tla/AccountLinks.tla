---------------------------- MODULE AccountLinks -----------------------------
(***************************************************************************)
(* The links mailed for email verification and password reset, for one     *)
(* account.  A link is a signed token whose jti is the account's pending   *)
(* one until a newer request supersedes it, and is burned in               *)
(* revoked_tokens by the transaction that redeems it.  Redeeming is four   *)
(* steps with awaits between them; only the last one writes.               *)
(***************************************************************************)
EXTENDS Naturals, FiniteSets

CONSTANTS
  Links,         \* jtis (uuid4: never reused)
  Handlers,      \* requests in progress at one time
  Lifetime,      \* Lifetime[kind]: VERIFY_TOKEN_EXPIRY, RESET_TOKEN_EXPIRY
  MaxTime        \* bound: the clock

Kinds == {"verify", "reset"}

ASSUME LinksAssumption ==
  /\ Lifetime \in [Kinds -> Nat \ {0}]
  /\ MaxTime \in Nat

VARIABLES
  now,           \* datetime.now(UTC)
  verified,      \* users.is_verified and users.is_active
  active,
  pending,       \* pending[k]: users.pending_*_jti, at most one link
  kind,          \* kind[l]: the type claim of link l, "none" before it exists
  expires,       \* expires[l]: its exp claim
  order,         \* history: order[l] links existed when l was committed
  revoked,       \* the links that have a row in revoked_tokens
  handler,       \* handler[h]: where the request is and what it carries
  effects        \* history: effects[l] times l changed the account

linkVars == <<pending, kind, expires, order>>
vars == <<now, verified, active, pending, kind, expires, order, revoked,
          handler, effects>>

Idle == [pc |-> "idle"]

\* newest is history: the number of links there were when the request came.
Redeeming == [pc : {"exists", "compare", "redeem"}, link : Links, newest : Nat]

TypeOK ==
  /\ now \in 0 .. MaxTime
  /\ verified \in BOOLEAN
  /\ active \in BOOLEAN
  /\ kind \in [Links -> Kinds \cup {"none"}]
  /\ pending \in [Kinds -> SUBSET Links]
  /\ \A k \in Kinds : Cardinality(pending[k]) <= 1 /\ \A l \in pending[k] : kind[l] = k
  /\ expires \in [Links -> Nat]
  /\ order \in [Links -> Nat]
  /\ revoked \in SUBSET Links
  /\ handler \in [Handlers -> {Idle} \cup [pc : {"issue"}, kind : Kinds] \cup Redeeming]
  /\ effects \in [Links -> Nat]

Issued == {l \in Links : kind[l] # "none"}

\* register: the account starts with its first verification link.
Init ==
  /\ now = 0
  /\ verified = FALSE
  /\ active = TRUE
  /\ \E l \in Links :
       /\ pending = [k \in Kinds |-> IF k = "verify" THEN {l} ELSE {}]
       /\ kind = [m \in Links |-> IF m = l THEN "verify" ELSE "none"]
       /\ expires = [m \in Links |-> IF m = l THEN Lifetime["verify"] ELSE 0]
  /\ order = [l \in Links |-> 0]
  /\ revoked = {}
  /\ handler = [h \in Handlers |-> Idle]
  /\ effects = [l \in Links |-> 0]

Go(h, pc) == handler' = [handler EXCEPT ![h].pc = pc]
Finish(h) == handler' = [handler EXCEPT ![h] = Idle]

-----------------------------------------------------------------------------
(* Requesting a link *)

\* resend_verification and forgot_password read the user, from a replica: what
\* they see may be old by the time they write.
Wanted(k) == IF k = "verify" THEN ~verified ELSE active

RequestStarts(h, k) ==
  /\ handler[h] = Idle
  /\ Wanted(k)
  /\ handler' = [handler EXCEPT ![h] = [pc |-> "issue", kind |-> k]]
  /\ UNCHANGED <<now, verified, active, linkVars, revoked, effects>>

\* Mutant: the newer link is added beside the pending one.
PendingBoth(k, l) == [pending EXCEPT ![k] = @ \cup {l}]

PendingAfter(k, l) == [pending EXCEPT ![k] = {l}]

\* start_email_verification, start_password_reset: the pending jti and the
\* outbox row of the mail, in one transaction.
Issues(h) ==
  /\ handler[h].pc = "issue"
  /\ LET k == handler[h].kind IN
     \E l \in Links \ Issued :
       /\ pending' = PendingAfter(k, l)
       /\ kind' = [kind EXCEPT ![l] = k]
       /\ expires' = [expires EXCEPT ![l] = now + Lifetime[k]]
       /\ order' = [order EXCEPT ![l] = Cardinality(Issued)]
  /\ Finish(h)
  /\ UNCHANGED <<now, verified, active, revoked, effects>>

-----------------------------------------------------------------------------
(* Redeeming one *)

\* The link is opened and decodes: its signature, its exp and its type are
\* right.  At the wrong endpoint, or later, nothing happens.
Opens(h, l) ==
  /\ handler[h] = Idle
  /\ l \in Issued
  /\ expires[l] > now
  /\ handler' = [handler EXCEPT ![h] =
       [pc |-> "exists", link |-> l, newest |-> Cardinality(Issued)]]
  /\ UNCHANGED <<now, verified, active, linkVars, revoked, effects>>

\* token_repo.exists counts unexpired rows only.
ChecksUsed(h) ==
  /\ handler[h].pc = "exists"
  /\ LET l == handler[h].link IN
     IF l \in revoked /\ expires[l] > now THEN Finish(h) ELSE Go(h, "compare")
  /\ UNCHANGED <<now, verified, active, linkVars, revoked, effects>>

\* Mutant: any link of the account will do.
NotSupersededAlways(l) == TRUE

NotSuperseded(l) == l \in pending[kind[l]]

\* The user is read from the primary and the jti compared; a reset also needs
\* an active account.
Compares(h) ==
  /\ handler[h].pc = "compare"
  /\ LET l == handler[h].link IN
     IF NotSuperseded(l) /\ (kind[l] = "reset" => active)
     THEN Go(h, "redeem") ELSE Finish(h)
  /\ UNCHANGED <<now, verified, active, linkVars, revoked, effects>>

\* Mutant: the row is inserted if absent, as logout does, and no conflict
\* undoes the change of the account.
BurnableTwice(l) == TRUE

\* jti is unique: the second INSERT raises, and the transaction rolls back.
Burnable(l) == l \notin revoked

\* account_repo.verify_email, reset_password: the account changes and the link
\* is burned, or neither.  The sessions a reset ends are RefreshSession's.
Redeems(h) ==
  /\ handler[h].pc = "redeem"
  /\ LET l == handler[h].link IN
     /\ Burnable(l)
     /\ revoked' = revoked \cup {l}
     /\ effects' = [effects EXCEPT ![l] = @ + 1]
     /\ verified' = (verified \/ kind[l] = "verify")
  /\ Finish(h)
  /\ UNCHANGED <<now, active, linkVars>>

RedeemConflicts(h) ==
  /\ handler[h].pc = "redeem"
  /\ ~Burnable(handler[h].link)
  /\ Finish(h)
  /\ UNCHANGED <<now, verified, active, linkVars, revoked, effects>>

\* The client hangs up, the server dies or the database fails.
Abandons(h) ==
  /\ handler[h] # Idle
  /\ Finish(h)
  /\ UNCHANGED <<now, verified, active, linkVars, revoked, effects>>

-----------------------------------------------------------------------------
(* What else touches them *)

\* close_account
CloseAccount ==
  /\ active' = FALSE
  /\ UNCHANGED <<now, verified, linkVars, revoked, handler, effects>>

\* Mutant: the purge takes every row.
PurgeableAny(l) == TRUE

Purgeable(l) == expires[l] <= now

\* cleanup_revoked_tokens_task
PurgeExpired ==
  /\ revoked' = {l \in revoked : ~Purgeable(l)}
  /\ UNCHANGED <<now, verified, active, linkVars, handler, effects>>

Tick ==
  /\ now < MaxTime
  /\ now' = now + 1
  /\ UNCHANGED <<verified, active, linkVars, revoked, handler, effects>>

HandlerNext(h) ==
  \/ \E k \in Kinds : RequestStarts(h, k)
  \/ Issues(h)
  \/ \E l \in Links : Opens(h, l)
  \/ ChecksUsed(h) \/ Compares(h) \/ Redeems(h) \/ RedeemConflicts(h)
  \/ Abandons(h)

Next ==
  \/ \E h \in Handlers : HandlerNext(h)
  \/ CloseAccount \/ PurgeExpired \/ Tick

Spec == Init /\ [][Next]_vars

-----------------------------------------------------------------------------
(* Properties *)

\* The unique jti is what makes a link single-use, whatever the requests that
\* race on it have checked before: as long as a link has not expired it has
\* changed the account at most once, and once it has, its row is there.
UsedOnceWhileValid ==
  \A l \in Links : expires[l] > now =>
    effects[l] <= 1 /\ (effects[l] = 1 => l \in revoked)

\* The comparison with the pending jti is made some awaits before the link is
\* burned, so a newer request may slip in between; but a link that was already
\* superseded when its request arrived never gets to the transaction.
SupersededLinksFail ==
  \A h \in Handlers : handler[h].pc = "redeem" =>
    LET l == handler[h].link IN
    \A m \in Links :
      kind[m] = kind[l] /\ order[m] > order[l] => order[m] >= handler[h].newest
=============================================================================
