--------------------------- MODULE TokenBlocklist ----------------------------
(***************************************************************************)
(* Revoked access and refresh tokens: the table revoked_tokens, the copy   *)
(* of it in Redis that answers is_token_revoked, and the fallback that     *)
(* rebuilds the copy when its READY key is gone.  Logout writes Redis      *)
(* first and PostgreSQL second; the two do not commit together, and Redis  *)
(* may lose what it has.                                                   *)
(***************************************************************************)
EXTENDS Naturals, FiniteSets

CONSTANTS
  Tokens,        \* jtis of access and refresh tokens
  Handlers,      \* requests in progress at one time
  MaxLosses      \* bound: losses of Redis data in a behaviour

ASSUME BlocklistAssumption == MaxLosses \in Nat

VARIABLES
  table,         \* the tokens with a row in revoked_tokens
  keys,          \* the tokens with a JTI key in Redis
  ready,         \* whether READY_KEY exists
  seeding,       \* whether SEEDING_KEY exists
  saved,         \* the copy a restart of Redis comes back with
  expired,       \* the tokens whose exp has passed
  handler,       \* handler[h]: where the request is and what it carries
  loggedOut,     \* history: tokens whose logout was answered with success
  torn,          \* history: tokens whose key was lost at a bad moment
  losses         \* losses so far

redisVars == <<keys, ready, seeding, saved>>
blocklistVars == <<table, keys, ready, seeding, saved, expired, handler,
                   loggedOut, torn, losses>>

Copies == [keys : SUBSET Tokens, ready : BOOLEAN]
Answers == {"unknown", "clean", "revoked"}
NoRequest == [pc |-> "idle"]

\* late is history: whether the token had been logged out when the check began.
Checking == [pc : {"lookup", "exists", "claim", "list", "fill", "ready", "answer"},
             token : Tokens, late : BOOLEAN, answer : Answers,
             listed : SUBSET Tokens]
LoggingOut == [pc : {"publish", "record"}, tokens : SUBSET Tokens]

\* A key has the lifetime of its token, and a row outlives it.
BlocklistTypeOK ==
  /\ table \in SUBSET Tokens
  /\ keys \in SUBSET (Tokens \ expired)
  /\ ready \in BOOLEAN
  /\ seeding \in BOOLEAN
  /\ saved \in Copies
  /\ expired \in SUBSET Tokens
  /\ handler \in [Handlers -> {NoRequest} \cup Checking \cup LoggingOut]
  /\ loggedOut \in SUBSET Tokens
  /\ torn \in SUBSET Tokens
  /\ losses \in 0 .. MaxLosses

Empty == [keys |-> {}, ready |-> FALSE]

BlocklistInit ==
  /\ table = {}
  /\ keys = {}
  /\ ready = FALSE
  /\ seeding = FALSE
  /\ saved = Empty
  /\ expired = {}
  /\ handler = [h \in Handlers |-> NoRequest]
  /\ loggedOut = {}
  /\ torn = {}
  /\ losses = 0

Go(h, pc) == handler' = [handler EXCEPT ![h].pc = pc]
Finish(h) == handler' = [handler EXCEPT ![h] = NoRequest]

\* Mutant: the keys are set without their px.
SettableForever(ts) == ts

\* revoke skips the tokens that have no lifetime left.
Settable(ts) == ts \ expired

-----------------------------------------------------------------------------
(* logout and close_account *)

\* The token of the request, and the refresh token of its cookie if it has one.
LogoutStarts(h, ts) ==
  /\ handler[h] = NoRequest
  /\ ts # {} /\ ts \cap expired = {}
  /\ handler' = [handler EXCEPT ![h] = [pc |-> "publish", tokens |-> ts]]
  /\ UNCHANGED <<table, redisVars, expired, loggedOut, torn, losses>>

\* blocklist.revoke
Publishes(h) ==
  /\ handler[h].pc = "publish"
  /\ keys' = keys \cup Settable(handler[h].tokens)
  /\ Go(h, "record")
  /\ UNCHANGED <<table, ready, seeding, saved, expired, loggedOut, torn, losses>>

\* Mutant: the RedisError is logged and dropped, as seed does.
PublishGoesOn(h) == Go(h, "record")

\* An exception leaves logout: nothing is written to the table.
PublishGivesUp(h) == Finish(h)

\* The pipeline is not a transaction: it may fail after some of its SETs.
PublishFails(h) ==
  /\ handler[h].pc = "publish"
  /\ \E done \in SUBSET Settable(handler[h].tokens) : keys' = keys \cup done
  /\ PublishGivesUp(h)
  /\ UNCHANGED <<table, ready, seeding, saved, expired, loggedOut, torn, losses>>

\* account_repo.logout, close_account: the rows are committed, the client is
\* answered.
Records(h) ==
  /\ handler[h].pc = "record"
  /\ table' = table \cup handler[h].tokens
  /\ loggedOut' = loggedOut \cup handler[h].tokens
  /\ Finish(h)
  /\ UNCHANGED <<redisVars, expired, torn, losses>>

-----------------------------------------------------------------------------
(* is_token_revoked *)

\* A request with token t decodes.
CheckStarts(h, t) ==
  /\ handler[h] = NoRequest
  /\ t \notin expired
  /\ handler' = [handler EXCEPT ![h] =
       [pc |-> "lookup", token |-> t, late |-> t \in loggedOut,
        answer |-> "unknown", listed |-> {}]]
  /\ UNCHANGED <<table, redisVars, expired, loggedOut, torn, losses>>

AnswerOf(found) == IF found THEN "revoked" ELSE "clean"

\* One MGET of the JTI key and READY_KEY.
LooksUp(h) ==
  /\ handler[h].pc = "lookup"
  /\ handler' = [handler EXCEPT
       ![h].pc = IF ready THEN "answer" ELSE "exists",
       ![h].answer = IF ready THEN AnswerOf(handler[h].token \in keys) ELSE "unknown"]
  /\ UNCHANGED <<table, redisVars, expired, loggedOut, torn, losses>>

\* Redis does not answer: fall back to the table.
LookupFails(h) ==
  /\ handler[h].pc = "lookup"
  /\ Go(h, "exists")
  /\ UNCHANGED <<table, redisVars, expired, loggedOut, torn, losses>>

\* repo.exists, on the primary.
AsksTable(h) ==
  /\ handler[h].pc = "exists"
  /\ handler' = [handler EXCEPT
       ![h].pc = "claim",
       ![h].answer = AnswerOf(handler[h].token \in table \ expired)]
  /\ UNCHANGED <<table, redisVars, expired, loggedOut, torn, losses>>

\* claim_seeding: SET NX, for 60 seconds.
Claims(h) ==
  /\ handler[h].pc = "claim"
  /\ ~seeding
  /\ seeding' = TRUE
  /\ Go(h, "list")
  /\ UNCHANGED <<table, keys, ready, saved, expired, loggedOut, torn, losses>>

\* Another request seeds, or Redis does not answer.
DoesNotSeed(h) ==
  /\ handler[h].pc = "claim"
  /\ Go(h, "answer")
  /\ UNCHANGED <<table, redisVars, expired, loggedOut, torn, losses>>

\* repo.list_active
Lists(h) ==
  /\ handler[h].pc = "list"
  /\ handler' = [handler EXCEPT ![h].pc = "fill", ![h].listed = table \ expired]
  /\ UNCHANGED <<table, redisVars, expired, loggedOut, torn, losses>>

\* The revoke of seed.
FillsCopy(h) ==
  /\ handler[h].pc = "fill"
  /\ keys' = keys \cup Settable(handler[h].listed)
  /\ Go(h, "ready")
  /\ UNCHANGED <<table, ready, seeding, saved, expired, loggedOut, torn, losses>>

\* Mutant: READY is set although some tokens were not.
FillGoesOn(h) == Go(h, "ready")

FillGivesUp(h) == Go(h, "answer")

FillFails(h) ==
  /\ handler[h].pc = "fill"
  /\ \E done \in SUBSET Settable(handler[h].listed) : keys' = keys \cup done
  /\ FillGivesUp(h)
  /\ UNCHANGED <<table, ready, seeding, saved, expired, loggedOut, torn, losses>>

\* The SET of READY_KEY, or its failure.
SetsReady(h) ==
  /\ handler[h].pc = "ready"
  /\ ready' \in {ready, TRUE}
  /\ Go(h, "answer")
  /\ UNCHANGED <<table, keys, seeding, saved, expired, loggedOut, torn, losses>>

\* is_token_revoked returns, or a request of either kind is cut off.
Ends(h) ==
  /\ handler[h] # NoRequest
  /\ Finish(h)
  /\ UNCHANGED <<table, redisVars, expired, loggedOut, torn, losses>>

-----------------------------------------------------------------------------
(* Time and Redis *)

\* SEEDING_KEY expires, whether its owner is through or not.
SeedingExpires ==
  /\ seeding
  /\ seeding' = FALSE
  /\ UNCHANGED <<table, keys, ready, saved, expired, handler, loggedOut, torn, losses>>

\* The exp of a token passes; its key was set to go at that moment.
Expires(t) ==
  /\ t \notin expired
  /\ expired' = expired \cup {t}
  /\ keys' = Settable(keys) \ {t}
  /\ saved' = [saved EXCEPT !.keys = @ \ {t}]
  /\ UNCHANGED <<table, ready, seeding, handler, loggedOut, torn, losses>>

\* cleanup_revoked_tokens_task
PurgeExpired ==
  /\ table' = table \ expired
  /\ UNCHANGED <<redisVars, expired, handler, loggedOut, torn, losses>>

\* appendfsync everysec
Fsync ==
  /\ saved' = [keys |-> keys, ready |-> ready]
  /\ UNCHANGED <<table, keys, ready, seeding, expired, handler, loggedOut, torn, losses>>

\* The keys nothing will put back: those of a logout that is not recorded yet,
\* and those a seeder that is past its listing relies on.
Exposed(h) ==
  CASE handler[h].pc = "record" -> handler[h].tokens
    [] handler[h].pc = "fill" -> keys \ handler[h].listed
    [] handler[h].pc = "ready" -> keys
    [] OTHER -> {}

\* Redis comes back with c: empty after a flush, or as of the last fsync.
RedisLoses ==
  /\ losses < MaxLosses
  /\ \E c \in {Empty, saved} :
       LET gone == keys \ c.keys IN
       /\ keys' = c.keys
       /\ ready' = c.ready
       /\ saved' = c
       /\ torn' = torn \cup
            (IF c.ready THEN gone ELSE gone \cap UNION {Exposed(h) : h \in Handlers})
  /\ seeding' \in {FALSE, seeding}
  /\ losses' = losses + 1
  /\ UNCHANGED <<table, expired, handler, loggedOut>>

LogoutNext(h) ==
  \/ \E ts \in SUBSET Tokens : LogoutStarts(h, ts)
  \/ Publishes(h) \/ PublishFails(h) \/ Records(h)

CheckNext(h) ==
  \/ \E t \in Tokens : CheckStarts(h, t)
  \/ LooksUp(h) \/ LookupFails(h) \/ AsksTable(h) \/ Claims(h) \/ DoesNotSeed(h)
  \/ Lists(h) \/ FillsCopy(h) \/ FillFails(h) \/ SetsReady(h)

BlocklistNext ==
  \/ \E h \in Handlers : LogoutNext(h) \/ CheckNext(h) \/ Ends(h)
  \/ SeedingExpires \/ PurgeExpired \/ Fsync \/ RedisLoses
  \/ \E t \in Tokens : Expires(t)

BlocklistSpec == BlocklistInit /\ [][BlocklistNext]_blocklistVars

-----------------------------------------------------------------------------
(* Properties *)

\* READY means that Redis has every revocation in the table, also while
\* several seeders and logouts are at work, unless Redis lost a key at a
\* moment when nothing was left that would put it back.
ReadyIsComplete ==
  ready => table \ expired \subseteq keys \cup torn

\* Once a logout was answered, no later check finds its tokens clean, by the
\* copy or by the table, but for such a loss and for a token that expired
\* while it was being checked.
LogoutIsSeen ==
  \A h \in Handlers : handler[h].pc = "answer" =>
    (handler[h].late /\ handler[h].answer = "clean" =>
       handler[h].token \in torn \cup expired)
=============================================================================
