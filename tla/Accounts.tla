------------------------------ MODULE Accounts ------------------------------
(***************************************************************************)
(* The users table: registration, which commits an account together with   *)
(* its verification link and the outbox row of the mail, changes of an     *)
(* account's address, and the seed script.  Nothing reads before it        *)
(* writes to find out whether an address is free: the unique index         *)
(* decides, and makes a transaction wait for another one that may still    *)
(* take or release the address.                                            *)
(*                                                                         *)
(* The outbox appears as TaskDelivery; the mail of account u is event u.   *)
(***************************************************************************)
CONSTANTS
  Users,         \* ids of accounts (uuid4: never reused)
  Addresses,
  Admin,         \* --admin-email of the seed script
  Handlers,      \* requests in progress at one time
  None,          \* no committed row: no address
  Null           \* the address of a PATCH that says {"email": null}

ASSUME AccountsAssumption ==
  /\ Admin \in Addresses
  /\ None \notin Addresses /\ Null \notin Addresses /\ None # Null

VARIABLES
  email,         \* email[u]: users.email of the committed row of u, or None
  verified,      \* the accounts with is_verified
  linked,        \* those with a pending_verification_jti
  promise, handed, \* of TaskDelivery
  born,          \* the ids given out
  seeded,        \* history: those that the seed script created
  handler,       \* handler[h]: where the request is and what it carries
  seed           \* where the seed script is

rowVars  == <<email, verified, linked, promise, handed>>
vars == <<email, verified, linked, promise, handed, born, seeded, handler, seed>>

Outbox == INSTANCE TaskDelivery WITH Events <- Users

Idle == [pc |-> "idle"]

TypeOK ==
  /\ email \in [Users -> Addresses \cup {None}]
  /\ verified \in SUBSET Users
  /\ linked \in SUBSET Users
  /\ Outbox!TypeOK
  /\ born \in SUBSET Users
  /\ seeded \in SUBSET born
  /\ handler \in [Handlers -> {Idle} \cup
       [pc : {"insert", "commit", "lock", "write", "patched"},
        user : Users, to : Addresses \cup {Null}]]
  /\ seed \in [pc : {"off", "reset", "count", "admin", "users"}]
             \cup [pc : {"grant", "verify"}, user : Users]

Init ==
  /\ email = [u \in Users |-> None]
  /\ verified = {} /\ linked = {} /\ born = {} /\ seeded = {}
  /\ Outbox!Init
  /\ handler = [h \in Handlers |-> Idle]
  /\ seed = [pc |-> "off"]

At(h, pc) == handler[h].pc = pc
Go(h, pc) == handler' = [handler EXCEPT ![h].pc = pc]
Finish(h) == handler' = [handler EXCEPT ![h] = Idle]

-----------------------------------------------------------------------------
(* The unique index and the row locks, as they look from outside h's         *)
(* transaction                                                               *)

\* The open transactions that hold an uncommitted entry for address a.
Taking(a) ==
  {h \in Handlers : handler[h].pc \in {"commit", "patched"} /\ handler[h].to = a}

\* Those that have updated the row of u.
Updating(u) ==
  {h \in Handlers : handler[h].pc \in {"write", "patched"} /\ handler[h].user = u}

\* Those that will decide whether u can have address a.
Deciding(u, a) ==
  Taking(a) \cup UNION {Updating(v) : v \in {w \in Users \ {u} : email[w] = a}}

\* Mutant: the column without its unique=True.
NeverTaken(u, a) == FALSE

Taken(u, a) == \E v \in Users \ {u} : email[v] = a

\* Mutant: the column without its NOT NULL.
RefusesTaken(u, a) == Taken(u, a)

\* The table's constraints.
Refuses(u, a) == a = Null \/ Taken(u, a)

\* A uuid4 that nobody has.
Fresh == CHOOSE u \in Users : u \notin born

-----------------------------------------------------------------------------
(* POST /users *)

\* register: the id, the link and the hash of the password are made first.
RegisterStarts(h, a) ==
  /\ At(h, "idle")
  /\ born # Users
  /\ born' = born \cup {Fresh}
  /\ handler' = [handler EXCEPT ![h] = [pc |-> "insert", user |-> Fresh, to |-> a]]
  /\ UNCHANGED <<rowVars, seeded, seed>>

\* Mutant: the account is committed before the mail is staged, as it once was.
EmailAfterAdd(h) == [email EXCEPT ![handler[h].user] = handler[h].to]

\* stage_add flushes and commits nothing.
EmailAfterInsert(h) == email

\* Mutant: transaction() does not roll back, the connection keeps its locks.
AfterConflictLeftOpen(h) == handler[h]

\* The ConflictError leaves transaction(), which rolls back.
AfterConflict(h) == Idle

\* The INSERT waits until nobody is deciding about the address; then it is
\* taken (ConflictError, 409) or the row is there, uncommitted.
Inserts(h) ==
  /\ At(h, "insert")
  /\ LET u == handler[h].user a == handler[h].to IN
     /\ Deciding(u, a) = {}
     /\ IF Refuses(u, a)
        THEN handler' = [handler EXCEPT ![h] = AfterConflict(h)] /\ UNCHANGED email
        ELSE Go(h, "commit") /\ email' = EmailAfterInsert(h)
  /\ UNCHANGED <<verified, linked, promise, handed, born, seeded, seed>>

\* OutboxRepository.stage_add in the same transaction, and the commit: the
\* account, its pending jti and the mail.
CommitsAccount(h) ==
  /\ At(h, "commit")
  /\ LET u == handler[h].user IN
     /\ email' = [email EXCEPT ![u] = handler[h].to]
     /\ linked' = linked \cup {u}
     /\ Outbox!Promise(u)
  /\ Finish(h)
  /\ UNCHANGED <<verified, born, seeded, seed>>

-----------------------------------------------------------------------------
(* PATCH /users/me *)

\* The caller has an access token, so it was verified when it logged in.
PatchStarts(h, u, a) ==
  /\ At(h, "idle")
  /\ u \in verified
  /\ handler' = [handler EXCEPT ![h] = [pc |-> "lock", user |-> u, to |-> a]]
  /\ UNCHANGED <<rowVars, born, seeded, seed>>

\* stage_update loads the row; without one the answer is 404.  The UPDATE then
\* locks it, after whoever updates it is through.
LocksRow(h) ==
  /\ At(h, "lock")
  /\ LET u == handler[h].user IN
     IF email[u] = None THEN Finish(h) ELSE Updating(u) = {} /\ Go(h, "write")
  /\ UNCHANGED <<rowVars, born, seeded, seed>>

\* The UPDATE enters the new address into the index, or violates it, or the
\* NOT NULL of the column: either error names "email" and is reported as a
\* conflict.
WritesAddress(h) ==
  /\ At(h, "write")
  /\ LET u == handler[h].user a == handler[h].to IN
     /\ Deciding(u, a) \ {h} = {}
     /\ handler' = [handler EXCEPT ![h] =
          IF Refuses(u, a) THEN AfterConflict(h) ELSE [@ EXCEPT !.pc = "patched"]]
  /\ UNCHANGED <<rowVars, born, seeded, seed>>

CommitsPatch(h) ==
  /\ At(h, "patched")
  /\ email' = [email EXCEPT ![handler[h].user] = handler[h].to]
  /\ Finish(h)
  /\ UNCHANGED <<verified, linked, promise, handed, born, seeded, seed>>

-----------------------------------------------------------------------------
(* Either request *)

\* An exception, a client that hangs up or a crash before the commit: the
\* transaction rolls back.
RollsBack(h) ==
  /\ handler[h] # Idle
  /\ Finish(h)
  /\ UNCHANGED <<rowVars, born, seeded, seed>>

\* Whom a PATCH that wants an address is waiting for.
WaitsFor(h) ==
  IF At(h, "write") THEN Deciding(handler[h].user, handler[h].to) \ {h} ELSE {}

\* PostgreSQL ends one of several transactions that wait in a circle, such as
\* two accounts that exchange their addresses; the request answers 500.
DeadlockDetected(h) ==
  /\ \E S \in SUBSET Handlers :
       /\ h \in S
       /\ \A k \in S : WaitsFor(k) # {}
       /\ UNION {WaitsFor(k) : k \in S} = S
  /\ Finish(h)
  /\ UNCHANGED <<rowVars, born, seeded, seed>>

\* verify_email, whose steps are AccountLinks' subject.
Verifies(u) ==
  /\ u \in linked \ verified
  /\ email[u] # None
  /\ Updating(u) = {}
  /\ verified' = verified \cup {u}
  /\ UNCHANGED <<email, linked, promise, handed, born, seeded, handler, seed>>

-----------------------------------------------------------------------------
(* The seed script, one commit per step *)

SeedGo(pc) == seed' = [pc |-> pc]

\* seed, when ensure_safe_operation lets it: with --reset or without.
SeedStarts ==
  /\ seed.pc = "off"
  /\ \E pc \in {"reset", "count"} : SeedGo(pc)
  /\ UNCHANGED <<rowVars, born, seeded, handler>>

\* DELETE FROM users takes the rows that are committed, after those who are
\* updating them; a registration that is under way survives it.
SeedResets ==
  /\ seed.pc = "reset"
  /\ \A u \in Users : Updating(u) = {}
  /\ email' = [u \in Users |-> None]
  /\ SeedGo("admin")
  /\ UNCHANGED <<verified, linked, promise, handed, born, seeded, handler>>

\* The count is read from a replica, which may still show the empty table.
\* Rows without --force end the script.
SeedCounts ==
  /\ seed.pc = "count"
  /\ \/ SeedGo("admin")
     \/ born # {} /\ SeedGo("off")
  /\ UNCHANGED <<rowVars, born, seeded, handler>>

\* UserRepository.add: INSERT and commit.
SeedAdds(a) ==
  /\ born # Users
  /\ Deciding(Fresh, a) = {} /\ ~Refuses(Fresh, a)
  /\ email' = [email EXCEPT ![Fresh] = a]
  /\ born' = born \cup {Fresh}
  /\ seeded' = seeded \cup {Fresh}
  /\ UNCHANGED <<verified, linked, promise, handed, handler>>

\* The admin, or, if there is one of that address, a message and on.
SeedAddsAdmin ==
  /\ seed.pc = "admin"
  /\ \/ SeedAdds(Admin) /\ seed' = [pc |-> "grant", user |-> Fresh]
     \/ /\ born # Users
        /\ Deciding(Fresh, Admin) = {} /\ Refuses(Fresh, Admin)
        /\ SeedGo("users")
        /\ UNCHANGED <<rowVars, born, seeded, handler>>

\* A random user, verified by the next commit or left unverified.  An address
\* that is in use raises a ConflictError nothing catches (SeedStops).
SeedAddsUser ==
  /\ seed.pc = "users"
  /\ \E a \in Addresses \ {Admin} : SeedAdds(a)
  /\ seed' = [pc |-> "verify", user |-> Fresh] \/ UNCHANGED seed

\* repo.update after either add.
SeedVerifies ==
  /\ seed.pc \in {"grant", "verify"}
  /\ Updating(seed.user) = {}
  /\ verified' = verified \cup {seed.user}
  /\ SeedGo("users")
  /\ UNCHANGED <<email, linked, promise, handed, born, seeded, handler>>

\* The script is done, fails or is interrupted.
SeedStops ==
  /\ seed.pc # "off"
  /\ SeedGo("off")
  /\ UNCHANGED <<rowVars, born, seeded, handler>>

-----------------------------------------------------------------------------
RequestNext(h) ==
  \/ Inserts(h) \/ CommitsAccount(h)
  \/ LocksRow(h) \/ WritesAddress(h) \/ CommitsPatch(h)

SeedNext ==
  \/ SeedStarts \/ SeedResets \/ SeedCounts \/ SeedAddsAdmin \/ SeedAddsUser
  \/ SeedVerifies \/ SeedStops

Next ==
  \/ \E h \in Handlers :
       \/ \E a \in Addresses : RegisterStarts(h, a)
       \/ \E u \in Users, a \in Addresses \cup {Null} : PatchStarts(h, u, a)
       \/ RequestNext(h) \/ RollsBack(h) \/ DeadlockDetected(h)
  \/ \E u \in Users : Verifies(u)
  \/ SeedNext

Spec == Init /\ [][Next]_vars

\* Requests go on; PostgreSQL grants locks in the order they were asked for and
\* looks for circles.  New requests, the seed script and failures owe nothing.
Fairness ==
  \A h \in Handlers : SF_vars(RequestNext(h)) /\ WF_vars(DeadlockDetected(h))

FairSpec == Spec /\ Fairness

-----------------------------------------------------------------------------
(* Properties *)

Accounts == {u \in Users : email[u] # None}

\* tests/test_signup_atomicity.py: whatever fails on the way, an account that
\* somebody registered has its pending link and the outbox row of its mail, and
\* no mail is owed for an account that did not commit.
NobodyIsStranded ==
  /\ \A u \in Accounts \ seeded : u \in linked /\ promise[u] # "none"
  /\ \A h \in Handlers : handler[h].pc \in {"insert", "commit"} =>
       promise[handler[h].user] = "none"

\* Registrations, changes and the seed script race for addresses, and nobody
\* but the index looks: an address never has two accounts.
OneOwner == \A u, v \in Accounts : email[u] = email[v] => u = v

\* Requests wait for each other's transactions, also in a circle, but none of
\* them for ever.
EveryRequestEnds == \A h \in Handlers : handler[h] # Idle ~> handler[h] = Idle
=============================================================================
