---------------------------- MODULE Accounts_proofs ----------------------------
(* The safety properties of Accounts hold for any sets of accounts, addresses  *)
(* and requests.                                                               *)
EXTENDS Accounts, TLAPS

Registering(h) == handler[h].pc \in {"insert", "commit"}
Locking(h) == handler[h].pc \in {"write", "patched"}
Claiming(h) == handler[h].pc \in {"commit", "patched"}

\* Nothing is known of an id that was not given out.
IdsAreGivenOut ==
  /\ \A u \in Users : u \notin born =>
       email[u] = None /\ promise[u] = "none" /\ u \notin verified
  /\ \A h \in Handlers : handler[h] # Idle => handler[h].user \in born
  /\ seed.pc \in {"grant", "verify"} => seed.user \in born

\* An id is registered once, and nothing of it is committed before its account.
RegistrationsAreNew ==
  \A h \in Handlers : Registering(h) =>
    /\ email[handler[h].user] = None
    /\ promise[handler[h].user] = "none"
    /\ \A k \in Handlers : Registering(k) /\ handler[k].user = handler[h].user => k = h

\* A row is locked by one request, and does not disappear under it.
RowsAreLocked ==
  \A h \in Handlers : Locking(h) =>
    /\ email[handler[h].user] # None
    /\ \A k \in Handlers : Locking(k) /\ handler[k].user = handler[h].user => k = h

\* The unique index: an uncommitted entry is for an address that no other row
\* and no other uncommitted entry has.
EntriesAreUnique ==
  \A h \in Handlers : Claiming(h) =>
    /\ handler[h].to \in Addresses
    /\ \A v \in Users : email[v] = handler[h].to => v = handler[h].user
    /\ \A k \in Handlers : Claiming(k) /\ handler[k].to = handler[h].to => k = h

\* The inductive invariant.
IInv ==
  /\ TypeOK
  /\ IdsAreGivenOut
  /\ RegistrationsAreNew
  /\ RowsAreLocked
  /\ EntriesAreUnique
  /\ NobodyIsStranded
  /\ OneOwner

-----------------------------------------------------------------------------

\* An empty table and no requests.
LEMMA InitEstablishes == Init => IInv
<1> SUFFICES ASSUME Init PROVE IInv
  OBVIOUS
<1>1. TypeOK
  BY DEF Init, TypeOK, Outbox!Init, Outbox!TypeOK
<1>2. /\ \A u \in Users : email[u] = None /\ promise[u] = "none"
      /\ \A h \in Handlers : handler[h] = Idle /\ handler[h].pc = "idle"
      /\ verified = {} /\ seed.pc = "off"
  BY DEF Init, Outbox!Init, Idle
<1> QED
  BY <1>1, <1>2 DEF IInv, IdsAreGivenOut, RegistrationsAreNew, RowsAreLocked,
     EntriesAreUnique, Registering, Locking, Claiming, NobodyIsStranded, OneOwner,
     Accounts

\* uuid4 gives an id that nobody has.
LEMMA FreshIsNew ==
  ASSUME TypeOK, born # Users
  PROVE  Fresh \in Users /\ Fresh \notin born
<1>1. \E u \in Users : u \notin born
  BY DEF TypeOK
<1> QED BY <1>1 DEF Fresh

\* A request that ends without a commit takes nothing with it.
LEMMA EndingPreserves ==
  ASSUME IInv, NEW h \in Handlers, handler' = [handler EXCEPT ![h] = Idle],
         UNCHANGED <<rowVars, born, seeded, seed>>
  PROVE  IInv'
<1> USE DEF IInv, TypeOK, rowVars
<1>1. handler'[h] = Idle /\ \A k \in Handlers : k # h => handler'[k] = handler[k]
  OBVIOUS
<1>2. ~Registering(h)' /\ ~Locking(h)' /\ ~Claiming(h)'
  BY <1>1 DEF Idle, Registering, Locking, Claiming
<1>3. \A k \in Handlers : k # h =>
        (Registering(k)' <=> Registering(k)) /\ (Locking(k)' <=> Locking(k))
        /\ (Claiming(k)' <=> Claiming(k))
  BY <1>1 DEF Registering, Locking, Claiming
<1>4. TypeOK'
  BY DEF Outbox!TypeOK
<1>5. IdsAreGivenOut'
  BY <1>1 DEF IdsAreGivenOut
<1>6. RegistrationsAreNew'
  BY <1>1, <1>2, <1>3 DEF RegistrationsAreNew
<1>7. RowsAreLocked'
  BY <1>1, <1>2, <1>3 DEF RowsAreLocked
<1>8. EntriesAreUnique'
  BY <1>1, <1>2, <1>3 DEF EntriesAreUnique
<1>9. NobodyIsStranded' /\ OneOwner'
  BY <1>1 DEF Idle, NobodyIsStranded, OneOwner, Accounts
<1> QED BY <1>4, <1>5, <1>6, <1>7, <1>8, <1>9

\* POST /users: the id is new, the entry is made when nobody else has or wants
\* the address, and the account comes with its link and its mail.
LEMMA RegistrationPreserves ==
  ASSUME IInv, NEW h \in Handlers,
         \/ \E a \in Addresses : RegisterStarts(h, a)
         \/ Inserts(h) \/ CommitsAccount(h)
  PROVE  IInv'
<1> USE DEF IInv, TypeOK, rowVars, At, Go, Finish, Idle
<1>1. ASSUME NEW a \in Addresses, RegisterStarts(h, a) PROVE IInv'
  <2>1. Fresh \in Users /\ Fresh \notin born
    BY <1>1, FreshIsNew DEF RegisterStarts
  <2>2. /\ handler'[h] = [pc |-> "insert", user |-> Fresh, to |-> a]
        /\ \A k \in Handlers : k # h => handler'[k] = handler[k]
        /\ born' = born \cup {Fresh}
        /\ UNCHANGED <<email, verified, linked, promise, handed, seeded, seed>>
    BY <1>1 DEF RegisterStarts
  <2>3. TypeOK'
    BY <1>1, <2>1, <2>2 DEF RegisterStarts, Outbox!TypeOK
  <2>4. IdsAreGivenOut'
    BY <2>1, <2>2 DEF IdsAreGivenOut
  <2>5. Registering(h)' /\ ~Locking(h)' /\ ~Claiming(h)'
    BY <2>2 DEF Registering, Locking, Claiming
  <2>6. \A k \in Handlers : k # h =>
          (Registering(k)' <=> Registering(k)) /\ (Locking(k)' <=> Locking(k))
          /\ (Claiming(k)' <=> Claiming(k))
    BY <2>2 DEF Registering, Locking, Claiming
  <2>7. email[Fresh] = None /\ promise[Fresh] = "none"
        /\ \A k \in Handlers : Registering(k) => handler[k].user # Fresh
    BY <2>1 DEF IdsAreGivenOut, Registering
  <2>8. RegistrationsAreNew'
    BY <2>2, <2>5, <2>6, <2>7 DEF RegistrationsAreNew
  <2>9. RowsAreLocked' /\ EntriesAreUnique'
    BY <2>2, <2>5, <2>6 DEF RowsAreLocked, EntriesAreUnique
  <2>10. NobodyIsStranded' /\ OneOwner'
    BY <2>2, <2>7 DEF NobodyIsStranded, OneOwner, Accounts
  <2> QED BY <2>3, <2>4, <2>8, <2>9, <2>10
<1>2. CASE Inserts(h)
  <2> DEFINE u == handler[h].user
             a == handler[h].to
  <2>1. CASE Refuses(u, a)
    <3>1. handler' = [handler EXCEPT ![h] = Idle]
          /\ UNCHANGED <<rowVars, born, seeded, seed>>
      BY <1>2, <2>1 DEF Inserts, AfterConflict
    <3> QED BY <3>1, EndingPreserves
  <2>2. CASE ~Refuses(u, a)
    <3>1. /\ handler[h].pc = "insert"
          /\ handler' = [handler EXCEPT ![h].pc = "commit"]
          /\ UNCHANGED <<email, verified, linked, promise, handed, born, seeded, seed>>
      BY <1>2, <2>2 DEF Inserts, EmailAfterInsert
    <3>2. u \in Users /\ a \in Addresses \cup {Null} /\ a # Null
          /\ \A v \in Users : email[v] = a => v = u
      BY <2>2, <3>1 DEF Refuses, Taken
    <3>3. \A k \in Handlers : Claiming(k) => handler[k].to # a
      BY <1>2 DEF Inserts, Deciding, Taking, Claiming
    <3>4. /\ handler'[h] = [pc |-> "commit", user |-> u, to |-> a]
          /\ \A k \in Handlers : k # h => handler'[k] = handler[k]
      BY <3>1
    <3>5. TypeOK'
      BY <3>1, <3>2, <3>4 DEF Outbox!TypeOK
    <3>6. IdsAreGivenOut'
      BY <3>1, <3>4 DEF IdsAreGivenOut
    <3>7. Registering(h) /\ Registering(h)' /\ ~Locking(h)' /\ Claiming(h)'
      BY <3>1, <3>4 DEF Registering, Locking, Claiming
    <3>8. \A k \in Handlers : k # h =>
            (Registering(k)' <=> Registering(k)) /\ (Locking(k)' <=> Locking(k))
            /\ (Claiming(k)' <=> Claiming(k))
      BY <3>4 DEF Registering, Locking, Claiming
    <3>9. RegistrationsAreNew'
      BY <3>1, <3>4, <3>7, <3>8 DEF RegistrationsAreNew
    <3>10. RowsAreLocked'
      BY <3>1, <3>4, <3>7, <3>8 DEF RowsAreLocked
    <3>11. EntriesAreUnique'
      BY <3>1, <3>2, <3>3, <3>4, <3>7, <3>8 DEF EntriesAreUnique
    <3>12. NobodyIsStranded' /\ OneOwner'
      BY <3>1, <3>4 DEF NobodyIsStranded, OneOwner, Accounts
    <3> QED BY <3>5, <3>6, <3>9, <3>10, <3>11, <3>12
  <2> QED BY <2>1, <2>2
<1>3. CASE CommitsAccount(h)
  <2> DEFINE u == handler[h].user
             a == handler[h].to
  <2>1. /\ handler[h].pc = "commit" /\ u \in Users
        /\ email' = [email EXCEPT ![u] = a]
        /\ linked' = linked \cup {u}
        /\ promise' = [promise EXCEPT ![u] = "owed"]
        /\ handler' = [handler EXCEPT ![h] = Idle]
        /\ UNCHANGED <<verified, handed, born, seeded, seed>>
    BY <1>3 DEF CommitsAccount, Outbox!Promise
  <2>2. Registering(h) /\ Claiming(h) /\ u \in born
    BY <2>1 DEF Registering, Claiming, IdsAreGivenOut
  <2>3. a \in Addresses /\ a # None /\ \A v \in Users : email[v] = a => v = u
    BY <2>2, AccountsAssumption DEF EntriesAreUnique
  <2>4. /\ handler'[h].pc = "idle" /\ handler'[h] = Idle
        /\ \A k \in Handlers : k # h => handler'[k] = handler[k]
    BY <2>1
  <2>5. TypeOK'
    BY <2>1, <2>3 DEF Outbox!TypeOK
  <2>6. IdsAreGivenOut'
    BY <2>1, <2>2, <2>4 DEF IdsAreGivenOut
  <2>7. ~Registering(h)' /\ ~Locking(h)' /\ ~Claiming(h)'
    BY <2>4 DEF Registering, Locking, Claiming
  <2>8. \A k \in Handlers : k # h =>
          (Registering(k)' <=> Registering(k)) /\ (Locking(k)' <=> Locking(k))
          /\ (Claiming(k)' <=> Claiming(k))
    BY <2>4 DEF Registering, Locking, Claiming
  <2>9. \A k \in Handlers : k # h /\ Registering(k) => handler[k].user # u
    BY <2>2 DEF RegistrationsAreNew
  <2>10. \A k \in Handlers : k # h /\ Claiming(k) => handler[k].to # a
    BY <2>2 DEF EntriesAreUnique
  <2>11. RegistrationsAreNew'
    BY <2>1, <2>4, <2>7, <2>8, <2>9 DEF RegistrationsAreNew
  <2>12. RowsAreLocked'
    BY <2>1, <2>3, <2>4, <2>7, <2>8 DEF RowsAreLocked
  <2>13. EntriesAreUnique'
    BY <2>1, <2>4, <2>7, <2>8, <2>10 DEF EntriesAreUnique
  <2>14. OneOwner'
    BY <2>1, <2>3 DEF OneOwner, Accounts
  <2>15. NobodyIsStranded'
    <3>1. \A v \in Accounts' \ seeded' : v \in linked' /\ promise'[v] # "none"
      BY <2>1 DEF NobodyIsStranded, Accounts, Outbox!TypeOK
    <3>2. \A k \in Handlers : handler'[k].pc \in {"insert", "commit"} =>
            promise'[handler'[k].user] = "none"
      BY <2>1, <2>4, <2>9 DEF NobodyIsStranded, Registering
    <3> QED BY <3>1, <3>2 DEF NobodyIsStranded
  <2> QED BY <2>5, <2>6, <2>11, <2>12, <2>13, <2>14, <2>15
<1> QED BY <1>1, <1>2, <1>3

\* PATCH /users/me: the UPDATE locks a row that exists, and enters an address
\* that nobody else has or wants.
LEMMA PatchPreserves ==
  ASSUME IInv, NEW h \in Handlers,
         \/ \E u \in Users, a \in Addresses \cup {Null} : PatchStarts(h, u, a)
         \/ LocksRow(h) \/ WritesAddress(h) \/ CommitsPatch(h)
  PROVE  IInv'
<1> USE DEF IInv, TypeOK, rowVars, At, Go, Finish, Idle
<1>1. ASSUME NEW u \in Users, NEW a \in Addresses \cup {Null}, PatchStarts(h, u, a)
      PROVE  IInv'
  <2>1. /\ handler'[h] = [pc |-> "lock", user |-> u, to |-> a]
        /\ \A k \in Handlers : k # h => handler'[k] = handler[k]
        /\ UNCHANGED <<email, verified, linked, promise, handed, born, seeded, seed>>
    BY <1>1 DEF PatchStarts
  <2>2. TypeOK'
    BY <1>1, <2>1 DEF PatchStarts, Outbox!TypeOK
  <2>3. u \in born
    BY <1>1 DEF PatchStarts, IdsAreGivenOut
  <2>4. IdsAreGivenOut'
    BY <2>1, <2>3 DEF IdsAreGivenOut
  <2>5. ~Registering(h)' /\ ~Locking(h)' /\ ~Claiming(h)'
    BY <2>1 DEF Registering, Locking, Claiming
  <2>6. \A k \in Handlers : k # h =>
          (Registering(k)' <=> Registering(k)) /\ (Locking(k)' <=> Locking(k))
          /\ (Claiming(k)' <=> Claiming(k))
    BY <2>1 DEF Registering, Locking, Claiming
  <2>7. RegistrationsAreNew' /\ RowsAreLocked' /\ EntriesAreUnique'
    BY <2>1, <2>5, <2>6 DEF RegistrationsAreNew, RowsAreLocked, EntriesAreUnique
  <2>8. NobodyIsStranded' /\ OneOwner'
    BY <2>1 DEF NobodyIsStranded, OneOwner, Accounts
  <2> QED BY <2>2, <2>4, <2>7, <2>8
<1>2. CASE LocksRow(h)
  <2> DEFINE u == handler[h].user
  <2>1. CASE email[u] = None
    <3>1. handler' = [handler EXCEPT ![h] = Idle]
          /\ UNCHANGED <<rowVars, born, seeded, seed>>
      BY <1>2, <2>1 DEF LocksRow
    <3> QED BY <3>1, EndingPreserves
  <2>2. CASE email[u] # None
    <3>1. /\ handler[h].pc = "lock" /\ u \in Users
          /\ handler' = [handler EXCEPT ![h].pc = "write"]
          /\ UNCHANGED <<email, verified, linked, promise, handed, born, seeded, seed>>
      BY <1>2, <2>2 DEF LocksRow
    <3>2. \A k \in Handlers : Locking(k) => handler[k].user # u
      BY <1>2, <2>2 DEF LocksRow, Updating, Locking
    <3>3. /\ handler'[h] = [pc |-> "write", user |-> u, to |-> handler[h].to]
          /\ \A k \in Handlers : k # h => handler'[k] = handler[k]
      BY <3>1
    <3>4. TypeOK'
      BY <3>1, <3>3 DEF Outbox!TypeOK
    <3>5. IdsAreGivenOut'
      BY <3>1, <3>3 DEF IdsAreGivenOut
    <3>6. ~Registering(h)' /\ Locking(h)' /\ ~Claiming(h)'
      BY <3>3 DEF Registering, Locking, Claiming
    <3>7. \A k \in Handlers : k # h =>
            (Registering(k)' <=> Registering(k)) /\ (Locking(k)' <=> Locking(k))
            /\ (Claiming(k)' <=> Claiming(k))
      BY <3>3 DEF Registering, Locking, Claiming
    <3>8. RegistrationsAreNew' /\ EntriesAreUnique'
      BY <3>1, <3>3, <3>6, <3>7 DEF RegistrationsAreNew, EntriesAreUnique
    <3>9. RowsAreLocked'
      BY <2>2, <3>1, <3>2, <3>3, <3>6, <3>7 DEF RowsAreLocked
    <3>10. NobodyIsStranded' /\ OneOwner'
      BY <3>1, <3>3 DEF NobodyIsStranded, OneOwner, Accounts
    <3> QED BY <3>4, <3>5, <3>8, <3>9, <3>10
  <2> QED BY <2>1, <2>2
<1>3. CASE WritesAddress(h)
  <2> DEFINE u == handler[h].user
             a == handler[h].to
  <2>1. CASE Refuses(u, a)
    <3>1. handler' = [handler EXCEPT ![h] = Idle]
          /\ UNCHANGED <<rowVars, born, seeded, seed>>
      BY <1>3, <2>1 DEF WritesAddress, AfterConflict
    <3> QED BY <3>1, EndingPreserves
  <2>2. CASE ~Refuses(u, a)
    <3>1. /\ handler[h].pc = "write" /\ u \in Users
          /\ handler' = [handler EXCEPT ![h] = [@ EXCEPT !.pc = "patched"]]
          /\ UNCHANGED <<email, verified, linked, promise, handed, born, seeded, seed>>
      BY <1>3, <2>2 DEF WritesAddress
    <3>2. a \in Addresses /\ \A v \in Users : email[v] = a => v = u
      BY <2>2, <3>1 DEF Refuses, Taken
    <3>3. \A k \in Handlers : k # h /\ Claiming(k) => handler[k].to # a
      BY <1>3 DEF WritesAddress, Deciding, Taking, Claiming
    <3>4. /\ handler'[h] = [pc |-> "patched", user |-> u, to |-> a]
          /\ \A k \in Handlers : k # h => handler'[k] = handler[k]
      BY <3>1
    <3>5. TypeOK'
      BY <3>1, <3>4 DEF Outbox!TypeOK
    <3>6. IdsAreGivenOut'
      BY <3>1, <3>4 DEF IdsAreGivenOut
    <3>7. ~Registering(h)' /\ Locking(h) /\ Locking(h)' /\ Claiming(h)'
      BY <3>1, <3>4 DEF Registering, Locking, Claiming
    <3>8. \A k \in Handlers : k # h =>
            (Registering(k)' <=> Registering(k)) /\ (Locking(k)' <=> Locking(k))
            /\ (Claiming(k)' <=> Claiming(k))
      BY <3>4 DEF Registering, Locking, Claiming
    <3>9. RegistrationsAreNew' /\ RowsAreLocked'
      BY <3>1, <3>4, <3>7, <3>8 DEF RegistrationsAreNew, RowsAreLocked
    <3>10. EntriesAreUnique'
      BY <3>1, <3>2, <3>3, <3>4, <3>7, <3>8 DEF EntriesAreUnique
    <3>11. NobodyIsStranded' /\ OneOwner'
      BY <3>1, <3>4 DEF NobodyIsStranded, OneOwner, Accounts
    <3> QED BY <3>5, <3>6, <3>9, <3>10, <3>11
  <2> QED BY <2>1, <2>2
<1>4. CASE CommitsPatch(h)
  <2> DEFINE u == handler[h].user
             a == handler[h].to
  <2>1. /\ handler[h].pc = "patched" /\ u \in Users
        /\ email' = [email EXCEPT ![u] = a]
        /\ handler' = [handler EXCEPT ![h] = Idle]
        /\ UNCHANGED <<verified, linked, promise, handed, born, seeded, seed>>
    BY <1>4 DEF CommitsPatch
  <2>2. Locking(h) /\ Claiming(h) /\ email[u] # None /\ u \in born
    BY <2>1 DEF Locking, Claiming, RowsAreLocked, IdsAreGivenOut
  <2>3. a \in Addresses /\ a # None /\ \A v \in Users : email[v] = a => v = u
    BY <2>2, AccountsAssumption DEF EntriesAreUnique
  <2>4. /\ handler'[h].pc = "idle" /\ handler'[h] = Idle
        /\ \A k \in Handlers : k # h => handler'[k] = handler[k]
    BY <2>1
  <2>5. TypeOK'
    BY <2>1, <2>3 DEF Outbox!TypeOK
  <2>6. IdsAreGivenOut'
    BY <2>1, <2>2, <2>4 DEF IdsAreGivenOut
  <2>7. ~Registering(h)' /\ ~Locking(h)' /\ ~Claiming(h)'
    BY <2>4 DEF Registering, Locking, Claiming
  <2>8. \A k \in Handlers : k # h =>
          (Registering(k)' <=> Registering(k)) /\ (Locking(k)' <=> Locking(k))
          /\ (Claiming(k)' <=> Claiming(k))
    BY <2>4 DEF Registering, Locking, Claiming
  <2>9. \A k \in Handlers : k # h /\ Claiming(k) => handler[k].to # a
    BY <2>2 DEF EntriesAreUnique
  <2>10. RegistrationsAreNew'
    <3>1. \A k \in Handlers : Registering(k) => handler[k].user # u
      BY <2>2 DEF RegistrationsAreNew
    <3> QED BY <2>1, <2>4, <2>7, <2>8, <3>1 DEF RegistrationsAreNew
  <2>11. RowsAreLocked'
    BY <2>1, <2>3, <2>4, <2>7, <2>8 DEF RowsAreLocked
  <2>12. EntriesAreUnique'
    BY <2>1, <2>4, <2>7, <2>8, <2>9 DEF EntriesAreUnique
  <2>13. OneOwner'
    BY <2>1, <2>3 DEF OneOwner, Accounts
  <2>14. NobodyIsStranded'
    BY <2>1, <2>2, <2>4 DEF NobodyIsStranded, Accounts
  <2> QED BY <2>5, <2>6, <2>10, <2>11, <2>12, <2>13, <2>14
<1> QED BY <1>1, <1>2, <1>3, <1>4

\* The seed script, and verify_email.  An account is added when nobody has or
\* wants its address; a reset waits for the rows that are locked.
LEMMA SeedPreserves ==
  ASSUME IInv, SeedNext \/ \E u \in Users : Verifies(u)
  PROVE  IInv'
<1> USE DEF IInv, TypeOK, rowVars, SeedGo
<1>1. ASSUME UNCHANGED <<email, linked, promise, handed, born, seeded, handler>>,
             verified' \in SUBSET born, TypeOK',
             seed'.pc \in {"grant", "verify"} => seed'.user \in born
      PROVE  IInv'
  <2>1. \A k \in Handlers : (Registering(k)' <=> Registering(k))
          /\ (Locking(k)' <=> Locking(k)) /\ (Claiming(k)' <=> Claiming(k))
    BY <1>1 DEF Registering, Locking, Claiming
  <2>2. IdsAreGivenOut'
    BY <1>1 DEF IdsAreGivenOut
  <2>3. RegistrationsAreNew' /\ RowsAreLocked' /\ EntriesAreUnique'
    BY <1>1, <2>1 DEF RegistrationsAreNew, RowsAreLocked, EntriesAreUnique
  <2>4. NobodyIsStranded' /\ OneOwner'
    BY <1>1 DEF NobodyIsStranded, OneOwner, Accounts
  <2> QED BY <1>1, <2>2, <2>3, <2>4
<1>2. verified \in SUBSET born
  BY DEF IdsAreGivenOut
<1>3. CASE SeedStarts \/ SeedCounts \/ SeedStops
  BY <1>1, <1>2, <1>3 DEF SeedStarts, SeedCounts, SeedStops, Outbox!TypeOK
<1>4. ASSUME NEW u \in Users, Verifies(u) PROVE IInv'
  <2>1. u \in born /\ UNCHANGED seed
    BY <1>4, AccountsAssumption DEF Verifies, IdsAreGivenOut
  <2> QED BY <1>1, <1>2, <1>4, <2>1 DEF Verifies, Outbox!TypeOK, IdsAreGivenOut
<1>5. CASE SeedVerifies
  <2>1. seed.user \in born /\ seed' = [pc |-> "users"]
    BY <1>5 DEF SeedVerifies, IdsAreGivenOut
  <2> QED BY <1>1, <1>2, <1>5, <2>1 DEF SeedVerifies, Outbox!TypeOK
<1>6. CASE SeedResets
  <2>1. /\ \A u \in Users : email'[u] = None
        /\ email' \in [Users -> Addresses \cup {None}]
        /\ seed' = [pc |-> "admin"]
        /\ UNCHANGED <<verified, linked, promise, handed, born, seeded, handler>>
    BY <1>6 DEF SeedResets
  <2>2. \A k \in Handlers : ~Locking(k)
    <3>1. SUFFICES ASSUME NEW k \in Handlers, Locking(k) PROVE FALSE
      OBVIOUS
    <3>2. handler[k].user \in Users /\ k \in Updating(handler[k].user)
      BY <3>1 DEF Locking, Updating, Idle
    <3> QED BY <1>6, <3>2 DEF SeedResets
  <2>3. \A k \in Handlers : (Registering(k)' <=> Registering(k))
          /\ (Locking(k)' <=> Locking(k)) /\ (Claiming(k)' <=> Claiming(k))
    BY <2>1 DEF Registering, Locking, Claiming
  <2>4. TypeOK' /\ IdsAreGivenOut'
    BY <2>1 DEF IdsAreGivenOut, Outbox!TypeOK
  <2>5. RowsAreLocked'
    BY <2>2, <2>3 DEF RowsAreLocked
  <2>6. \A k \in Handlers : Registering(k) => handler[k].user \in Users
    BY DEF Registering, Idle
  <2>7. RegistrationsAreNew'
    BY <2>1, <2>3, <2>6 DEF RegistrationsAreNew
  <2>8. EntriesAreUnique'
    BY <2>1, <2>3, AccountsAssumption DEF EntriesAreUnique
  <2>9. NobodyIsStranded' /\ OneOwner'
    BY <2>1 DEF NobodyIsStranded, OneOwner, Accounts
  <2> QED BY <2>4, <2>5, <2>7, <2>8, <2>9
<1>7. ASSUME NEW a \in Addresses, SeedAdds(a), seed' \in {[pc |-> "grant", user |-> Fresh],
             [pc |-> "verify", user |-> Fresh], seed}
      PROVE  IInv'
  <2>1. Fresh \in Users /\ Fresh \notin born
    BY <1>7, FreshIsNew DEF SeedAdds
  <2>2. /\ email' = [email EXCEPT ![Fresh] = a]
        /\ born' = born \cup {Fresh} /\ seeded' = seeded \cup {Fresh}
        /\ UNCHANGED <<verified, linked, promise, handed, handler>>
    BY <1>7 DEF SeedAdds
  <2>3. a # None /\ \A v \in Users : v # Fresh => email[v] # a
    BY <1>7, AccountsAssumption DEF SeedAdds, Refuses, Taken
  <2>4. \A k \in Handlers : Claiming(k) => handler[k].to # a
    BY <1>7 DEF SeedAdds, Deciding, Taking, Claiming
  <2>5. \A k \in Handlers : handler[k] # Idle => handler[k].user # Fresh
    BY <2>1 DEF IdsAreGivenOut
  <2>6. \A k \in Handlers : (Registering(k)' <=> Registering(k))
          /\ (Locking(k)' <=> Locking(k)) /\ (Claiming(k)' <=> Claiming(k))
    BY <2>2 DEF Registering, Locking, Claiming
  <2>7. \A k \in Handlers : Registering(k) \/ Locking(k) \/ Claiming(k) =>
          handler[k] # Idle
    BY DEF Registering, Locking, Claiming, Idle
  <2>8. TypeOK'
    BY <1>7, <2>1, <2>2 DEF Outbox!TypeOK
  <2>9. IdsAreGivenOut'
    BY <1>7, <2>1, <2>2 DEF IdsAreGivenOut
  <2>10. RegistrationsAreNew' /\ RowsAreLocked'
    BY <2>2, <2>3, <2>5, <2>6, <2>7 DEF RegistrationsAreNew, RowsAreLocked
  <2>11. EntriesAreUnique'
    BY <2>1, <2>2, <2>4, <2>6 DEF EntriesAreUnique
  <2>12. NobodyIsStranded'
    BY <2>2 DEF NobodyIsStranded, Accounts
  <2>13. OneOwner'
    BY <2>1, <2>2, <2>3 DEF OneOwner, Accounts
  <2> QED BY <2>8, <2>9, <2>10, <2>11, <2>12, <2>13
<1>8. CASE SeedAddsAdmin
  <2>1. CASE SeedAdds(Admin) /\ seed' = [pc |-> "grant", user |-> Fresh]
    BY <1>7, <2>1, AccountsAssumption
  <2>2. CASE UNCHANGED <<rowVars, born, seeded, handler>> /\ seed' = [pc |-> "users"]
    BY <1>1, <1>2, <2>2 DEF Outbox!TypeOK
  <2> QED BY <1>8, <2>1, <2>2 DEF SeedAddsAdmin
<1>9. CASE SeedAddsUser
  BY <1>7, <1>9 DEF SeedAddsUser
<1> QED BY <1>3, <1>4, <1>5, <1>6, <1>8, <1>9 DEF SeedNext

\* Every step keeps the invariant.
LEMMA NextPreserves == IInv /\ [Next]_vars => IInv'
<1> SUFFICES ASSUME IInv, [Next]_vars PROVE IInv'
  OBVIOUS
<1>1. CASE UNCHANGED vars
  <2>1. \A k \in Handlers : (Registering(k)' <=> Registering(k))
          /\ (Locking(k)' <=> Locking(k)) /\ (Claiming(k)' <=> Claiming(k))
    BY <1>1 DEF vars, Registering, Locking, Claiming
  <2> QED
    BY <1>1, <2>1 DEF vars, IInv, TypeOK, Outbox!TypeOK, IdsAreGivenOut,
       RegistrationsAreNew, RowsAreLocked, EntriesAreUnique, NobodyIsStranded,
       OneOwner, Accounts
<1>2. ASSUME NEW h \in Handlers, RollsBack(h) \/ DeadlockDetected(h) PROVE IInv'
  BY <1>2, EndingPreserves DEF RollsBack, DeadlockDetected, Finish
<1>3. ASSUME NEW h \in Handlers,
             \/ \E a \in Addresses : RegisterStarts(h, a)
             \/ \E u \in Users, a \in Addresses \cup {Null} : PatchStarts(h, u, a)
             \/ RequestNext(h)
      PROVE  IInv'
  BY <1>3, RegistrationPreserves, PatchPreserves DEF RequestNext
<1> QED BY <1>1, <1>2, <1>3, SeedPreserves DEF Next

-----------------------------------------------------------------------------

\* The inductive invariant: ids, row locks and index entries that are held by
\* requests in progress collide neither with each other nor with the table.
THEOREM Invariance == Spec => []IInv
  BY InitEstablishes, NextPreserves, PTL DEF Spec

\* Every variable keeps its range; in particular no address is null.
THEOREM TypeCorrect == Spec => []TypeOK
<1>1. IInv => TypeOK
  BY DEF IInv
<1> QED BY <1>1, Invariance, PTL

\* Whatever fails, a registered account has its link and its mail.
THEOREM SignupIsAtomic == Spec => []NobodyIsStranded
<1>1. IInv => NobodyIsStranded
  BY DEF IInv
<1> QED BY <1>1, Invariance, PTL

\* However many requests and seed scripts race, no address has two accounts.
THEOREM AddressesAreUnique == Spec => []OneOwner
<1>1. IInv => OneOwner
  BY DEF IInv
<1> QED BY <1>1, Invariance, PTL

-----------------------------------------------------------------------------
(* The outbox below *)

\* The transaction that commits an account makes its promise; nothing else, the
\* seed script and --reset included, touches the outbox.
LEMMA StepUsesOutbox == TypeOK /\ [Next]_vars => [Outbox!Next]_(Outbox!vars)
<1> SUFFICES ASSUME TypeOK, [Next]_vars PROVE [Outbox!Next]_(Outbox!vars)
  OBVIOUS
<1>1. CASE UNCHANGED vars
  BY <1>1 DEF vars, Outbox!vars
<1>2. ASSUME NEW h \in Handlers, CommitsAccount(h) PROVE Outbox!Next
  <2>1. handler[h].user \in Users
    BY <1>2 DEF TypeOK, CommitsAccount, At, Idle
  <2> QED BY <1>2, <2>1 DEF CommitsAccount, Outbox!Next
<1>3. ASSUME NEW h \in Handlers,
             \/ \E a \in Addresses : RegisterStarts(h, a)
             \/ \E u \in Users, a \in Addresses \cup {Null} : PatchStarts(h, u, a)
             \/ Inserts(h) \/ LocksRow(h) \/ WritesAddress(h) \/ CommitsPatch(h)
             \/ RollsBack(h) \/ DeadlockDetected(h)
      PROVE  UNCHANGED Outbox!vars
  BY <1>3 DEF RegisterStarts, PatchStarts, Inserts, LocksRow, WritesAddress, CommitsPatch,
              RollsBack, DeadlockDetected, rowVars, Outbox!vars
<1>4. ASSUME NEW u \in Users, Verifies(u) PROVE UNCHANGED Outbox!vars
  BY <1>4 DEF Verifies, Outbox!vars
<1>5. CASE SeedNext
  BY <1>5 DEF SeedNext, SeedStarts, SeedResets, SeedCounts, SeedAddsAdmin, SeedAddsUser,
              SeedAdds, SeedVerifies, SeedStops, rowVars, Outbox!vars
<1> QED BY <1>1, <1>2, <1>3, <1>4, <1>5 DEF Next, RequestNext

\* Accounts is a user of the outbox that OutboxRelay implements: whatever is
\* registered, rolled back or reset, no promise of a mail is made twice or revised.
THEOREM OutboxIsRespected == Spec => Outbox!Spec
<1>1. Init => Outbox!Init
  BY DEF Init
<1>2. IInv => TypeOK
  BY DEF IInv
<1> QED BY <1>1, <1>2, Invariance, StepUsesOutbox, PTL DEF Spec, Outbox!Spec
=============================================================================
