-------------------------- MODULE AccountLinks_proofs --------------------------
(* The safety properties of AccountLinks hold for any sets of links and of     *)
(* requests, for every lifetime and however long the clock runs.               *)
EXTENDS AccountLinks, FiniteSetTheorems, TLAPS

\* Links are numbered in the order they were issued.
LinksAreNumbered ==
  /\ IsFiniteSet(Issued)
  /\ \A l \in Issued : order[l] < Cardinality(Issued)

\* A link that was not issued has changed nothing.
IssuedBeforeUse == \A l \in Links : l \notin Issued => effects[l] = 0

\* A request that redeems has a link that exists, and came after it.
RequestsHaveLinks ==
  \A h \in Handlers : handler[h].pc \in {"exists", "compare", "redeem"} =>
    handler[h].link \in Issued /\ handler[h].newest <= Cardinality(Issued)

\* The pending link is the newest of its kind.
PendingIsNewest ==
  \A k \in Kinds : \A l \in pending[k] : \A m \in Links :
    kind[m] = k => order[m] <= order[l]

\* The inductive invariant.
IInv ==
  /\ TypeOK
  /\ LinksAreNumbered
  /\ IssuedBeforeUse
  /\ RequestsHaveLinks
  /\ PendingIsNewest
  /\ UsedOnceWhileValid
  /\ SupersededLinksFail

-----------------------------------------------------------------------------

\* A request that redeems carries a link and the number of links there were.
LEMMA RedeemersAreTyped ==
  ASSUME TypeOK, NEW h \in Handlers, handler[h].pc \in {"exists", "compare", "redeem"}
  PROVE  handler[h] \in Redeeming /\ handler[h].link \in Links /\ handler[h].newest \in Nat
<1>1. handler[h] # Idle
  BY DEF Idle
<1>2. handler[h] \notin [pc : {"issue"}, kind : Kinds]
  OBVIOUS
<1> QED BY <1>1, <1>2 DEF TypeOK, Redeeming

\* The account starts with one link and no requests.
LEMMA InitEstablishes == Init => IInv
<1> SUFFICES ASSUME Init PROVE IInv
  OBVIOUS
<1> USE LinksAssumption
<1>1. PICK l \in Links :
        /\ pending = [k \in Kinds |-> IF k = "verify" THEN {l} ELSE {}]
        /\ kind = [m \in Links |-> IF m = l THEN "verify" ELSE "none"]
        /\ expires = [m \in Links |-> IF m = l THEN Lifetime["verify"] ELSE 0]
  BY DEF Init
<1>2. Issued = {l}
  BY <1>1 DEF Issued
<1>3. IsFiniteSet(Issued) /\ Cardinality(Issued) = 1
  BY <1>2, FS_Singleton
<1>4. TypeOK
  <2>1. ASSUME NEW k \in Kinds
        PROVE  /\ pending[k] \in SUBSET Links /\ Cardinality(pending[k]) <= 1
               /\ \A m \in pending[k] : kind[m] = k
    <3>1. Cardinality({}) = 0 /\ Cardinality({l}) = 1
      BY FS_Singleton, FS_EmptySet
    <3>2. (pending[k] = {l} /\ k = "verify") \/ pending[k] = {}
      BY <1>1
    <3> QED BY <1>1, <3>1, <3>2
  <2>2. kind \in [Links -> Kinds \cup {"none"}] /\ pending \in [Kinds -> SUBSET Links]
    BY <1>1 DEF Kinds
  <2>3. expires \in [Links -> Nat]
    <3>1. Lifetime["verify"] \in Nat
      BY DEF Kinds
    <3> QED BY <1>1, <3>1
  <2>4. /\ order \in [Links -> Nat] /\ effects \in [Links -> Nat] /\ now \in 0 .. MaxTime
        /\ handler \in [Handlers -> {Idle}]
        /\ verified \in BOOLEAN /\ active \in BOOLEAN /\ revoked \in SUBSET Links
    <3>1. /\ now = 0 /\ verified = FALSE /\ active = TRUE /\ revoked = {}
          /\ order = [m \in Links |-> 0] /\ effects = [m \in Links |-> 0]
          /\ handler = [h \in Handlers |-> Idle]
      BY DEF Init
    <3>2. 0 \in 0 .. MaxTime /\ 0 \in Nat
      OBVIOUS
    <3>3. order \in [Links -> Nat] /\ effects \in [Links -> Nat]
      BY <3>1
    <3> QED BY <3>1, <3>2, <3>3
  <2> QED BY <2>1, <2>2, <2>3, <2>4 DEF TypeOK
<1>5. \A h \in Handlers : handler[h].pc = "idle"
  BY DEF Init, Idle
<1>6. LinksAreNumbered /\ PendingIsNewest
  <2>1. \A m \in Links : order[m] = 0
    BY DEF Init
  <2>2. LinksAreNumbered
    BY <1>3, <2>1 DEF LinksAreNumbered, Issued
  <2>3. PendingIsNewest
    BY <1>4, <2>1 DEF TypeOK, PendingIsNewest
  <2> QED BY <2>2, <2>3
<1>7. IssuedBeforeUse /\ UsedOnceWhileValid
  BY DEF Init, IssuedBeforeUse, UsedOnceWhileValid
<1>8. RequestsHaveLinks /\ SupersededLinksFail
  BY <1>5 DEF RequestsHaveLinks, SupersededLinksFail
<1> QED BY <1>4, <1>6, <1>7, <1>8 DEF IInv

\* No step but Issues concerns the links themselves.
LEMMA LinksUntouched ==
  ASSUME IInv, UNCHANGED linkVars
  PROVE  Issued' = Issued /\ LinksAreNumbered' /\ PendingIsNewest'
<1>1. Issued' = Issued
  BY DEF linkVars, Issued
<1> QED BY <1>1 DEF IInv, linkVars, LinksAreNumbered, PendingIsNewest

\* A newer link: it is numbered after all others, and after every request.
LEMMA IssuesPreserves ==
  ASSUME IInv, NEW h \in Handlers, Issues(h)
  PROVE  IInv'
<1> USE LinksAssumption
<1> DEFINE k == handler[h].kind
<1>1. k \in Kinds
  <2>1. handler[h].pc = "issue"
    BY DEF Issues
  <2>2. handler[h] # Idle /\ handler[h] \notin Redeeming
    BY <2>1 DEF Idle, Redeeming
  <2> QED BY <2>2 DEF IInv, TypeOK
<1>2. PICK l \in Links \ Issued :
        /\ pending' = [pending EXCEPT ![k] = {l}]
        /\ kind' = [kind EXCEPT ![l] = k]
        /\ expires' = [expires EXCEPT ![l] = now + Lifetime[k]]
        /\ order' = [order EXCEPT ![l] = Cardinality(Issued)]
  BY DEF Issues, PendingAfter
<1>3. handler' = [handler EXCEPT ![h] = Idle] /\ UNCHANGED <<now, verified, active, revoked, effects>>
  BY DEF Issues, Finish
<1> HIDE DEF k
<1>4. Issued' = Issued \cup {l}
  BY <1>1, <1>2 DEF IInv, TypeOK, Issued, Kinds
<1>5. /\ IsFiniteSet(Issued) /\ Cardinality(Issued) \in Nat
      /\ IsFiniteSet(Issued') /\ Cardinality(Issued') = Cardinality(Issued) + 1
  <2>1. IsFiniteSet(Issued)
    BY DEF IInv, LinksAreNumbered
  <2> QED BY <1>2, <1>4, <2>1, FS_AddElement, FS_CardinalityType
<1>6. /\ kind'[l] = k /\ order'[l] = Cardinality(Issued) /\ expires'[l] = now + Lifetime[k]
      /\ \A m \in Links : m # l => kind'[m] = kind[m] /\ order'[m] = order[m] /\ expires'[m] = expires[m]
      /\ pending'[k] = {l} /\ \A j \in Kinds : j # k => pending'[j] = pending[j]
      /\ \A g \in Handlers : g # h => handler'[g] = handler[g]
      /\ handler'[h].pc = "idle"
  BY <1>1, <1>2, <1>3 DEF IInv, TypeOK, Idle
<1>7. kind[l] = "none"
  BY <1>2 DEF Issued
<1>8. TypeOK'
  <2>1. /\ kind' \in [Links -> Kinds \cup {"none"}]
        /\ pending' \in [Kinds -> SUBSET Links]
        /\ expires' \in [Links -> Nat] /\ order' \in [Links -> Nat]
    BY <1>1, <1>2, <1>5 DEF IInv, TypeOK
  <2>2. handler' \in [Handlers -> {Idle} \cup [pc : {"issue"}, kind : Kinds] \cup Redeeming]
    BY <1>3 DEF IInv, TypeOK
  <2>3. ASSUME NEW j \in Kinds
        PROVE  Cardinality(pending'[j]) <= 1 /\ \A m \in pending'[j] : kind'[m] = j
    <3>1. CASE j = k
      <4>1. Cardinality({l}) = 1
        BY FS_Singleton
      <4>2. pending'[j] = {l} /\ kind'[l] = j
        BY <1>6, <3>1
      <4> QED BY <4>1, <4>2
    <3>2. CASE j # k
      BY <1>6, <1>7, <2>3, <3>2 DEF IInv, TypeOK, Kinds
    <3> QED BY <3>1, <3>2
  <2> QED BY <1>3, <2>1, <2>2, <2>3 DEF IInv, TypeOK
<1>9. LinksAreNumbered'
  <2>1. ASSUME NEW m \in Issued' PROVE order'[m] < Cardinality(Issued')
    <3>1. CASE m = l
      BY <1>5, <1>6, <3>1
    <3>2. CASE m # l
      <4>1. m \in Issued /\ m \in Links
        BY <1>4, <2>1, <3>2 DEF Issued
      <4>2. order[m] \in Nat /\ order[m] < Cardinality(Issued)
        BY <4>1 DEF IInv, TypeOK, LinksAreNumbered
      <4> QED BY <1>5, <1>6, <3>2, <4>1, <4>2
    <3> QED BY <3>1, <3>2
  <2> QED BY <1>5, <2>1 DEF LinksAreNumbered
<1>10. IssuedBeforeUse'
  BY <1>3, <1>4 DEF IInv, IssuedBeforeUse
<1>11. ASSUME NEW g \in Handlers, handler'[g].pc \in {"exists", "compare", "redeem"}
       PROVE  /\ g # h /\ handler'[g] = handler[g]
              /\ handler[g].link \in Issued /\ handler[g].link \in Links
              /\ handler[g].link # l
              /\ handler[g].newest \in Nat /\ handler[g].newest <= Cardinality(Issued)
  <2>1. g # h /\ handler'[g] = handler[g]
    BY <1>6, <1>11
  <2>2. handler[g].link \in Issued /\ handler[g].newest <= Cardinality(Issued)
    BY <1>11, <2>1 DEF IInv, RequestsHaveLinks
  <2>3. handler[g].link \in Links /\ handler[g].newest \in Nat
    BY <1>11, <2>1, RedeemersAreTyped DEF IInv
  <2> QED BY <1>2, <2>1, <2>2, <2>3
<1>12. RequestsHaveLinks'
  BY <1>4, <1>5, <1>11 DEF RequestsHaveLinks
<1>13. PendingIsNewest'
  <2>1. SUFFICES ASSUME NEW j \in Kinds, NEW p \in pending'[j], NEW m \in Links, kind'[m] = j
                 PROVE  order'[m] <= order'[p]
    BY DEF PendingIsNewest
  <2>2. CASE j = k
    <3>1. p = l
      BY <1>6, <2>1, <2>2
    <3>2. CASE m = l
      BY <1>5, <1>6, <3>1, <3>2
    <3>3. CASE m # l
      <4>1. m \in Issued
        BY <1>6, <2>1, <3>3 DEF Issued, Kinds
      <4>2. order[m] \in Nat /\ order[m] < Cardinality(Issued)
        BY <2>1, <4>1 DEF IInv, TypeOK, LinksAreNumbered
      <4> QED BY <1>5, <1>6, <3>1, <3>3, <4>2
    <3> QED BY <3>2, <3>3
  <2>3. CASE j # k
    <3>1. p \in pending[j] /\ p \in Links /\ kind[p] = j
      BY <1>6, <2>1, <2>3 DEF IInv, TypeOK
    <3>2. p # l /\ m # l
      BY <1>6, <1>7, <2>1, <2>3, <3>1 DEF Kinds
    <3> QED BY <1>6, <2>1, <3>1, <3>2 DEF IInv, PendingIsNewest
  <2> QED BY <2>2, <2>3
<1>14. UsedOnceWhileValid'
  <2>1. SUFFICES ASSUME NEW m \in Links, expires'[m] > now'
                 PROVE  effects'[m] <= 1 /\ (effects'[m] = 1 => m \in revoked')
    BY DEF UsedOnceWhileValid
  <2>2. CASE m = l
    BY <1>2, <1>3, <2>2 DEF IInv, IssuedBeforeUse
  <2>3. CASE m # l
    BY <1>3, <1>6, <2>1, <2>3 DEF IInv, UsedOnceWhileValid
  <2> QED BY <2>2, <2>3
<1>15. SupersededLinksFail'
  <2>1. SUFFICES ASSUME NEW g \in Handlers, handler'[g].pc = "redeem", NEW m \in Links,
                        kind'[m] = kind'[handler'[g].link],
                        order'[m] > order'[handler'[g].link]
                 PROVE  order'[m] >= handler'[g].newest
    BY DEF SupersededLinksFail
  <2>2. CASE m = l
    BY <1>5, <1>6, <1>11, <2>1, <2>2
  <2>3. CASE m # l
    BY <1>6, <1>11, <2>1, <2>3 DEF IInv, SupersededLinksFail
  <2> QED BY <2>2, <2>3
<1> QED BY <1>8, <1>9, <1>10, <1>12, <1>13, <1>14, <1>15 DEF IInv

\* Nothing a request or the clock does to the account makes a valid link count
\* twice, as long as a change is burned with it.
LEMMA EffectsAreBurned ==
  ASSUME IInv, UNCHANGED linkVars, now' \in Nat, now' >= now,
         \/ UNCHANGED <<revoked, effects>>
         \/ revoked' = {l \in revoked : ~Purgeable(l)} /\ UNCHANGED effects
         \/ \E l \in Issued : /\ l \notin revoked /\ revoked' = revoked \cup {l}
                             /\ effects' = [effects EXCEPT ![l] = @ + 1]
  PROVE  IssuedBeforeUse' /\ UsedOnceWhileValid'
<1> USE DEF linkVars, IInv, TypeOK
<1>1. Issued' = Issued
  BY LinksUntouched
<1>2. CASE UNCHANGED <<revoked, effects>>
  BY <1>1, <1>2 DEF IssuedBeforeUse, UsedOnceWhileValid
<1>3. CASE revoked' = {l \in revoked : ~Purgeable(l)} /\ UNCHANGED effects
  BY <1>1, <1>3 DEF IssuedBeforeUse, UsedOnceWhileValid, Purgeable
<1>4. ASSUME NEW l \in Issued, l \notin revoked, revoked' = revoked \cup {l},
             effects' = [effects EXCEPT ![l] = @ + 1]
      PROVE  IssuedBeforeUse' /\ UsedOnceWhileValid'
  <2>1. /\ l \in Links /\ effects'[l] = effects[l] + 1
        /\ \A m \in Links : m # l => effects'[m] = effects[m]
    BY <1>4 DEF Issued
  <2>2. IssuedBeforeUse'
    BY <1>1, <1>4, <2>1 DEF IssuedBeforeUse
  <2>3. expires[l] > now => effects[l] = 0
    BY <1>4, <2>1 DEF UsedOnceWhileValid
  <2>4. UsedOnceWhileValid'
    BY <1>4, <2>1, <2>3 DEF UsedOnceWhileValid
  <2> QED BY <2>2, <2>4
<1> QED BY <1>2, <1>3, <1>4

\* A request moves on: it begins, learns that its link is pending, or ends.
LEMMA RequestsAreNumbered ==
  ASSUME IInv, UNCHANGED linkVars, NEW h \in Handlers,
         NEW q \in {Idle} \cup [pc : {"issue"}, kind : Kinds] \cup Redeeming,
         handler' = [handler EXCEPT ![h] = q],
         \/ q.pc \in {"idle", "issue"}
         \/ /\ q \in Redeeming /\ q.link \in Issued /\ q.newest <= Cardinality(Issued)
            /\ q.pc = "redeem" => q.link \in pending[kind[q.link]]
  PROVE  /\ RequestsHaveLinks' /\ SupersededLinksFail'
         /\ handler' \in [Handlers -> {Idle} \cup [pc : {"issue"}, kind : Kinds] \cup Redeeming]
<1> USE DEF IInv, linkVars
<1>1. Issued' = Issued
  BY LinksUntouched
<1>2. handler'[h] = q /\ \A g \in Handlers : g # h => handler'[g] = handler[g]
  BY DEF TypeOK
<1>3. RequestsHaveLinks'
  BY <1>1, <1>2 DEF RequestsHaveLinks
<1>4. SupersededLinksFail'
  <2>1. SUFFICES ASSUME NEW g \in Handlers, handler'[g].pc = "redeem", NEW m \in Links,
                        kind[m] = kind[handler'[g].link],
                        order[m] > order[handler'[g].link]
                 PROVE  order[m] >= handler'[g].newest
    BY DEF SupersededLinksFail
  <2>2. CASE g # h
    BY <1>2, <2>1, <2>2 DEF SupersededLinksFail
  <2>3. CASE g = h
    <3>1. q.link \in Links /\ q.link \in pending[kind[q.link]] /\ kind[q.link] \in Kinds
      BY <1>2, <2>1, <2>3 DEF Redeeming, TypeOK, Issued
    <3>2. order[m] <= order[q.link]
      BY <1>2, <2>1, <2>3, <3>1 DEF PendingIsNewest
    <3> QED BY <1>2, <2>1, <2>3, <3>1, <3>2 DEF TypeOK
  <2> QED BY <2>2, <2>3
<1>5. handler' \in [Handlers -> {Idle} \cup [pc : {"issue"}, kind : Kinds] \cup Redeeming]
  BY DEF TypeOK
<1> QED BY <1>3, <1>4, <1>5

\* Types, for the steps that leave the links alone.
LEMMA TypesAreKept ==
  ASSUME TypeOK, UNCHANGED linkVars, now' \in 0 .. MaxTime,
         verified' \in BOOLEAN, active' \in BOOLEAN, revoked' \in SUBSET Links,
         effects' \in [Links -> Nat],
         handler' \in [Handlers -> {Idle} \cup [pc : {"issue"}, kind : Kinds] \cup Redeeming]
  PROVE  TypeOK'
  BY DEF TypeOK, linkVars

\* What a request that redeems a link does, from its arrival to its end.
LEMMA RequestPreserves ==
  ASSUME IInv, NEW h \in Handlers,
         \/ \E k \in Kinds : RequestStarts(h, k)
         \/ \E l \in Links : Opens(h, l)
         \/ ChecksUsed(h) \/ Compares(h) \/ Redeems(h) \/ RedeemConflicts(h) \/ Abandons(h)
  PROVE  IInv'
<1> USE DEF Go, Finish
<1>1. UNCHANGED <<now, active, linkVars>>
  BY DEF RequestStarts, Opens, ChecksUsed, Compares, Redeems, RedeemConflicts, Abandons
<1> DEFINE Numbered ==
      /\ RequestsHaveLinks' /\ SupersededLinksFail'
      /\ handler' \in [Handlers -> {Idle} \cup [pc : {"issue"}, kind : Kinds] \cup Redeeming]
<1>2. ASSUME handler' = [handler EXCEPT ![h] = Idle]
      PROVE  Numbered
  <2>1. Idle.pc = "idle"
    BY DEF Idle
  <2> QED BY <1>1, <1>2, <2>1, RequestsAreNumbered
<1>3. Numbered
  <2>2. ASSUME NEW k \in Kinds, RequestStarts(h, k)
        PROVE  Numbered
    <3> DEFINE q == [pc |-> "issue", kind |-> k]
    <3>1. q \in [pc : {"issue"}, kind : Kinds] /\ q.pc = "issue"
      OBVIOUS
    <3>2. handler' = [handler EXCEPT ![h] = q]
      BY <2>2 DEF RequestStarts
    <3> HIDE DEF q
    <3> QED BY <1>1, <3>1, <3>2, RequestsAreNumbered
  <2>3. ASSUME NEW l \in Links, Opens(h, l)
        PROVE  Numbered
    <3> DEFINE q == [pc |-> "exists", link |-> l, newest |-> Cardinality(Issued)]
    <3>1. Cardinality(Issued) \in Nat
      BY FS_CardinalityType DEF IInv, LinksAreNumbered
    <3>2. q \in Redeeming /\ q.link \in Issued /\ q.newest <= Cardinality(Issued) /\ q.pc = "exists"
      BY <2>3, <3>1 DEF Opens, Redeeming
    <3>3. handler' = [handler EXCEPT ![h] = q]
      BY <2>3 DEF Opens
    <3> HIDE DEF q
    <3> QED BY <1>1, <3>2, <3>3, RequestsAreNumbered
  <2>4. ASSUME NEW pc \in {"compare", "redeem"},
               handler[h].pc \in {"exists", "compare", "redeem"},
               handler' = [handler EXCEPT ![h].pc = pc],
               pc = "redeem" => NotSuperseded(handler[h].link)
        PROVE  Numbered
    <3> DEFINE q == [pc |-> pc, link |-> handler[h].link, newest |-> handler[h].newest]
    <3>1. handler[h] \in Redeeming /\ handler[h].link \in Links /\ handler[h].newest \in Nat
      BY <2>4, RedeemersAreTyped DEF IInv
    <3>2. [handler[h] EXCEPT !.pc = pc] = q
      BY <3>1 DEF Redeeming
    <3>3. handler' = [handler EXCEPT ![h] = q]
      BY <2>4, <3>2
    <3>4. q \in Redeeming /\ q.link \in Issued /\ q.newest <= Cardinality(Issued)
      BY <2>4, <3>1 DEF Redeeming, IInv, RequestsHaveLinks
    <3>5. q.pc = "redeem" => q.link \in pending[kind[q.link]]
      BY <2>4 DEF NotSuperseded
    <3> HIDE DEF q
    <3> QED BY <1>1, <3>3, <3>4, <3>5, RequestsAreNumbered
  <2>5. ASSUME ChecksUsed(h) PROVE Numbered
    BY <1>2, <2>4, <2>5 DEF ChecksUsed
  <2>6. ASSUME Compares(h) PROVE Numbered
    BY <1>2, <2>4, <2>6 DEF Compares
  <2>7. ASSUME Redeems(h) \/ RedeemConflicts(h) \/ Abandons(h) PROVE Numbered
    BY <1>2, <2>7 DEF Redeems, RedeemConflicts, Abandons
  <2> QED BY <2>2, <2>3, <2>5, <2>6, <2>7
<1>4. \/ UNCHANGED <<revoked, effects, verified>>
      \/ \E l \in Issued : /\ l \notin revoked /\ revoked' = revoked \cup {l}
                          /\ effects' = [effects EXCEPT ![l] = @ + 1]
                          /\ verified' \in BOOLEAN
  <2>1. CASE Redeems(h)
    <3>1. handler[h].link \in Issued
      BY <2>1 DEF Redeems, IInv, RequestsHaveLinks
    <3> QED BY <2>1, <3>1 DEF Redeems, Burnable
  <2> QED BY <2>1 DEF RequestStarts, Opens, ChecksUsed, Compares, RedeemConflicts, Abandons
<1>5. now \in Nat /\ now' = now
  BY <1>1 DEF IInv, TypeOK
<1>6. IssuedBeforeUse' /\ UsedOnceWhileValid'
  BY <1>1, <1>4, <1>5, EffectsAreBurned
<1>7. TypeOK'
  <2>1. revoked' \in SUBSET Links /\ effects' \in [Links -> Nat] /\ verified' \in BOOLEAN
    BY <1>4 DEF IInv, TypeOK, Issued
  <2>3. active' \in BOOLEAN /\ now' \in 0 .. MaxTime
    BY <1>1 DEF IInv, TypeOK
  <2> QED BY <1>1, <1>3, <2>1, <2>3, TypesAreKept DEF IInv
<1> QED BY <1>1, <1>3, <1>6, <1>7, LinksUntouched DEF IInv

\* The clock, the purge and the closing of the account.
LEMMA UpkeepPreserves ==
  ASSUME IInv, CloseAccount \/ PurgeExpired \/ Tick
  PROVE  IInv'
<1>1. UNCHANGED <<verified, linkVars, handler, effects>>
  BY DEF CloseAccount, PurgeExpired, Tick
<1>2. now \in Nat /\ now' \in 0 .. MaxTime /\ now' \in Nat /\ now' >= now
  BY LinksAssumption DEF IInv, TypeOK, CloseAccount, PurgeExpired, Tick
<1>3. revoked' = revoked \/ revoked' = {l \in revoked : ~Purgeable(l)}
  BY DEF CloseAccount, PurgeExpired, Tick
<1>4. active' \in BOOLEAN
  BY DEF IInv, TypeOK, CloseAccount, PurgeExpired, Tick
<1>5. IssuedBeforeUse' /\ UsedOnceWhileValid'
  BY <1>1, <1>2, <1>3, EffectsAreBurned
<1>6. TypeOK'
  BY <1>1, <1>2, <1>3, <1>4, TypesAreKept DEF IInv, TypeOK
<1>7. Issued' = Issued /\ LinksAreNumbered' /\ PendingIsNewest'
  BY <1>1, LinksUntouched
<1>8. RequestsHaveLinks' /\ SupersededLinksFail'
  BY <1>1, <1>7 DEF IInv, RequestsHaveLinks, SupersededLinksFail, linkVars
<1> QED BY <1>5, <1>6, <1>7, <1>8 DEF IInv

\* Every step and every stutter preserves the invariant.
LEMMA NextPreserves == IInv /\ [Next]_vars => IInv'
<1> SUFFICES ASSUME IInv, [Next]_vars PROVE IInv'
  OBVIOUS
<1>1. CASE UNCHANGED vars
  <2>1. Issued' = Issued /\ LinksAreNumbered' /\ PendingIsNewest'
    BY <1>1, LinksUntouched DEF vars, linkVars
  <2> QED BY <1>1, <2>1 DEF vars, IInv, TypeOK, IssuedBeforeUse, RequestsHaveLinks,
             UsedOnceWhileValid, SupersededLinksFail
<1>2. ASSUME NEW h \in Handlers, HandlerNext(h)
      PROVE  IInv'
  BY <1>2, IssuesPreserves, RequestPreserves DEF HandlerNext
<1> QED BY <1>1, <1>2, UpkeepPreserves DEF Next

-----------------------------------------------------------------------------

\* The inductive invariant: links are numbered as they are issued, the pending one
\* is the newest of its kind, and requests carry links that exist.
THEOREM Invariance == Spec => []IInv
  BY InitEstablishes, NextPreserves, PTL DEF Spec

\* Every variable keeps its range; an account has one pending link of a kind.
THEOREM TypeCorrect == Spec => []TypeOK
<1>1. IInv => TypeOK
  BY DEF IInv
<1> QED BY <1>1, Invariance, PTL

\* verify_email and reset_password: however many requests race on a link, it
\* changes the account once while it is valid.
THEOREM LinksAreSingleUse == Spec => []UsedOnceWhileValid
<1>1. IInv => UsedOnceWhileValid
  BY DEF IInv
<1> QED BY <1>1, Invariance, PTL

\* start_email_verification and start_password_reset: a request that comes after
\* a newer link was issued never gets to redeem an older one.
THEOREM OldLinksAreDead == Spec => []SupersededLinksFail
<1>1. IInv => SupersededLinksFail
  BY DEF IInv
<1> QED BY <1>1, Invariance, PTL
=============================================================================
