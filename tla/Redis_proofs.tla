------------------------------ MODULE Redis_proofs ------------------------------
(***************************************************************************)
(* What the code keeps in Redis: the tagged cache (TagCache), for any      *)
(* number of functions, tags, calls and invalidations, if functions that   *)
(* share a tag have the same ttl; and the copy of the revoked tokens       *)
(* (TokenBlocklist), for any tokens, requests and losses.                  *)
(***************************************************************************)
EXTENDS TagCache, TokenBlocklist, TLAPS

-----------------------------------------------------------------------------
(* TagCache *)

Busy(c) == caller[c].pc # "idle"
Holds(k) == entry[k].left > 0 /\ ~entry[k].raced
Swept(i, k) == Sweeping(i) /\ invalidator[i].read \cap TagsOf[k] # {}

\* Results and invalidations are numbered by invalidations that have begun.
NumbersAreBegun ==
  /\ \A c \in Callers : Busy(c) => caller[c] \in Calling /\ caller[c].value <= begun
  /\ \A i \in Invalidators : Sweeping(i) =>
       invalidator[i] \in Invalidating /\ invalidator[i].at <= begun

\* A call knows of every invalidation that has read one of its tags.
OverlapsAreKnown ==
  \A c \in Callers, i \in Invalidators :
    Busy(c) /\ Swept(i, caller[c].key) => caller[c].raced

\* An invalidation that has read one tag of an entry has the entry on its list.
SweptIsFound ==
  \A i \in Invalidators, k \in Keys :
    Holds(k) /\ Swept(i, k) => k \in invalidator[i].found

\* What is about to be stored is no older than the invalidations that ended.
ResultsAreRecent ==
  \A c \in Callers : caller[c].pc = "fill" /\ ~caller[c].raced =>
    \A t \in TagsOf[caller[c].key] : caller[c].value >= settled[t]

CacheInv ==
  /\ TypeOK
  /\ NumbersAreBegun
  /\ OverlapsAreKnown
  /\ SweptIsFound
  /\ ResultsAreRecent
  /\ EntriesAreListed
  /\ InvalidatedStaysGone

-----------------------------------------------------------------------------
\* The inductive invariant holds of an empty Redis.
LEMMA CacheInitEstablishes == Init => CacheInv
  <1> SUFFICES ASSUME Init PROVE CacheInv
    OBVIOUS
  <1> USE CacheAssumption DEF Init
  <1>1. TypeOK
    BY DEF TypeOK, Entries, NoEntry, TagSets, NoSet
  <1>2. NumbersAreBegun /\ OverlapsAreKnown /\ ResultsAreRecent
    BY DEF NumbersAreBegun, OverlapsAreKnown, ResultsAreRecent, Busy, Sweeping, Idle
  <1>3. SweptIsFound /\ EntriesAreListed /\ InvalidatedStaysGone
    BY DEF SweptIsFound, EntriesAreListed, InvalidatedStaysGone, Holds, NoEntry
  <1> QED
    BY <1>1, <1>2, <1>3 DEF CacheInv

-----------------------------------------------------------------------------
(* Calls *)

\* A call that misses knows of the invalidations under way.
LEMMA MissesPreserves ==
  ASSUME CacheInv, NEW c \in Callers, NEW k \in Keys, Misses(c, k)
  PROVE  CacheInv'
  <1> USE CacheAssumption DEF CacheInv, Misses
  <1>1. /\ caller'[c] \in Calling
        /\ caller'[c].pc = "load" /\ caller'[c].key = k /\ caller'[c].value = 0
        /\ caller'[c].raced <=> \E i \in Invalidators : Swept(i, k)
    BY DEF TypeOK, Calling, Swept
  <1>2. \A d \in Callers \ {c} : caller'[d] = caller[d]
    BY DEF TypeOK
  <1>3. TypeOK' /\ EntriesAreListed' /\ InvalidatedStaysGone'
    <2>1. caller' \in [Callers -> {Idle} \cup Calling]
      BY <1>1 DEF TypeOK
    <2> QED
      BY <2>1 DEF TypeOK, EntriesAreListed, InvalidatedStaysGone
  <1>4. NumbersAreBegun'
    <2>1. begun \in Nat
      BY DEF TypeOK
    <2>2. \A d \in Callers \ {c} : Busy(d)' => caller'[d] \in Calling /\ caller'[d].value <= begun
      BY <1>2 DEF NumbersAreBegun, Busy
    <2>3. caller'[c].value <= begun
      BY <1>1, <2>1
    <2> QED
      BY <1>1, <2>2, <2>3 DEF NumbersAreBegun, Sweeping
  <1>5. OverlapsAreKnown'
    BY <1>1, <1>2 DEF OverlapsAreKnown, Busy, Swept, Sweeping
  <1>6. SweptIsFound'
    BY DEF SweptIsFound, Holds, Swept, Sweeping
  <1>7. ResultsAreRecent'
    BY <1>1, <1>2 DEF ResultsAreRecent
  <1> QED
    BY <1>3, <1>4, <1>5, <1>6, <1>7

\* What is computed now is as recent as can be.
LEMMA ComputesPreserves ==
  ASSUME CacheInv, NEW c \in Callers, Computes(c)
  PROVE  CacheInv'
  <1> USE CacheAssumption DEF CacheInv, Computes
  <1>0. caller[c] \in Calling
    BY DEF NumbersAreBegun, Busy
  <1>1. /\ caller'[c] \in Calling
        /\ caller'[c].pc = "fill" /\ caller'[c].key = caller[c].key
        /\ caller'[c].value = begun /\ caller'[c].raced = caller[c].raced
    <2>1. begun \in Nat
      BY DEF TypeOK
    <2>2. caller'[c] = [caller[c] EXCEPT !.pc = "fill", !.value = begun]
      BY DEF TypeOK
    <2> HIDE DEF CacheInv, Computes
    <2> QED
      BY <1>0, <2>1, <2>2 DEF Calling
  <1>2. \A d \in Callers \ {c} : caller'[d] = caller[d]
    BY DEF TypeOK
  <1>3. TypeOK' /\ EntriesAreListed' /\ InvalidatedStaysGone'
    <2>1. caller' \in [Callers -> {Idle} \cup Calling]
      BY <1>1 DEF TypeOK
    <2> QED
      BY <2>1 DEF TypeOK, EntriesAreListed, InvalidatedStaysGone
  <1>4. NumbersAreBegun'
    <2>1. begun \in Nat
      BY DEF TypeOK
    <2>2. \A d \in Callers \ {c} : Busy(d)' => caller'[d] \in Calling /\ caller'[d].value <= begun
      BY <1>2 DEF NumbersAreBegun, Busy
    <2>3. caller'[c].value <= begun
      BY <1>1, <2>1
    <2> QED
      BY <1>1, <2>2, <2>3 DEF NumbersAreBegun, Sweeping
  <1>5. OverlapsAreKnown'
    BY <1>1, <1>2 DEF OverlapsAreKnown, Busy, Swept, Sweeping
  <1>6. SweptIsFound'
    BY DEF SweptIsFound, Holds, Swept, Sweeping
  <1>7. ResultsAreRecent'
    <2>1. \A t \in TagsOf[caller[c].key] : begun >= settled[t]
      BY <1>0 DEF TypeOK, Calling
    <2> QED
      BY <1>1, <1>2, <2>1 DEF ResultsAreRecent
  <1> QED
    BY <1>3, <1>4, <1>5, <1>6, <1>7

\* A call that ends without storing leaves no trace.
LEMMA AbandonsPreserves ==
  ASSUME CacheInv, NEW c \in Callers, Abandons(c)
  PROVE  CacheInv'
  <1> USE DEF CacheInv, Abandons
  <1>1. ~Busy(c)' /\ caller'[c].pc # "fill" /\ \A d \in Callers \ {c} : caller'[d] = caller[d]
    BY DEF TypeOK, Busy, Idle
  <1>2. TypeOK' /\ EntriesAreListed' /\ InvalidatedStaysGone'
    BY DEF TypeOK, EntriesAreListed, InvalidatedStaysGone
  <1>3. NumbersAreBegun' /\ OverlapsAreKnown' /\ ResultsAreRecent'
    BY <1>1 DEF NumbersAreBegun, OverlapsAreKnown, ResultsAreRecent, Busy, Swept, Sweeping
  <1>4. SweptIsFound'
    BY DEF SweptIsFound, Holds, Swept, Sweeping
  <1> QED
    BY <1>2, <1>3, <1>4

\* A call that stores lists its entry under each of its tags, and the ttl it
\* gives them suits the entries that were there, because they have the same.
LEMMA FillsPreserves ==
  ASSUME SameLife, CacheInv, NEW c \in Callers, Fills(c)
  PROVE  CacheInv'
  <1> DEFINE k == caller[c].key
  <1> USE CacheAssumption DEF CacheInv, Fills, EntryLife, TagLife
  <1>0. caller[c] \in Calling /\ k \in Keys /\ Busy(c)
    BY DEF NumbersAreBegun, Busy, Calling
  <1>1. /\ entry'[k] \in Entries
        /\ entry'[k].left = Life[k]
        /\ entry'[k].value = caller[c].value
        /\ entry'[k].raced = caller[c].raced
        /\ \A l \in Keys \ {k} : entry'[l] = entry[l]
    BY <1>0 DEF TypeOK, Calling, Entries
  <1>2. \A t \in Tags :
          /\ tagSet'[t] \in TagSets
          /\ t \in TagsOf[k] => /\ tagSet'[t].left = Life[k]
                                /\ tagSet'[t].members = tagSet[t].members \cup {k}
          /\ t \notin TagsOf[k] => tagSet'[t] = tagSet[t]
    BY <1>0 DEF TypeOK, TagSets
  <1>3. ~Busy(c)' /\ caller'[c].pc # "fill" /\ \A d \in Callers \ {c} : caller'[d] = caller[d]
    BY DEF TypeOK, Busy, Idle
  <1>4. TypeOK'
    <2>1. entry' \in [Keys -> Entries] /\ tagSet' \in [Tags -> TagSets]
      BY <1>1, <1>2 DEF TypeOK
    <2>2. Life[k] \in Nat /\ caller[c].value <= begun
      BY <1>0 DEF NumbersAreBegun
    <2>3. \A l \in Keys : entry[l].left <= Life[l] /\ entry[l].value <= begun
      BY DEF TypeOK
    <2>4. \A l \in Keys : entry'[l].left <= Life[l] /\ entry'[l].value <= begun
      <3> HIDE DEF CacheInv, Fills
      <3> QED
        BY <1>1, <2>2, <2>3
    <2> QED
      BY <2>1, <2>4 DEF TypeOK
  <1>5. NumbersAreBegun' /\ OverlapsAreKnown' /\ ResultsAreRecent'
    BY <1>3 DEF NumbersAreBegun, OverlapsAreKnown, ResultsAreRecent, Busy, Swept, Sweeping
  <1>6. SweptIsFound'
    BY <1>0, <1>1 DEF SweptIsFound, OverlapsAreKnown, Holds, Swept, Sweeping
  <1>7. EntriesAreListed'
    <2> SUFFICES ASSUME NEW l \in Keys, Holds(l)', NEW t \in TagsOf[l]
                 PROVE  (l \in tagSet[t].members /\ entry[l].left <= tagSet[t].left)'
      BY DEF EntriesAreListed, Holds
    <2>1. t \in Tags
      OBVIOUS
    <2>2. CASE l = k
      BY <1>0, <1>1, <1>2, <2>1, <2>2
    <2>3. CASE l # k /\ t \in TagsOf[k]
      <3>1. Life[l] = Life[k]
        BY <1>0, <2>3 DEF SameLife
      <3>2. l \in tagSet[t].members /\ entry[l].left <= Life[l]
        BY <1>1, <2>3 DEF EntriesAreListed, Holds, TypeOK
      <3> QED
        BY <1>1, <1>2, <2>1, <2>3, <3>1, <3>2
    <2>4. CASE l # k /\ t \notin TagsOf[k]
      BY <1>1, <1>2, <2>1, <2>4 DEF EntriesAreListed, Holds
    <2> QED
      BY <2>2, <2>3, <2>4
  <1>8. InvalidatedStaysGone'
    BY <1>0, <1>1 DEF InvalidatedStaysGone, ResultsAreRecent
  <1> QED
    BY <1>4, <1>5, <1>6, <1>7, <1>8

-----------------------------------------------------------------------------
(* Invalidations and time *)

\* An invalidation that begins has read nothing.
LEMMA BeginsPreserves ==
  ASSUME CacheInv, NEW i \in Invalidators, NEW ts \in SUBSET Tags, Begins(i, ts)
  PROVE  CacheInv'
  <1> USE CacheAssumption DEF CacheInv, Begins
  <1>1. begun \in Nat /\ begun' = begun + 1 /\ begun' \in 0 .. MaxInvalidations
    BY DEF TypeOK
  <1>2. /\ invalidator'[i] \in Invalidating
        /\ invalidator'[i].read = {} /\ invalidator'[i].at = begun'
        /\ \A j \in Invalidators \ {i} : invalidator'[j] = invalidator[j]
    BY <1>1 DEF TypeOK, Invalidating
  <1>3. TypeOK'
    <2>1. invalidator' \in [Invalidators -> {Idle} \cup Invalidating]
      BY <1>2 DEF TypeOK
    <2>2. \A k \in Keys : entry[k].left <= Life[k] /\ entry[k].value <= begun + 1
      BY <1>1 DEF TypeOK, Entries
    <2>3. settled \in [Tags -> 0 .. begun + 1]
      BY <1>1 DEF TypeOK
    <2> QED
      BY <1>1, <2>1, <2>2, <2>3 DEF TypeOK
  <1>4. NumbersAreBegun'
    <2>1. \A c \in Callers : Busy(c) => caller[c] \in Calling /\ caller[c].value <= begun'
      BY <1>1 DEF NumbersAreBegun, Calling
    <2>2. \A j \in Invalidators \ {i} : Sweeping(j)' =>
            invalidator'[j] \in Invalidating /\ invalidator'[j].at <= begun'
      BY <1>1, <1>2 DEF NumbersAreBegun, Sweeping, Invalidating
    <2>3. invalidator'[i].at <= begun'
      BY <1>1, <1>2
    <2> QED
      BY <1>2, <2>1, <2>2, <2>3 DEF NumbersAreBegun, Busy
  <1>5. \A j \in Invalidators, k \in Keys : Swept(j, k)' => j # i /\ Swept(j, k)
    BY <1>2 DEF Swept, Sweeping
  <1>6. OverlapsAreKnown' /\ SweptIsFound'
    <2>1. \A c \in Callers : Busy(c) => caller[c].key \in Keys
      BY DEF NumbersAreBegun, Calling
    <2> QED
      BY <1>2, <1>5, <2>1 DEF OverlapsAreKnown, SweptIsFound, Holds, Busy
  <1>7. ResultsAreRecent' /\ EntriesAreListed' /\ InvalidatedStaysGone'
    BY DEF ResultsAreRecent, EntriesAreListed, InvalidatedStaysGone
  <1> QED
    BY <1>3, <1>4, <1>6, <1>7

\* Reading a tag finds its entries, and marks the calls of its functions.
LEMMA ReadsTagPreserves ==
  ASSUME CacheInv, NEW i \in Invalidators, NEW t \in Tags, ReadsTag(i, t)
  PROVE  CacheInv'
  <1> USE CacheAssumption DEF CacheInv, ReadsTag, FoundWith
  <1>0. invalidator[i] \in Invalidating
    BY DEF NumbersAreBegun
  <1>1. /\ invalidator'[i] \in Invalidating
        /\ invalidator'[i].read = invalidator[i].read \cup {t}
        /\ invalidator'[i].found = invalidator[i].found \cup tagSet[t].members
        /\ invalidator'[i].at = invalidator[i].at
        /\ \A j \in Invalidators \ {i} : invalidator'[j] = invalidator[j]
    <2>1. tagSet[t].members \subseteq Keys
      BY DEF TypeOK, TagSets
    <2>2. /\ invalidator'[i] = [invalidator[i] EXCEPT
               !.read = invalidator[i].read \cup {t},
               !.found = invalidator[i].found \cup tagSet[t].members]
          /\ \A j \in Invalidators \ {i} : invalidator'[j] = invalidator[j]
      BY DEF TypeOK
    <2>3. PICK r \in SUBSET Tags : r = invalidator[i].read \cup {t}
      BY <1>0 DEF Invalidating
    <2>4. PICK f \in SUBSET Keys : f = invalidator[i].found \cup tagSet[t].members
      BY <1>0, <2>1 DEF Invalidating
    <2>5. invalidator'[i] = [invalidator[i] EXCEPT !.read = r, !.found = f]
      BY <2>2, <2>3, <2>4
    <2> HIDE DEF CacheInv, ReadsTag
    <2>6. /\ invalidator'[i] \in Invalidating
          /\ invalidator'[i].read = r /\ invalidator'[i].found = f
          /\ invalidator'[i].at = invalidator[i].at
      BY <1>0, <2>5 DEF Invalidating
    <2> QED
      BY <2>2, <2>3, <2>4, <2>6
  <1>2. \A c \in Callers : Busy(c) =>
          /\ caller'[c] \in Calling
          /\ caller'[c].pc = caller[c].pc
          /\ caller'[c].key = caller[c].key
          /\ caller'[c].value = caller[c].value
          /\ caller'[c].raced <=> caller[c].raced \/ t \in TagsOf[caller[c].key]
    BY DEF NumbersAreBegun, Busy, Calling
  <1>3. \A c \in Callers : ~Busy(c) => caller'[c] = caller[c]
    BY DEF Busy
  <1>4. TypeOK'
    <2>1. invalidator' \in [Invalidators -> {Idle} \cup Invalidating]
      BY <1>1 DEF TypeOK
    <2>2. \A c \in Callers : caller'[c] \in {Idle} \cup Calling
      BY <1>2, <1>3 DEF TypeOK
    <2>3. caller' \in [Callers -> {Idle} \cup Calling]
      BY <2>2
    <2> QED
      BY <2>1, <2>3 DEF TypeOK
  <1>5. NumbersAreBegun'
    <2>1. \A c \in Callers : Busy(c)' => caller'[c] \in Calling /\ caller'[c].value <= begun
      BY <1>2, <1>3 DEF NumbersAreBegun, Busy
    <2>2. \A j \in Invalidators : Sweeping(j)' =>
            invalidator'[j] \in Invalidating /\ invalidator'[j].at <= begun
      BY <1>1 DEF NumbersAreBegun, Sweeping
    <2> QED
      BY <2>1, <2>2 DEF NumbersAreBegun
  <1>6. \A j \in Invalidators, k \in Keys :
          Swept(j, k)' => Swept(j, k) \/ (j = i /\ t \in TagsOf[k])
    BY <1>1 DEF Swept, Sweeping
  <1>7. OverlapsAreKnown'
    <2>1. \A c \in Callers : Busy(c)' => Busy(c) /\ caller[c].key \in Keys
      BY <1>3 DEF NumbersAreBegun, Calling, Busy
    <2> QED
      BY <1>2, <1>6, <2>1 DEF OverlapsAreKnown
  <1>8. SweptIsFound'
    <2> SUFFICES ASSUME NEW j \in Invalidators, NEW k \in Keys, Holds(k), Swept(j, k)'
                 PROVE  k \in invalidator'[j].found
      BY DEF SweptIsFound, Holds
    <2>1. CASE Swept(j, k)
      BY <1>1, <2>1 DEF SweptIsFound
    <2>2. CASE j = i /\ t \in TagsOf[k]
      BY <1>1, <2>2 DEF EntriesAreListed, Holds
    <2> QED
      BY <1>6, <2>1, <2>2
  <1>9. ResultsAreRecent' /\ EntriesAreListed' /\ InvalidatedStaysGone'
    <2>1. ResultsAreRecent'
      BY <1>2, <1>3 DEF ResultsAreRecent, Busy
    <2> QED
      BY <2>1 DEF EntriesAreListed, InvalidatedStaysGone
  <1> QED
    BY <1>4, <1>5, <1>7, <1>8, <1>9

\* What is deleted is all there is under the tags, but for raced entries.
LEMMA DeletesPreserves ==
  ASSUME CacheInv, NEW i \in Invalidators, Deletes(i)
  PROVE  CacheInv'
  <1> DEFINE inv == invalidator[i]
  <1> USE CacheAssumption DEF CacheInv, Deletes
  <1>0. inv \in Invalidating /\ inv.at <= begun /\ inv.read = inv.tags
    BY DEF NumbersAreBegun
  <1>1. \A k \in Keys : entry'[k] = IF k \in inv.found THEN NoEntry ELSE entry[k]
    OBVIOUS
  <1>2. \A t \in Tags :
          /\ t \in inv.tags => tagSet'[t] = NoSet /\ settled'[t] \in {settled[t], inv.at}
          /\ t \notin inv.tags => tagSet'[t] = tagSet[t] /\ settled'[t] = settled[t]
    OBVIOUS
  <1>3. /\ ~Sweeping(i)'
        /\ \A j \in Invalidators \ {i} : invalidator'[j] = invalidator[j]
    BY DEF TypeOK, Sweeping, Idle
  <1>4. \A k \in Keys : Holds(k)' =>
          /\ Holds(k) /\ entry'[k] = entry[k]
          /\ \A t \in TagsOf[k] : t \in Tags \ inv.tags
    <2> SUFFICES ASSUME NEW k \in Keys, Holds(k)'
                 PROVE  /\ Holds(k) /\ entry'[k] = entry[k]
                        /\ \A t \in TagsOf[k] : t \in Tags \ inv.tags
      OBVIOUS
    <2>1. k \notin inv.found /\ entry'[k] = entry[k] /\ Holds(k)
      BY <1>1 DEF Holds, NoEntry
    <2>2. ~Swept(i, k)
      BY <2>1 DEF SweptIsFound
    <2> QED
      BY <1>0, <2>1, <2>2 DEF Swept
  <1>5. TypeOK'
    <2>1. /\ entry' \in [Keys -> Entries]
          /\ \A k \in Keys : entry'[k].left <= Life[k] /\ entry'[k].value <= begun
      BY <1>1 DEF TypeOK, Entries, NoEntry
    <2>2. tagSet' \in [Tags -> TagSets]
      BY DEF TypeOK, TagSets, NoSet
    <2>3. settled' \in [Tags -> 0 .. begun]
      BY <1>0 DEF TypeOK, Invalidating
    <2>4. invalidator' \in [Invalidators -> {Idle} \cup Invalidating]
      BY DEF TypeOK
    <2> QED
      BY <2>1, <2>2, <2>3, <2>4 DEF TypeOK
  <1>6. NumbersAreBegun'
    BY <1>3 DEF NumbersAreBegun, Busy, Sweeping
  <1>7. OverlapsAreKnown'
    BY <1>3 DEF OverlapsAreKnown, Busy, Swept, Sweeping
  <1>8. SweptIsFound'
    BY <1>3, <1>4 DEF SweptIsFound, Swept, Sweeping
  <1>9. ResultsAreRecent'
    <2> SUFFICES ASSUME NEW c \in Callers, caller[c].pc = "fill", ~caller[c].raced,
                        NEW t \in TagsOf[caller[c].key]
                 PROVE  caller[c].value >= settled'[t]
      BY DEF ResultsAreRecent
    <2>1. Busy(c) /\ caller[c].key \in Keys
      BY DEF NumbersAreBegun, Busy, Calling
    <2>2. ~Swept(i, caller[c].key)
      BY <2>1 DEF OverlapsAreKnown
    <2>3. t \in Tags /\ t \notin inv.tags
      BY <1>0, <2>1, <2>2 DEF Swept
    <2> QED
      BY <1>2, <2>3 DEF ResultsAreRecent
  <1>10. EntriesAreListed'
    BY <1>2, <1>4 DEF EntriesAreListed, Holds
  <1>11. InvalidatedStaysGone'
    BY <1>2, <1>4 DEF InvalidatedStaysGone, Holds
  <1> QED
    BY <1>5, <1>6, <1>7, <1>8, <1>9, <1>10, <1>11

\* An invalidation that gives up has deleted nothing.
LEMMA GivesUpPreserves ==
  ASSUME CacheInv, NEW i \in Invalidators, GivesUp(i)
  PROVE  CacheInv'
  <1> USE DEF CacheInv, GivesUp
  <1>1. /\ ~Sweeping(i)'
        /\ \A j \in Invalidators \ {i} : invalidator'[j] = invalidator[j]
    BY DEF TypeOK, Sweeping, Idle
  <1>2. TypeOK' /\ EntriesAreListed' /\ InvalidatedStaysGone' /\ ResultsAreRecent'
    BY DEF TypeOK, EntriesAreListed, InvalidatedStaysGone, ResultsAreRecent
  <1>3. NumbersAreBegun' /\ OverlapsAreKnown' /\ SweptIsFound'
    BY <1>1 DEF NumbersAreBegun, OverlapsAreKnown, SweptIsFound, Holds, Busy, Swept, Sweeping
  <1> QED
    BY <1>2, <1>3

\* An entry expires no later than the sets it is listed in.
LEMMA TickPreserves ==
  ASSUME CacheInv, Tick
  PROVE  CacheInv'
  <1> USE CacheAssumption DEF CacheInv, Tick
  <1>1. \A k \in Keys :
          /\ entry'[k] \in Entries
          /\ entry'[k].left <= Life[k] /\ entry'[k].value <= begun
          /\ entry'[k].left > 0 => /\ entry[k].left > 1
                                   /\ entry'[k].left = entry[k].left - 1
                                   /\ entry'[k].value = entry[k].value
                                   /\ entry'[k].raced = entry[k].raced
    <2> SUFFICES ASSUME NEW k \in Keys
                 PROVE  /\ entry'[k] \in Entries
                        /\ entry'[k].left <= Life[k] /\ entry'[k].value <= begun
                        /\ entry'[k].left > 0 => /\ entry[k].left > 1
                                                 /\ entry'[k].left = entry[k].left - 1
                                                 /\ entry'[k].value = entry[k].value
                                                 /\ entry'[k].raced = entry[k].raced
      OBVIOUS
    <2>1. /\ entry[k] \in Entries /\ entry[k].left <= Life[k] /\ entry[k].value <= begun
          /\ begun \in Nat /\ Life[k] \in Nat
      BY DEF TypeOK
    <2>2. entry'[k] = IF entry[k].left > 1
                      THEN [entry[k] EXCEPT !.left = entry[k].left - 1] ELSE NoEntry
      OBVIOUS
    <2> HIDE DEF CacheInv, Tick
    <2>3. CASE entry[k].left > 1
      BY <2>1, <2>2, <2>3 DEF Entries
    <2>4. CASE ~(entry[k].left > 1)
      <3>1. entry'[k] = [left |-> 0, value |-> 0, raced |-> FALSE]
        BY <2>2, <2>4 DEF NoEntry
      <3> QED
        BY <2>1, <3>1 DEF Entries
    <2> QED
      BY <2>3, <2>4
  <1>2. \A t \in Tags :
          /\ tagSet'[t] \in TagSets
          /\ tagSet[t].left > 1 => /\ tagSet'[t].left = tagSet[t].left - 1
                                   /\ tagSet'[t].members = tagSet[t].members
    <2> SUFFICES ASSUME NEW t \in Tags
                 PROVE  /\ tagSet'[t] \in TagSets
                        /\ tagSet[t].left > 1 => /\ tagSet'[t].left = tagSet[t].left - 1
                                                 /\ tagSet'[t].members = tagSet[t].members
      OBVIOUS
    <2>1. tagSet[t] \in TagSets
      BY DEF TypeOK
    <2>2. tagSet'[t] = IF tagSet[t].left > 1
                       THEN [tagSet[t] EXCEPT !.left = tagSet[t].left - 1] ELSE NoSet
      OBVIOUS
    <2> HIDE DEF CacheInv, Tick
    <2> QED
      BY <2>1, <2>2 DEF TagSets, NoSet
  <1>3. TypeOK'
    <2>1. entry' \in [Keys -> Entries] /\ tagSet' \in [Tags -> TagSets]
      BY <1>1, <1>2
    <2> QED
      BY <1>1, <2>1 DEF TypeOK
  <1>4. NumbersAreBegun' /\ OverlapsAreKnown' /\ ResultsAreRecent'
    BY DEF NumbersAreBegun, OverlapsAreKnown, ResultsAreRecent, Busy, Swept, Sweeping
  <1>5. SweptIsFound' /\ InvalidatedStaysGone'
    <2>1. \A k \in Keys : Holds(k)' => Holds(k) /\ entry'[k].value = entry[k].value
      <3> SUFFICES ASSUME NEW k \in Keys, entry'[k].left > 0, ~entry'[k].raced
                   PROVE  Holds(k) /\ entry'[k].value = entry[k].value
        BY DEF Holds
      <3>1. /\ entry[k].left > 1 /\ entry'[k].value = entry[k].value
            /\ entry'[k].raced = entry[k].raced
        BY <1>1
      <3>2. entry[k].left \in Nat
        BY DEF TypeOK, Entries
      <3>3. entry[k].left > 0
        BY <3>1, <3>2
      <3> QED
        BY <3>1, <3>3 DEF Holds
    <2>2. SweptIsFound'
      BY <2>1 DEF SweptIsFound, Swept, Sweeping
    <2>3. InvalidatedStaysGone'
      BY <2>1 DEF InvalidatedStaysGone, Holds
    <2> QED
      BY <2>2, <2>3
  <1>6. EntriesAreListed'
    <2> SUFFICES ASSUME NEW k \in Keys, Holds(k)', NEW t \in TagsOf[k]
                 PROVE  k \in tagSet'[t].members /\ entry'[k].left <= tagSet'[t].left
      BY DEF EntriesAreListed, Holds
    <2>0. entry'[k].left > 0
      BY DEF Holds
    <2>1. /\ k \in tagSet[t].members /\ entry[k].left <= tagSet[t].left
          /\ entry[k].left > 1 /\ entry'[k].left = entry[k].left - 1
      <3>1. entry[k].left > 1 /\ entry'[k].left = entry[k].left - 1 /\ ~entry[k].raced
        BY <1>1, <2>0 DEF Holds
      <3>2. entry[k].left > 0
        BY <3>1 DEF TypeOK, Entries
      <3> QED
        BY <3>1, <3>2 DEF EntriesAreListed
    <2>2. t \in Tags /\ entry[k].left \in Nat /\ tagSet[t].left \in Nat
      BY DEF TypeOK, Entries, TagSets
    <2> QED
      BY <1>2, <2>1, <2>2
  <1> QED
    BY <1>3, <1>4, <1>5, <1>6

-----------------------------------------------------------------------------
\* Every step preserves the inductive invariant.
LEMMA CacheNextPreserves == ASSUME SameLife, CacheInv, [Next]_vars PROVE CacheInv'
  <1>1. ASSUME NEW c \in Callers, CallerNext(c) PROVE CacheInv'
    BY <1>1, MissesPreserves, ComputesPreserves, FillsPreserves, AbandonsPreserves
       DEF CallerNext
  <1>2. ASSUME NEW i \in Invalidators, InvalidatorNext(i) PROVE CacheInv'
    BY <1>2, BeginsPreserves, ReadsTagPreserves, DeletesPreserves, GivesUpPreserves
       DEF InvalidatorNext
  <1>3. CASE UNCHANGED vars
    BY <1>3 DEF vars, CacheInv, TypeOK, NumbersAreBegun, OverlapsAreKnown, SweptIsFound,
       ResultsAreRecent, EntriesAreListed, InvalidatedStaysGone, Holds, Busy, Swept, Sweeping
  <1> QED
    BY <1>1, <1>2, <1>3, TickPreserves DEF Next

\* The inductive invariant of TagCache, if no tag is shared by different ttls.
THEOREM CacheInvariance == SameLife => (Spec => []CacheInv)
  <1> SUFFICES ASSUME SameLife PROVE Spec => []CacheInv
    OBVIOUS
  <1>1. CacheInv /\ [Next]_vars => CacheInv'
    BY CacheNextPreserves
  <1> QED
    BY CacheInitEstablishes, <1>1, PTL DEF Spec

\* Every variable keeps its range; no entry outlives the ttl of its function.
THEOREM CacheTypeCorrect == SameLife => (Spec => []TypeOK)
  BY CacheInvariance, PTL DEF CacheInv

\* Every entry is listed under each of its tags while it lives, unless its call
\* overlapped an invalidation of one of them.
THEOREM NoEntryIsOrphaned == SameLife => (Spec => []EntriesAreListed)
  BY CacheInvariance, PTL DEF CacheInv

\* invalidate_tags clears everything under a tag, but for what such calls store.
THEOREM InvalidationClearsTheTag == SameLife => (Spec => []InvalidatedStaysGone)
  BY CacheInvariance, PTL DEF CacheInv

-----------------------------------------------------------------------------
(* TokenBlocklist *)

\* Every token of ts that is still alive has its key, or lost it at a moment
\* when nothing would put it back.
Covered(ts) == ts \ expired \subseteq keys \cup torn

InCheck(h) ==
  handler[h].pc \in {"lookup", "exists", "claim", "list", "fill", "ready", "answer"}

\* A logout that comes to its second write has made the first.
PublishedBeforeRecorded ==
  \A h \in Handlers : handler[h].pc = "record" => Covered(handler[h].tokens)

\* What a seeder has not listed since it read the table was published, and so
\* was everything once it has filled the copy.
SeedersCover ==
  \A h \in Handlers :
    /\ handler[h].pc = "fill" => Covered(table \ handler[h].listed)
    /\ handler[h].pc = "ready" => Covered(table)

\* A restart from the copy on disk, if that has READY, loses nothing but what
\* it puts into torn.
SavedCovers ==
  /\ saved.keys \cap expired = {}
  /\ saved.ready => Covered(table \ saved.keys)

\* A row is purged only when its token has expired.
LogoutsAreRecorded == loggedOut \subseteq table \cup expired

\* A check that began after the logout can only miss what was lost or expired.
LateChecksKnow ==
  \A h \in Handlers : InCheck(h) /\ handler[h].late =>
    /\ handler[h].token \in loggedOut
    /\ handler[h].answer = "clean" => handler[h].token \in torn \cup expired

BlocklistInv ==
  /\ BlocklistTypeOK
  /\ ReadyIsComplete
  /\ PublishedBeforeRecorded
  /\ SeedersCover
  /\ SavedCovers
  /\ LogoutsAreRecorded
  /\ LateChecksKnow

-----------------------------------------------------------------------------

\* The inductive invariant holds of an empty table and an empty Redis.
LEMMA BlocklistInitEstablishes == BlocklistInit => BlocklistInv
  <1> SUFFICES ASSUME BlocklistInit PROVE BlocklistInv
    OBVIOUS
  <1>1. \A h \in Handlers : handler[h].pc = "idle"
    BY DEF BlocklistInit, NoRequest
  <1>2. BlocklistTypeOK
    <2>1. saved \in Copies /\ losses \in 0 .. MaxLosses
      BY BlocklistAssumption DEF BlocklistInit, Copies, Empty
    <2> QED
      BY <2>1 DEF BlocklistInit, BlocklistTypeOK
  <1>3. ReadyIsComplete /\ SavedCovers /\ LogoutsAreRecorded
    BY DEF BlocklistInit, Empty, ReadyIsComplete, SavedCovers, LogoutsAreRecorded, Covered
  <1>4. PublishedBeforeRecorded /\ SeedersCover /\ LateChecksKnow
    BY <1>1 DEF PublishedBeforeRecorded, SeedersCover, LateChecksKnow, InCheck
  <1> QED
    BY <1>2, <1>3, <1>4 DEF BlocklistInv

-----------------------------------------------------------------------------
(* Logouts *)

\* A logout begins, or a request of either kind is over: nothing is claimed of
\* either.
LEMMA EdgesPreserve ==
  ASSUME BlocklistInv, NEW h \in Handlers,
         (\E ts \in SUBSET Tokens : LogoutStarts(h, ts)) \/ Ends(h)
  PROVE  BlocklistInv'
  <1> USE DEF BlocklistInv, BlocklistTypeOK, redisVars
  <1>1. UNCHANGED <<table, keys, ready, seeding, saved, expired, loggedOut, torn, losses>>
    BY DEF LogoutStarts, Ends
  <1>2. /\ handler' \in [Handlers -> {NoRequest} \cup Checking \cup LoggingOut]
        /\ \A g \in Handlers \ {h} : handler'[g] = handler[g]
        /\ handler'[h].pc \in {"publish", "idle"}
    BY DEF LogoutStarts, Ends, Finish, LoggingOut, NoRequest
  <1>3. BlocklistTypeOK'
    BY <1>1, <1>2
  <1>4. ReadyIsComplete' /\ SavedCovers' /\ LogoutsAreRecorded'
    BY <1>1 DEF ReadyIsComplete, SavedCovers, LogoutsAreRecorded, Covered
  <1>5. PublishedBeforeRecorded' /\ SeedersCover' /\ LateChecksKnow'
    BY <1>1, <1>2
       DEF PublishedBeforeRecorded, SeedersCover, LateChecksKnow, Covered, InCheck
  <1> QED
    BY <1>3, <1>4, <1>5

\* More keys cover more, and the tokens of the logout are among them unless it
\* gives up.
LEMMA PublishingPreserves ==
  ASSUME BlocklistInv, NEW h \in Handlers, Publishes(h) \/ PublishFails(h)
  PROVE  BlocklistInv'
  <1> USE DEF BlocklistInv, BlocklistTypeOK
  <1>1. UNCHANGED <<table, ready, seeding, saved, expired, loggedOut, torn, losses>>
    BY DEF Publishes, PublishFails
  <1>2. handler[h].pc = "publish" /\ handler[h] \in LoggingOut
    BY DEF Publishes, PublishFails, NoRequest, Checking
  <1>3. keys \subseteq keys' /\ keys' \subseteq Tokens \ expired
    BY <1>2 DEF Publishes, PublishFails, Settable, LoggingOut
  <1>4. \A g \in Handlers \ {h} : handler'[g] = handler[g]
    BY DEF Publishes, PublishFails, PublishGivesUp, Go, Finish
  <1>5. /\ handler'[h] \in {NoRequest} \cup LoggingOut
        /\ handler'[h].pc \in {"idle", "record"}
        /\ handler'[h].pc = "record" => handler'[h].tokens \ expired \subseteq keys'
    <2>1. CASE Publishes(h)
      BY <2>1, <1>2 DEF Publishes, Go, LoggingOut, Settable
    <2>2. CASE PublishFails(h)
      BY <2>2 DEF PublishFails, PublishGivesUp, Finish, NoRequest
    <2> QED
      BY <2>1, <2>2
  <1>6. handler' \in [Handlers -> {NoRequest} \cup Checking \cup LoggingOut]
    BY <1>5 DEF Publishes, PublishFails, PublishGivesUp, Go, Finish
  <1>7. BlocklistTypeOK'
    BY <1>1, <1>3, <1>6
  <1>8. ReadyIsComplete' /\ SavedCovers' /\ LogoutsAreRecorded'
    BY <1>1, <1>3 DEF ReadyIsComplete, SavedCovers, LogoutsAreRecorded, Covered
  <1>9. PublishedBeforeRecorded' /\ SeedersCover' /\ LateChecksKnow'
    BY <1>1, <1>3, <1>4, <1>5
       DEF PublishedBeforeRecorded, SeedersCover, LateChecksKnow, Covered, InCheck
  <1> QED
    BY <1>7, <1>8, <1>9

\* The rows that are added have their keys already.
LEMMA RecordsPreserves ==
  ASSUME BlocklistInv, NEW h \in Handlers, Records(h)
  PROVE  BlocklistInv'
  <1> USE DEF BlocklistInv, BlocklistTypeOK, Records, redisVars
  <1> DEFINE ts == handler[h].tokens
  <1>1. UNCHANGED <<keys, ready, seeding, saved, expired, torn, losses>>
    OBVIOUS
  <1>2. handler[h] \in LoggingOut /\ ts \subseteq Tokens
    BY DEF NoRequest, Checking, LoggingOut
  <1>3. table' = table \cup ts /\ loggedOut' = loggedOut \cup ts /\ Covered(ts)
    BY DEF PublishedBeforeRecorded
  <1>4. /\ handler' \in [Handlers -> {NoRequest} \cup Checking \cup LoggingOut]
        /\ \A g \in Handlers \ {h} : handler'[g] = handler[g]
        /\ handler'[h].pc = "idle"
    BY DEF Finish, NoRequest
  <1> HIDE DEF ts, Records
  <1>5. BlocklistTypeOK'
    BY <1>1, <1>2, <1>3, <1>4
  <1>6. ReadyIsComplete' /\ SavedCovers' /\ LogoutsAreRecorded'
    BY <1>1, <1>3 DEF ReadyIsComplete, SavedCovers, LogoutsAreRecorded, Covered
  <1>7. PublishedBeforeRecorded' /\ SeedersCover' /\ LateChecksKnow'
    BY <1>1, <1>3, <1>4
       DEF PublishedBeforeRecorded, SeedersCover, LateChecksKnow, Covered, InCheck
  <1> QED
    BY <1>5, <1>6, <1>7

-----------------------------------------------------------------------------
(* Checks *)

\* What a step of a check does to its handler alone keeps the invariant if what
\* it carries to its next place is true there.
LEMMA CheckMoves ==
  ASSUME BlocklistInv, NEW h \in Handlers,
         UNCHANGED <<table, keys, ready, saved, expired, loggedOut, torn, losses>>,
         seeding' \in BOOLEAN,
         NEW r \in Checking, handler' = [handler EXCEPT ![h] = r],
         r.late => /\ r.token \in loggedOut
                   /\ r.answer = "clean" => r.token \in torn \cup expired,
         r.pc = "fill" => Covered(table \ r.listed),
         r.pc = "ready" => Covered(table)
  PROVE  BlocklistInv'
  <1> USE DEF BlocklistInv, BlocklistTypeOK
  <1>1. handler'[h] = r /\ \A g \in Handlers \ {h} : handler'[g] = handler[g]
    OBVIOUS
  <1>2. r.pc \notin {"publish", "record"}
    BY DEF Checking
  <1>3. BlocklistTypeOK'
    OBVIOUS
  <1>4. ReadyIsComplete' /\ SavedCovers' /\ LogoutsAreRecorded'
    BY DEF ReadyIsComplete, SavedCovers, LogoutsAreRecorded, Covered
  <1>5. PublishedBeforeRecorded' /\ SeedersCover' /\ LateChecksKnow'
    BY <1>1, <1>2
       DEF PublishedBeforeRecorded, SeedersCover, LateChecksKnow, Covered, InCheck
  <1> QED
    BY <1>3, <1>4, <1>5

\* A check begins, and asks Redis or the table: what it finds clean although it
\* began after the logout was lost or has expired.
LEMMA AskingPreserves ==
  ASSUME BlocklistInv, NEW h \in Handlers,
         (\E t \in Tokens : CheckStarts(h, t)) \/ LooksUp(h) \/ LookupFails(h)
           \/ AsksTable(h)
  PROVE  BlocklistInv'
  <1> USE DEF BlocklistInv, BlocklistTypeOK, redisVars
  <1> DEFINE o == handler[h]
  <1>1. ASSUME NEW t \in Tokens, CheckStarts(h, t)
        PROVE  BlocklistInv'
    <2> DEFINE r == [pc |-> "lookup", token |-> t, late |-> t \in loggedOut,
                     answer |-> "unknown", listed |-> {}]
    <2>1. r \in Checking
      BY DEF Checking, Answers
    <2>2. handler' = [handler EXCEPT ![h] = r]
      BY <1>1 DEF CheckStarts
    <2> QED
      BY <1>1, <2>1, <2>2, CheckMoves DEF CheckStarts
  <1>2. CASE LooksUp(h)
    <2> DEFINE r == [o EXCEPT !.pc = IF ready THEN "answer" ELSE "exists",
                       !.answer = IF ready THEN AnswerOf(o.token \in keys) ELSE "unknown"]
    <2>1. o \in Checking /\ InCheck(h)
      BY <1>2 DEF LooksUp, NoRequest, LoggingOut, InCheck
    <2>2. r \in Checking /\ r.token = o.token /\ r.late = o.late
      BY <2>1 DEF Checking, Answers, AnswerOf
    <2>3. handler' = [handler EXCEPT ![h] = r]
      BY <1>2 DEF LooksUp
    <2>4. r.answer = "clean" => ready /\ o.token \notin keys
      BY <2>1 DEF AnswerOf, Checking
    <2>5. r.late => /\ r.token \in loggedOut
                    /\ r.answer = "clean" => r.token \in torn \cup expired
      BY <2>1, <2>2, <2>4 DEF LateChecksKnow, LogoutsAreRecorded, ReadyIsComplete
    <2>6. r.pc \notin {"fill", "ready"}
      BY <2>1 DEF Checking
    <2>7. /\ UNCHANGED <<table, keys, ready, saved, expired, loggedOut, torn, losses>>
          /\ seeding' \in BOOLEAN
      BY <1>2 DEF LooksUp
    <2> HIDE DEF r, BlocklistInv, BlocklistTypeOK
    <2> QED
      BY <2>2, <2>3, <2>5, <2>6, <2>7, CheckMoves
  <1>3. CASE LookupFails(h)
    <2> DEFINE r == [o EXCEPT !.pc = "exists"]
    <2>1. o \in Checking /\ InCheck(h)
      BY <1>3 DEF LookupFails, NoRequest, LoggingOut, InCheck
    <2>2. r \in Checking /\ r.token = o.token /\ r.late = o.late /\ r.answer = o.answer
          /\ r.pc = "exists"
      BY <2>1 DEF Checking
    <2>3. handler' = [handler EXCEPT ![h] = r]
      BY <1>3 DEF LookupFails, Go
    <2> QED
      BY <1>3, <2>1, <2>2, <2>3, CheckMoves DEF LookupFails, LateChecksKnow
  <1>4. CASE AsksTable(h)
    <2> DEFINE r == [o EXCEPT !.pc = "claim",
                       !.answer = AnswerOf(o.token \in table \ expired)]
    <2>1. o \in Checking /\ InCheck(h)
      BY <1>4 DEF AsksTable, NoRequest, LoggingOut, InCheck
    <2>2. r \in Checking /\ r.token = o.token /\ r.late = o.late /\ r.pc = "claim"
      BY <2>1 DEF Checking, Answers, AnswerOf
    <2>3. handler' = [handler EXCEPT ![h] = r]
      BY <1>4 DEF AsksTable
    <2>4. r.answer = "clean" => o.token \notin table \ expired
      BY <2>1 DEF AnswerOf, Checking
    <2>5. r.late => /\ r.token \in loggedOut
                    /\ r.answer = "clean" => r.token \in torn \cup expired
      BY <2>1, <2>2, <2>4 DEF LateChecksKnow, LogoutsAreRecorded
    <2> QED
      BY <1>4, <2>2, <2>3, <2>5, CheckMoves DEF AsksTable
  <1> QED
    BY <1>1, <1>2, <1>3, <1>4

\* A check that seeds, or does not: the listing covers the table, and READY is
\* set when the copy does.
LEMMA SeedingPreserves ==
  ASSUME BlocklistInv, NEW h \in Handlers,
         Claims(h) \/ DoesNotSeed(h) \/ Lists(h)
  PROVE  BlocklistInv'
  <1> USE DEF redisVars
  <1> DEFINE o == handler[h]
  <1>1. o \in Checking /\ InCheck(h)
    BY DEF BlocklistInv, BlocklistTypeOK, Claims, DoesNotSeed, Lists, NoRequest,
           LoggingOut, InCheck
  <1>2. o.late => /\ o.token \in loggedOut
                  /\ o.answer = "clean" => o.token \in torn \cup expired
    BY <1>1 DEF BlocklistInv, LateChecksKnow
  <1>3. /\ UNCHANGED <<table, keys, ready, saved, expired, loggedOut, torn, losses>>
        /\ seeding' \in BOOLEAN
    BY DEF BlocklistInv, BlocklistTypeOK, Claims, DoesNotSeed, Lists
  <1>4. ASSUME NEW pc \in {"list", "answer"}, handler' = [handler EXCEPT ![h].pc = pc]
        PROVE  BlocklistInv'
    <2> DEFINE r == [o EXCEPT !.pc = pc]
    <2>1. /\ r \in Checking /\ r.pc = pc /\ r.token = o.token /\ r.late = o.late
          /\ r.answer = o.answer /\ handler' = [handler EXCEPT ![h] = r]
      BY <1>1, <1>4 DEF Checking
    <2> HIDE DEF r
    <2> QED
      BY <1>2, <1>3, <2>1, CheckMoves
  <1>5. CASE Lists(h)
    <2> DEFINE r == [o EXCEPT !.pc = "fill", !.listed = table \ expired]
    <2>1. /\ r \in Checking /\ r.pc = "fill" /\ r.token = o.token /\ r.late = o.late
          /\ r.answer = o.answer /\ r.listed = table \ expired
      BY <1>1 DEF BlocklistInv, BlocklistTypeOK, Checking
    <2>2. handler' = [handler EXCEPT ![h] = r]
      BY <1>5 DEF Lists
    <2> HIDE DEF r
    <2>3. Covered(table \ r.listed)
      BY <2>1 DEF Covered
    <2> QED
      BY <1>2, <1>3, <2>1, <2>2, <2>3, CheckMoves
  <1> QED
    BY <1>4, <1>5 DEF Claims, DoesNotSeed, Go

\* The pipeline of a seeder adds keys; if it gets to the end, the copy covers
\* the table.
LEMMA FillingPreserves ==
  ASSUME BlocklistInv, NEW h \in Handlers, FillsCopy(h) \/ FillFails(h)
  PROVE  BlocklistInv'
  <1> USE DEF BlocklistInv, BlocklistTypeOK
  <1> DEFINE o == handler[h]
  <1>1. UNCHANGED <<table, ready, seeding, saved, expired, loggedOut, torn, losses>>
    BY DEF FillsCopy, FillFails
  <1>2. o \in Checking /\ o.pc = "fill" /\ InCheck(h)
    BY DEF FillsCopy, FillFails, NoRequest, LoggingOut, InCheck
  <1>3. keys \subseteq keys' /\ keys' \subseteq Tokens \ expired
    BY <1>2 DEF FillsCopy, FillFails, Settable, Checking
  <1>4. \A g \in Handlers \ {h} : handler'[g] = handler[g]
    BY DEF FillsCopy, FillFails, FillGivesUp, Go
  <1>5. /\ handler'[h] \in Checking /\ handler'[h].pc \in {"ready", "answer"}
        /\ handler'[h].token = o.token /\ handler'[h].late = o.late
        /\ handler'[h].answer = o.answer
    BY <1>2 DEF FillsCopy, FillFails, FillGivesUp, Go, Checking
  <1>6. handler'[h].pc = "ready" => table \ expired \subseteq keys' \cup torn
    <2>1. CASE FillsCopy(h)
      BY <2>1, <1>2 DEF FillsCopy, SeedersCover, Covered, Settable
    <2>2. CASE FillFails(h)
      BY <2>2, <1>2 DEF FillFails, FillGivesUp, Go, Checking
    <2> QED
      BY <2>1, <2>2
  <1>7. handler' \in [Handlers -> {NoRequest} \cup Checking \cup LoggingOut]
    BY <1>5 DEF FillsCopy, FillFails, FillGivesUp, Go
  <1>8. BlocklistTypeOK'
    BY <1>1, <1>3, <1>7
  <1>9. ReadyIsComplete' /\ SavedCovers' /\ LogoutsAreRecorded'
    BY <1>1, <1>3 DEF ReadyIsComplete, SavedCovers, LogoutsAreRecorded, Covered
  <1>10. PublishedBeforeRecorded' /\ SeedersCover'
    BY <1>1, <1>3, <1>4, <1>5, <1>6 DEF PublishedBeforeRecorded, SeedersCover, Covered
  <1>11. LateChecksKnow'
    BY <1>1, <1>2, <1>4, <1>5 DEF LateChecksKnow, InCheck
  <1> QED
    BY <1>8, <1>9, <1>10, <1>11

\* READY is set by a seeder whose copy covers the table.
LEMMA SetsReadyPreserves ==
  ASSUME BlocklistInv, NEW h \in Handlers, SetsReady(h)
  PROVE  BlocklistInv'
  <1> USE DEF BlocklistInv, BlocklistTypeOK, SetsReady
  <1> DEFINE o == handler[h]
  <1>1. UNCHANGED <<table, keys, seeding, saved, expired, loggedOut, torn, losses>>
    OBVIOUS
  <1>2. o \in Checking /\ o.pc = "ready" /\ InCheck(h) /\ Covered(table)
    <2>1. o.pc = "ready" /\ o \in {NoRequest} \cup Checking \cup LoggingOut
      OBVIOUS
    <2>2. o \in Checking
      BY <2>1 DEF NoRequest, LoggingOut
    <2> QED
      BY <2>1, <2>2 DEF InCheck, SeedersCover
  <1>3. \A g \in Handlers \ {h} : handler'[g] = handler[g]
    BY DEF Go
  <1>4. /\ handler'[h] \in Checking /\ handler'[h].pc = "answer"
        /\ handler'[h].token = o.token /\ handler'[h].late = o.late
        /\ handler'[h].answer = o.answer
    BY <1>2 DEF Go, Checking
  <1>5. handler' \in [Handlers -> {NoRequest} \cup Checking \cup LoggingOut]
    BY <1>4 DEF Go
  <1>6. BlocklistTypeOK'
    BY <1>1, <1>5
  <1>7. ReadyIsComplete' /\ SavedCovers' /\ LogoutsAreRecorded'
    BY <1>1, <1>2 DEF ReadyIsComplete, SavedCovers, LogoutsAreRecorded, Covered
  <1>8. PublishedBeforeRecorded' /\ SeedersCover' /\ LateChecksKnow'
    BY <1>1, <1>2, <1>3, <1>4
       DEF PublishedBeforeRecorded, SeedersCover, LateChecksKnow, Covered, InCheck
  <1> QED
    BY <1>6, <1>7, <1>8

-----------------------------------------------------------------------------
(* Time and Redis *)

\* The lock of the seeder, the purge and the copy to disk: a purged row is that
\* of an expired token, and what is written to disk covers the table if it has
\* READY.
LEMMA HousekeepingPreserves ==
  ASSUME BlocklistInv, SeedingExpires \/ PurgeExpired \/ Fsync
  PROVE  BlocklistInv'
  <1> USE DEF BlocklistInv, BlocklistTypeOK, redisVars
  <1>1. /\ UNCHANGED <<keys, ready, expired, handler, loggedOut, torn, losses>>
        /\ seeding' \in BOOLEAN
    BY DEF SeedingExpires, PurgeExpired, Fsync
  <1>2. table' \subseteq table /\ table \ expired \subseteq table'
    BY DEF SeedingExpires, PurgeExpired, Fsync
  <1>3. saved' = saved \/ saved' = [keys |-> keys, ready |-> ready]
    BY DEF SeedingExpires, PurgeExpired, Fsync
  <1>4. BlocklistTypeOK'
    <2>1. saved' \in Copies
      BY <1>3 DEF Copies
    <2> QED
      BY <1>1, <1>2, <2>1
  <1>5. ReadyIsComplete' /\ LogoutsAreRecorded' /\ PublishedBeforeRecorded'
          /\ SeedersCover' /\ LateChecksKnow'
    BY <1>1, <1>2
       DEF ReadyIsComplete, LogoutsAreRecorded, PublishedBeforeRecorded, SeedersCover,
           LateChecksKnow, Covered, InCheck
  <1>6. SavedCovers'
    BY <1>1, <1>2, <1>3 DEF SavedCovers, Covered, ReadyIsComplete
  <1> QED
    BY <1>4, <1>5, <1>6

\* A token that expires need no longer be covered, and its key is gone
\* everywhere.
LEMMA ExpiresPreserves ==
  ASSUME BlocklistInv, NEW t \in Tokens, Expires(t)
  PROVE  BlocklistInv'
  <1> USE DEF BlocklistInv, BlocklistTypeOK, Expires
  <1>1. /\ UNCHANGED <<table, ready, seeding, handler, loggedOut, torn, losses>>
        /\ expired' = expired \cup {t} /\ keys' = keys \ {t}
    BY DEF Settable
  <1>2. saved'.keys = saved.keys \ {t} /\ saved'.ready = saved.ready /\ saved' \in Copies
    BY DEF Copies
  <1>3. BlocklistTypeOK'
    BY <1>1, <1>2
  <1>4. ReadyIsComplete' /\ LogoutsAreRecorded' /\ PublishedBeforeRecorded'
          /\ SeedersCover' /\ LateChecksKnow'
    BY <1>1
       DEF ReadyIsComplete, LogoutsAreRecorded, PublishedBeforeRecorded, SeedersCover,
           LateChecksKnow, Covered, InCheck
  <1>5. SavedCovers'
    BY <1>1, <1>2 DEF SavedCovers, Covered
  <1> QED
    BY <1>3, <1>4, <1>5

\* A flush or a restart: whatever READY, a seeder or a logout under way relied
\* on is in torn afterwards.
LEMMA RedisLosesPreserves ==
  ASSUME BlocklistInv, RedisLoses
  PROVE  BlocklistInv'
  <1> USE DEF BlocklistInv, BlocklistTypeOK
  <1>1. /\ UNCHANGED <<table, expired, handler, loggedOut>>
        /\ seeding' \in BOOLEAN /\ losses' \in 0 .. MaxLosses
    <2>1. losses < MaxLosses /\ losses' = losses + 1 /\ losses \in 0 .. MaxLosses
      BY DEF RedisLoses
    <2>2. losses' \in 0 .. MaxLosses
      BY <2>1, BlocklistAssumption
    <2> QED
      BY <2>2 DEF RedisLoses
  <1>2. PICK c \in {Empty, saved} :
          /\ keys' = c.keys /\ ready' = c.ready /\ saved' = c
          /\ torn' = torn \cup
               (IF c.ready THEN keys \ c.keys
                ELSE (keys \ c.keys) \cap UNION {Exposed(h) : h \in Handlers})
    BY DEF RedisLoses
  <1>3. /\ c \in Copies /\ c.keys \cap expired = {}
        /\ c.ready => Covered(table \ c.keys)
    <2>1. CASE c = Empty
      BY <2>1 DEF Empty, Copies
    <2>2. CASE c = saved
      BY <2>2 DEF SavedCovers
    <2> QED
      BY <1>2, <2>1, <2>2
  <1>4. torn \subseteq torn' /\ torn' \subseteq Tokens
    BY <1>2
  <1>5. \A h \in Handlers : Exposed(h) \cap keys \subseteq keys' \cup torn'
    BY <1>2
  <1>6. BlocklistTypeOK'
    BY <1>1, <1>2, <1>3, <1>4 DEF Copies
  <1>7. ReadyIsComplete' /\ SavedCovers' /\ LogoutsAreRecorded'
    BY <1>1, <1>2, <1>3 DEF ReadyIsComplete, SavedCovers, LogoutsAreRecorded, Covered
  <1>8. PublishedBeforeRecorded' /\ SeedersCover'
    <2> SUFFICES ASSUME NEW h \in Handlers
                 PROVE  /\ handler[h].pc = "record" => Covered(handler[h].tokens)'
                        /\ handler[h].pc = "fill" => Covered(table \ handler[h].listed)'
                        /\ handler[h].pc = "ready" => Covered(table)'
      BY <1>1 DEF PublishedBeforeRecorded, SeedersCover
    <2>1. CASE handler[h].pc = "record"
      BY <1>1, <1>4, <1>5, <2>1 DEF PublishedBeforeRecorded, Covered, Exposed
    <2>2. CASE handler[h].pc = "fill"
      BY <1>1, <1>4, <1>5, <2>2 DEF SeedersCover, Covered, Exposed
    <2>3. CASE handler[h].pc = "ready"
      BY <1>1, <1>4, <1>5, <2>3 DEF SeedersCover, Covered, Exposed
    <2> QED
      BY <2>1, <2>2, <2>3
  <1>9. LateChecksKnow'
    BY <1>1, <1>4 DEF LateChecksKnow, InCheck
  <1> QED
    BY <1>6, <1>7, <1>8, <1>9

\* Every step keeps the invariant.
LEMMA BlocklistNextPreserves ==
  ASSUME BlocklistInv, [BlocklistNext]_blocklistVars
  PROVE  BlocklistInv'
  <1>1. ASSUME NEW h \in Handlers, LogoutNext(h) \/ CheckNext(h) \/ Ends(h)
        PROVE  BlocklistInv'
    BY <1>1, EdgesPreserve, PublishingPreserves, RecordsPreserves, AskingPreserves,
       SeedingPreserves, FillingPreserves, SetsReadyPreserves
       DEF LogoutNext, CheckNext
  <1>2. CASE UNCHANGED blocklistVars
    BY <1>2 DEF blocklistVars, BlocklistInv, BlocklistTypeOK, ReadyIsComplete,
       PublishedBeforeRecorded, SeedersCover, SavedCovers, LogoutsAreRecorded,
       LateChecksKnow, Covered, InCheck
  <1> QED
    BY <1>1, <1>2, HousekeepingPreserves, ExpiresPreserves, RedisLosesPreserves
       DEF BlocklistNext

-----------------------------------------------------------------------------

\* The inductive invariant holds in every reachable state (auth/blocklist.py and
\* the order of its calls in auth/dependencies.py and auth_service.py).
THEOREM BlocklistInvariance == BlocklistSpec => []BlocklistInv
  <1>1. BlocklistInv /\ [BlocklistNext]_blocklistVars => BlocklistInv'
    BY BlocklistNextPreserves
  <1> QED
    BY <1>1, BlocklistInitEstablishes, PTL DEF BlocklistSpec

\* The state keeps its types; in particular no key outlives its token (the px of
\* TokenBlocklist.revoke).
THEOREM BlocklistTypeCorrect == BlocklistSpec => []BlocklistTypeOK
  <1>1. BlocklistInv => BlocklistTypeOK
    BY DEF BlocklistInv
  <1> QED
    BY <1>1, BlocklistInvariance, PTL

\* READY never vouches for a copy that lacks a revocation of the table, however
\* many seeders and logouts interleave, unless Redis lost it at a moment when
\* nothing was left to put it back (TokenBlocklist.seed, revoke).
THEOREM ReadyVouches == BlocklistSpec => []ReadyIsComplete
  <1>1. BlocklistInv => ReadyIsComplete
    BY DEF BlocklistInv
  <1> QED
    BY <1>1, BlocklistInvariance, PTL

\* No check that begins after a logout was answered finds its tokens clean, but
\* for such a loss and for a token that expires meanwhile (is_token_revoked).
THEOREM LogoutIsFinal == BlocklistSpec => []LogoutIsSeen
  <1>1. BlocklistInv => LogoutIsSeen
    BY DEF BlocklistInv, LateChecksKnow, InCheck, LogoutIsSeen
  <1> QED
    BY <1>1, BlocklistInvariance, PTL
===============================================================================
