------------------------------- MODULE TagCache -------------------------------
(***************************************************************************)
(* The cache-aside decorator and invalidate_tags.  A call that misses      *)
(* computes its result and stores it together with its key in the set of   *)
(* each of its tags; invalidate_tags reads those sets one by one and then  *)
(* deletes what it found and the sets.  Redis executes each command or     *)
(* MULTI at once; between two of them anything may happen.                 *)
(***************************************************************************)
EXTENDS Integers, FiniteSets

CONSTANTS
  Keys,              \* cache keys: a function and its arguments
  Tags,
  Callers,           \* calls of cached functions in progress at one time
  Invalidators,      \* calls of invalidate_tags in progress at one time
  TagsOf,            \* TagsOf[k]: the tags of k's function
  Life,              \* Life[k]: its ttl
  MaxInvalidations   \* bound: invalidations in a behaviour

ASSUME CacheAssumption ==
  /\ TagsOf \in [Keys -> SUBSET Tags]
  /\ Life \in [Keys -> Nat \ {0}]
  /\ MaxInvalidations \in Nat

\* Functions that share a tag have the same ttl, which nothing enforces.
SameLife ==
  \A k, l \in Keys : TagsOf[k] \cap TagsOf[l] # {} => Life[k] = Life[l]

VARIABLES
  entry,             \* entry[k]: the result stored under k
  tagSet,            \* tagSet[t]: the keys stored under tag t
  caller,            \* caller[c]: where the call is and what it carries
  invalidator,       \* invalidator[i]: likewise
  begun,             \* invalidations so far
  settled            \* history: settled[t] is the last invalidation of t that ended

vars == <<entry, tagSet, caller, invalidator, begun, settled>>

\* left is what is left of a ttl, 0 if Redis has no such key; value is how many
\* invalidations had begun when the result was computed; raced is history:
\* whether the call that stored it overlapped an invalidation of one of its tags.
Entries == [left : Nat, value : Nat, raced : BOOLEAN]
NoEntry == [left |-> 0, value |-> 0, raced |-> FALSE]
TagSets == [left : Nat, members : SUBSET Keys]
NoSet == [left |-> 0, members |-> {}]

Idle == [pc |-> "idle"]
Calling == [pc : {"load", "fill"}, key : Keys, value : Nat, raced : BOOLEAN]
Invalidating == [pc : {"sweep"}, tags : SUBSET Tags, read : SUBSET Tags,
                 found : SUBSET Keys, at : Nat]

TypeOK ==
  /\ entry \in [Keys -> Entries]
  /\ \A k \in Keys : entry[k].left <= Life[k] /\ entry[k].value <= begun
  /\ tagSet \in [Tags -> TagSets]
  /\ caller \in [Callers -> {Idle} \cup Calling]
  /\ invalidator \in [Invalidators -> {Idle} \cup Invalidating]
  /\ begun \in 0 .. MaxInvalidations
  /\ settled \in [Tags -> 0 .. begun]

Init ==
  /\ entry = [k \in Keys |-> NoEntry]
  /\ tagSet = [t \in Tags |-> NoSet]
  /\ caller = [c \in Callers |-> Idle]
  /\ invalidator = [i \in Invalidators |-> Idle]
  /\ begun = 0
  /\ settled = [t \in Tags |-> 0]

Sweeping(i) == invalidator[i].pc = "sweep"

-----------------------------------------------------------------------------
(* A call of a cached function *)

\* redis.get finds nothing.  A hit changes nothing.
Misses(c, k) ==
  /\ caller[c].pc = "idle"
  /\ entry[k].left = 0
  /\ caller' = [caller EXCEPT ![c] =
       [pc |-> "load", key |-> k, value |-> 0,
        raced |-> \E i \in Invalidators :
                    Sweeping(i) /\ invalidator[i].read \cap TagsOf[k] # {}]]
  /\ UNCHANGED <<entry, tagSet, invalidator, begun, settled>>

\* The function reads its data.
Computes(c) ==
  /\ caller[c].pc = "load"
  /\ caller' = [caller EXCEPT ![c].pc = "fill", ![c].value = begun]
  /\ UNCHANGED <<entry, tagSet, invalidator, begun, settled>>

\* Mutant: a second SET adds to the ttl.
EntryLifeAdded(k) == entry[k].left + Life[k]

\* SET with EX starts the ttl of an entry again.
EntryLife(k) == Life[k]

\* Mutant: EXPIRE NX, the first entry decides.
TagLifeOfTheFirst(t, k) == IF tagSet[t].left = 0 THEN Life[k] ELSE tagSet[t].left

\* EXPIRE gives the set the ttl of the entry, whatever it had left.
TagLife(t, k) == Life[k]

\* SET, and SADD and EXPIRE for each tag, in one MULTI.
Fills(c) ==
  /\ caller[c].pc = "fill"
  /\ LET k == caller[c].key IN
     /\ entry' = [entry EXCEPT ![k] =
          [left |-> EntryLife(k), value |-> caller[c].value, raced |-> caller[c].raced]]
     /\ tagSet' = [t \in Tags |->
          IF t \in TagsOf[k]
          THEN [left |-> TagLife(t, k), members |-> tagSet[t].members \cup {k}]
          ELSE tagSet[t]]
  /\ caller' = [caller EXCEPT ![c] = Idle]
  /\ UNCHANGED <<invalidator, begun, settled>>

\* The function or a Redis command raises, or the process dies.
Abandons(c) ==
  /\ caller[c].pc # "idle"
  /\ caller' = [caller EXCEPT ![c] = Idle]
  /\ UNCHANGED <<entry, tagSet, invalidator, begun, settled>>

-----------------------------------------------------------------------------
(* invalidate_tags *)

\* Without tags it returns at once.
Begins(i, ts) ==
  /\ invalidator[i].pc = "idle"
  /\ ts # {}
  /\ begun < MaxInvalidations
  /\ begun' = begun + 1
  /\ invalidator' = [invalidator EXCEPT ![i] =
       [pc |-> "sweep", tags |-> ts, read |-> {}, found |-> {}, at |-> begun + 1]]
  /\ UNCHANGED <<entry, tagSet, caller, settled>>

\* Mutant: each answer replaces the one before.
FoundLast(i, t) == tagSet[t].members

\* keys_to_delete.update(members)
FoundWith(i, t) == invalidator[i].found \cup tagSet[t].members

\* One redis.smembers per tag.  Calls of the tag's functions overlap from here.
ReadsTag(i, t) ==
  /\ Sweeping(i)
  /\ t \in invalidator[i].tags \ invalidator[i].read
  /\ invalidator' = [invalidator EXCEPT ![i].read = @ \cup {t},
                                        ![i].found = FoundWith(i, t)]
  /\ caller' = [c \in Callers |->
       IF caller[c].pc # "idle" /\ t \in TagsOf[caller[c].key]
       THEN [caller[c] EXCEPT !.raced = TRUE] ELSE caller[c]]
  /\ UNCHANGED <<entry, tagSet, begun, settled>>

\* The entries and the tag sets go in one MULTI.
Deletes(i) ==
  /\ Sweeping(i)
  /\ LET inv == invalidator[i] IN
     /\ inv.read = inv.tags
     /\ entry' = [k \in Keys |-> IF k \in inv.found THEN NoEntry ELSE entry[k]]
     /\ tagSet' = [t \in Tags |-> IF t \in inv.tags THEN NoSet ELSE tagSet[t]]
     /\ settled' = [t \in Tags |-> IF t \in inv.tags /\ settled[t] < inv.at
                                   THEN inv.at ELSE settled[t]]
  /\ invalidator' = [invalidator EXCEPT ![i] = Idle]
  /\ UNCHANGED <<caller, begun>>

\* A Redis command raises, or the process dies.
GivesUp(i) ==
  /\ Sweeping(i)
  /\ invalidator' = [invalidator EXCEPT ![i] = Idle]
  /\ UNCHANGED <<entry, tagSet, caller, begun, settled>>

-----------------------------------------------------------------------------
\* Redis expires entries and tag sets, each by its own ttl.
Tick ==
  /\ (\E k \in Keys : entry[k].left > 0) \/ (\E t \in Tags : tagSet[t].left > 0)
  /\ entry' = [k \in Keys |-> IF entry[k].left > 1
                              THEN [entry[k] EXCEPT !.left = @ - 1] ELSE NoEntry]
  /\ tagSet' = [t \in Tags |-> IF tagSet[t].left > 1
                               THEN [tagSet[t] EXCEPT !.left = @ - 1] ELSE NoSet]
  /\ UNCHANGED <<caller, invalidator, begun, settled>>

CallerNext(c) ==
  (\E k \in Keys : Misses(c, k)) \/ Computes(c) \/ Fills(c) \/ Abandons(c)

InvalidatorNext(i) ==
  \/ \E ts \in SUBSET Tags : Begins(i, ts)
  \/ \E t \in Tags : ReadsTag(i, t)
  \/ Deletes(i)
  \/ GivesUp(i)

Next ==
  \/ \E c \in Callers : CallerNext(c)
  \/ \E i \in Invalidators : InvalidatorNext(i)
  \/ Tick

Spec == Init /\ [][Next]_vars

-----------------------------------------------------------------------------
(* Properties *)

\* An entry is listed in the set of each of its tags for as long as it lives
\* (set, sadd and expire go together), unless an invalidation that ran while it
\* was computed has removed the set without having seen it.
EntriesAreListed ==
  \A k \in Keys : entry[k].left > 0 /\ ~entry[k].raced =>
    \A t \in TagsOf[k] : k \in tagSet[t].members /\ entry[k].left <= tagSet[t].left

\* README.md:195: "invalidate_tags(...) clears everything under a tag at once".
\* No result that was computed before an invalidation began is served once the
\* invalidation has ended, except what a call that overlapped it stored.
InvalidatedStaysGone ==
  \A k \in Keys : entry[k].left > 0 /\ ~entry[k].raced =>
    \A t \in TagsOf[k] : entry[k].value >= settled[t]
=============================================================================
