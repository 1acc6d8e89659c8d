---------------------------- MODULE TaskDelivery ----------------------------
(***************************************************************************)
(* What the transactional outbox promises the rest of fasti-kit, with no   *)
(* relay, no queue and no failure in sight: once a business transaction    *)
(* has committed together with its outbox row, the task is owed; an owed   *)
(* task may be handed to the job queue any number of times, and it stops   *)
(* being owed only by being kept (it was handed over) or abandoned (the    *)
(* relay gave up on it).  Nothing is handed over that is not owed.         *)
(***************************************************************************)
CONSTANT Events                  \* the ids of outbox rows

VARIABLES
  promise,                       \* promise[e]: what became of the task of e
  handed                         \* the events whose task reached the queue

vars == <<promise, handed>>

TypeOK ==
  /\ promise \in [Events -> {"none", "owed", "kept", "abandoned"}]
  /\ handed \in SUBSET Events

Init ==
  /\ promise = [e \in Events |-> "none"]
  /\ handed = {}

\* A business transaction commits with the event e staged in it.
Promise(e) ==
  /\ promise[e] = "none"
  /\ promise' = [promise EXCEPT ![e] = "owed"]
  /\ UNCHANGED handed

\* The queue accepts the task of an owed event.
HandOver(e) ==
  /\ promise[e] = "owed"
  /\ handed' = handed \cup {e}
  /\ UNCHANGED promise

\* A batch settles: the kept were handed over before, the abandoned may not
\* have been.
Resolve(kept, abandoned) ==
  /\ kept \cap abandoned = {}
  /\ kept \subseteq handed
  /\ \A e \in kept \cup abandoned : promise[e] = "owed"
  /\ promise' = [e \in Events |-> IF e \in kept THEN "kept"
                                  ELSE IF e \in abandoned THEN "abandoned"
                                  ELSE promise[e]]
  /\ UNCHANGED handed

Next ==
  \/ \E e \in Events : Promise(e) \/ HandOver(e)
  \/ \E kept, abandoned \in SUBSET Events : Resolve(kept, abandoned)

Spec == Init /\ [][Next]_vars
=============================================================================
