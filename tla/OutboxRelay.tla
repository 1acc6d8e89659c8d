---------------------------- MODULE OutboxRelay -----------------------------
(***************************************************************************)
(* The transactional outbox of core/outbox: rows staged by a business      *)
(* transaction, the relay loops of the worker processes that forward them  *)
(* to the keyed job queue, the retention cleanup, and the failures between *)
(* the two stores.  PostgreSQL and Redis commit separately: a batch whose  *)
(* transaction rolls back after some of its tasks were enqueued leaves     *)
(* those tasks in the queue and its rows pending.                          *)
(***************************************************************************)
EXTENDS Naturals, FiniteSets

CONSTANTS
  Events,        \* ids of outbox rows (uuid4: never reused)
  Relays,        \* one relay_loop() per worker process
  BatchSize,     \* settings.outbox_batch_size
  MaxAttempts,   \* settings.outbox_max_attempts
  MaxFaults,     \* bound: rollbacks and lost enqueue answers in a behaviour
  MaxLosses      \* bound: jobs lost by a crash of Redis in a behaviour

ASSUME OutboxAssumption ==
  /\ BatchSize \in Nat \ {0}
  /\ MaxAttempts \in Nat \ {0}
  /\ MaxFaults \in Nat
  /\ MaxLosses \in Nat

VARIABLES
  status,        \* status[e]: the committed state of the row of e
  created,       \* created[e]: its created_at, as a number of ticks
  attempts,      \* attempts[e]: its committed attempts column
  clock,         \* the source of created_at
  held,          \* held[r]: the rows FOR UPDATE locked by r's open batch
  outcome,       \* outcome[r][e]: what r's open batch did with e so far
  job,           \* job[e]: the job of key "outbox:<e>" in the queue
  accepted,      \* history: how many jobs the queue created for e
  redone,        \* history: how often a batch forgot that it had enqueued e
  ran,           \* history: the events whose task was run by a worker
  lost,          \* history: the events whose job a crash of Redis lost
  faults         \* faults so far, at most MaxFaults

rowVars   == <<status, created, attempts, clock>>
batchVars == <<held, outcome>>
queueVars == <<job, accepted, ran, lost>>
vars == <<status, created, attempts, clock, held, outcome, job, accepted,
          redone, ran, lost, faults>>

\* "absent" before the INSERT, "staged" while its transaction is open, "void"
\* if that rolled back; "pending" is dispatched_at and failed_at both null,
\* "dispatched" and "parked" are the one or the other set, "deleted" is purged.
Status  == {"absent", "staged", "void", "pending", "dispatched", "parked",
            "deleted"}
Outcome == {"none", "sent", "failed"}
JobStatus == {"none", "incomplete", "done"}

TypeOK ==
  /\ status \in [Events -> Status]
  /\ created \in [Events -> Nat]
  /\ attempts \in [Events -> 0 .. MaxAttempts]
  /\ clock \in Nat
  /\ held \in [Relays -> SUBSET Events]
  /\ outcome \in [Relays -> [Events -> Outcome]]
  /\ job \in [Events -> JobStatus]
  /\ accepted \in [Events -> Nat]
  /\ redone \in [Events -> Nat]
  /\ ran \in SUBSET Events
  /\ lost \in SUBSET Events
  /\ faults \in 0 .. MaxFaults

NoOutcome == [e \in Events |-> "none"]

Init ==
  /\ status = [e \in Events |-> "absent"]
  /\ created = [e \in Events |-> 0]
  /\ attempts = [e \in Events |-> 0]
  /\ clock = 0
  /\ held = [r \in Relays |-> {}]
  /\ outcome = [r \in Relays |-> NoOutcome]
  /\ job = [e \in Events |-> "none"]
  /\ accepted = [e \in Events |-> 0]
  /\ redone = [e \in Events |-> 0]
  /\ ran = {}
  /\ lost = {}
  /\ faults = 0

-----------------------------------------------------------------------------
(* The business transactions *)

\* OutboxRepository.stage_add: the row is added and flushed, uncommitted.
\* created_at is taken here, so commits may come in another order.
StageAdd(e) ==
  /\ status[e] = "absent"
  /\ status' = [status EXCEPT ![e] = "staged"]
  /\ created' = [created EXCEPT ![e] = clock]
  /\ clock' = clock + 1
  /\ UNCHANGED <<attempts, batchVars, queueVars, redone, faults>>

\* transaction(): the business write and its row commit, or roll back.
FinishTransaction(e) ==
  /\ status[e] = "staged"
  /\ \E end \in {"pending", "void"} : status' = [status EXCEPT ![e] = end]
  /\ UNCHANGED <<created, attempts, clock, batchVars, queueVars, redone, faults>>

-----------------------------------------------------------------------------
(* One iteration of a relay *)

\* Mutants: without SKIP LOCKED, and without the failed_at IS NULL conjunct.
FreeOrLocked == {e \in Events : status[e] = "pending"}
FreeOrParked == {e \in Events : /\ status[e] \in {"pending", "parked"}
                                /\ \A r \in Relays : e \notin held[r]}

\* The rows the SELECT ... FOR UPDATE SKIP LOCKED of a relay can see and take.
Free == {e \in Events : status[e] = "pending" /\ \A r \in Relays : e \notin held[r]}

\* b is what ORDER BY created_at LIMIT BatchSize makes of the rows of s.
OldestOf(b, s) ==
  /\ b \subseteq s
  /\ Cardinality(b) = IF Cardinality(s) < BatchSize THEN Cardinality(s) ELSE BatchSize
  /\ \A e \in b, f \in s \ b : created[e] <= created[f]

\* The SELECT ... FOR UPDATE SKIP LOCKED that opens a batch.  A poll that
\* finds no row changes nothing.
Select(r) ==
  /\ held[r] = {}
  /\ \E b \in SUBSET Free :
       /\ b # {}
       /\ OldestOf(b, Free)
       /\ held' = [held EXCEPT ![r] = b]
  /\ UNCHANGED <<rowVars, outcome, queueVars, redone, faults>>

\* e is the row the for loop of dispatch_pending has reached.
IsNext(r, e) ==
  /\ e \in held[r]
  /\ outcome[r][e] = "none"
  /\ \A f \in held[r] : outcome[r][f] = "none" => created[e] <= created[f]

\* The queue on enqueue(key): a no-op while a job of that key is incomplete,
\* a new job otherwise, also when an earlier one is done.
Enqueue(e) ==
  IF job[e] = "incomplete"
  THEN UNCHANGED queueVars
  ELSE /\ job' = [job EXCEPT ![e] = "incomplete"]
       /\ accepted' = [accepted EXCEPT ![e] = @ + 1]
       /\ UNCHANGED <<ran, lost>>

\* enqueue_task returns: the row is marked dispatched in the open transaction.
Send(r, e) ==
  /\ IsNext(r, e)
  /\ Enqueue(e)
  /\ outcome' = [outcome EXCEPT ![r][e] = "sent"]
  /\ UNCHANGED <<rowVars, held, redone, faults>>

\* enqueue_task raises and Redis did nothing.
SendFails(r, e) ==
  /\ IsNext(r, e)
  /\ outcome' = [outcome EXCEPT ![r][e] = "failed"]
  /\ UNCHANGED <<rowVars, held, queueVars, redone, faults>>

\* enqueue_task raises after Redis executed it: the answer was lost.
SendAnswerLost(r, e) ==
  /\ IsNext(r, e)
  /\ faults < MaxFaults
  /\ Enqueue(e)
  /\ outcome' = [outcome EXCEPT ![r][e] = "failed"]
  /\ redone' = [redone EXCEPT ![e] = @ + 1]
  /\ faults' = faults + 1
  /\ UNCHANGED <<rowVars, held>>

\* Mutants: a lost increment, an off-by-one in the limit, and a row marked
\* dispatched although its enqueue raised.
AttemptsKept(r, e) == attempts[e]
StatusAfterOneTooMany(r, e) ==
  IF outcome[r][e] = "sent" THEN "dispatched"
  ELSE IF attempts[e] >= MaxAttempts THEN "parked"
  ELSE status[e]
StatusAfterMarkedAnyway(r, e) == "dispatched"

\* What the row of e becomes when the batch of r commits.
AttemptsAfter(r, e) ==
  attempts[e] + IF outcome[r][e] = "failed" THEN 1 ELSE 0

StatusAfter(r, e) ==
  IF outcome[r][e] = "sent" THEN "dispatched"
  ELSE IF AttemptsAfter(r, e) >= MaxAttempts THEN "parked"
  ELSE status[e]

\* The single db.commit() at the end of dispatch_pending.
Commit(r) ==
  /\ held[r] # {}
  /\ \A e \in held[r] : outcome[r][e] # "none"
  /\ status' = [e \in Events |-> IF e \in held[r] THEN StatusAfter(r, e) ELSE status[e]]
  /\ attempts' = [e \in Events |-> IF e \in held[r] THEN AttemptsAfter(r, e) ELSE attempts[e]]
  /\ held' = [held EXCEPT ![r] = {}]
  /\ outcome' = [outcome EXCEPT ![r] = NoOutcome]
  /\ UNCHANGED <<created, clock, queueVars, redone, faults>>

\* The batch rolls back: the worker crashed, shutdown cancelled the relay, or
\* PostgreSQL failed.  The locks and the column updates are gone, the jobs
\* stay.  relay_loop (or the restarted process) polls again.
RollBack(r) ==
  /\ held[r] # {}
  /\ faults < MaxFaults
  /\ redone' = [e \in Events |->
                  redone[e] + IF outcome[r][e] = "sent" THEN 1 ELSE 0]
  /\ held' = [held EXCEPT ![r] = {}]
  /\ outcome' = [outcome EXCEPT ![r] = NoOutcome]
  /\ faults' = faults + 1
  /\ UNCHANGED <<rowVars, queueVars>>

-----------------------------------------------------------------------------
(* The retention cleanup, the workers and Redis *)

\* Mutant: the DELETE without its dispatched_at IS NOT NULL.
CleanupOldRows ==
  /\ \E old \in SUBSET {e \in Events : status[e] \in {"dispatched", "pending"}} :
       /\ old # {}
       /\ status' = [e \in Events |-> IF e \in old THEN "deleted" ELSE status[e]]
  /\ UNCHANGED <<created, attempts, clock, batchVars, queueVars, redone, faults>>

\* cleanup_dispatched: one DELETE of dispatched rows past the retention; which
\* of them are past it is left open.
CleanupDispatched ==
  /\ \E old \in SUBSET {e \in Events : status[e] = "dispatched"} :
       /\ old # {}
       /\ status' = [e \in Events |-> IF e \in old THEN "deleted" ELSE status[e]]
  /\ UNCHANGED <<created, attempts, clock, batchVars, queueVars, redone, faults>>

\* A worker runs the job to its end (its retries are DeadLetter's subject).
RunJob(e) ==
  /\ job[e] = "incomplete"
  /\ job' = [job EXCEPT ![e] = "done"]
  /\ ran' = ran \cup {e}
  /\ UNCHANGED <<rowVars, batchVars, accepted, lost, redone, faults>>

\* Redis restarts without its last second of writes (appendfsync everysec).
LoseJob(e) ==
  /\ job[e] = "incomplete"
  /\ Cardinality(lost) < MaxLosses
  /\ job' = [job EXCEPT ![e] = "none"]
  /\ lost' = lost \cup {e}
  /\ UNCHANGED <<rowVars, batchVars, accepted, ran, redone, faults>>

RelayStep(r) ==
  \/ Select(r)
  \/ \E e \in Events : Send(r, e) \/ SendFails(r, e) \/ SendAnswerLost(r, e)
  \/ Commit(r)

Next ==
  \/ \E e \in Events : StageAdd(e) \/ FinishTransaction(e)
  \/ \E r \in Relays : RelayStep(r) \/ RollBack(r)
  \/ CleanupDispatched
  \/ \E e \in Events : RunJob(e) \/ LoseJob(e)

Spec == Init /\ [][Next]_vars

\* Every relay loop keeps polling and every batch it opens goes on; workers
\* keep taking jobs.  Producers, the cleanup and failures owe nothing.
Fairness ==
  /\ \A r \in Relays : WF_vars(RelayStep(r))
  /\ \A e \in Events : WF_vars(RunJob(e))

FairSpec == Spec /\ Fairness

-----------------------------------------------------------------------------
(* Properties *)

\* FOR UPDATE SKIP LOCKED: a row is in at most one open batch, and as long as
\* it is there nobody else settles or deletes it.
ExclusiveClaim ==
  \A r \in Relays : \A e \in held[r] :
    /\ status[e] = "pending"
    /\ \A s \in Relays \ {r} : e \notin held[s]

\* At-least-once costs no more than it must: the queue creates a second job
\* for a row only after a batch lost the memory of the first (a rollback, or
\* an enqueue whose answer was lost).  Two relays alone never duplicate.
DuplicatesNeedAFault ==
  \A e \in Events : accepted[e] <= 1 + redone[e]

\* A dispatched task is in the queue, has been run, or Redis lost it.
DispatchedIsAccountedFor ==
  \A e \in Events : status[e] \in {"dispatched", "deleted"} =>
    job[e] = "incomplete" \/ e \in ran \/ e \in lost

\* Only attempts that were committed park a row, and a parked row is final:
\* no relay and no cleanup touches it again.
ParkedIsFinal ==
  [][\A e \in Events :
       /\ status[e] = "parked" => status'[e] = "parked" /\ attempts'[e] = attempts[e]
       /\ status'[e] = "parked" => attempts'[e] >= MaxAttempts]_vars

\* Every committed row is eventually settled, also behind rows that fail over
\* and over in the same batch: parked, or dispatched and its task run, unless
\* Redis lost the job.
EventuallyRun ==
  \A e \in Events :
    status[e] = "pending" ~>
      \/ status[e] = "parked"
      \/ status[e] \in {"dispatched", "deleted"} /\ e \in ran \cup lost

-----------------------------------------------------------------------------
(* The abstract specification *)

promiseOf == [e \in Events |->
  IF status[e] = "pending" THEN "owed"
  ELSE IF status[e] \in {"dispatched", "deleted"} THEN "kept"
  ELSE IF status[e] = "parked" THEN "abandoned"
  ELSE "none"]

handedOf == {e \in Events : accepted[e] > 0}

Delivery == INSTANCE TaskDelivery WITH promise <- promiseOf, handed <- handedOf

\* The relays, however they interleave and fail, keep the promise of
\* TaskDelivery: every step maps to one of its steps or to a stutter.
KeepsThePromise == Delivery!Spec
=============================================================================
