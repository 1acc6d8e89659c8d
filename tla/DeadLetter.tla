----------------------------- MODULE DeadLetter -----------------------------
(***************************************************************************)
(* The life of a background task once it is owed: the relay hands it to    *)
(* the queue, workers run it with retries, the after_process hook records  *)
(* a terminal failure in dead_letter_jobs, and the admin API retries,      *)
(* deletes and purges the recorded rows.  A retry stages a new outbox row  *)
(* in the transaction that claims the dead one.                            *)
(*                                                                         *)
(* The outbox appears as TaskDelivery, the specification OutboxRelay is    *)
(* shown to implement.                                                     *)
(***************************************************************************)
EXTENDS Naturals

CONSTANTS
  Events,        \* ids of outbox rows
  Roots,         \* those staged by business transactions; the others by retries
  Admins,        \* bound: requests made to the admin API, all concurrent
  MaxJobs,       \* bound: jobs the queue creates for one event
  MaxRetries,    \* settings.task_max_retries
  MaxCrashes,    \* bound: worker deaths and database failures in a behaviour
  NoRun          \* the origin of an event that retries nothing

\* No request holds the lock of a row.
Free == "free"

ASSUME DeadLetterAssumption ==
  /\ Roots \subseteq Events
  /\ MaxJobs \in Nat \ {0} /\ MaxRetries \in Nat \ {0} /\ MaxCrashes \in Nat
  /\ NoRun \notin Events \X (1 .. MaxJobs)
  /\ Free \notin Admins

\* The n-th job the queue creates for e, and the dead-letter row it may leave.
Runs == Events \X (1 .. MaxJobs)

VARIABLES
  promise, handed, \* of TaskDelivery
  run,             \* run[j]: the status of job j
  tries,           \* tries[j]: its attempts
  due,             \* the hooks still to run: a job and the status it ended with
  row,             \* row[j]: the committed dead-letter row of job j
  claim,           \* claim[j]: the request whose open UPDATE locks the row
  origin,          \* origin[e]: the row whose retry staged e
  request,         \* request[a]: what the request of a is about to do
  unrecorded,      \* history: terminal failures that left no row
  discarded,       \* history: rows an admin asked to be removed
  crashes          \* worker deaths and database failures so far

taskVars  == <<promise, handed>>
jobVars   == <<run, tries>>
rowVars   == <<row, claim, origin>>
adminVars == <<request, discarded>>
vars == <<promise, handed, run, tries, due, row, claim, origin, request,
          unrecorded, discarded, crashes>>

Outbox == INSTANCE TaskDelivery

\* What an attempt leaves the job with; "queued" if it is to be repeated.
Ends == {"queued", "complete", "failed", "aborted"}

Idle == [pc |-> "idle"]
Answers == {"queued for retry", "not found", "already retried", "deleted", "error"}
Requests ==
  {Idle} \cup [pc : {"retry", "explain", "claimed", "delete", "remove"}, of : Runs]
         \cup [pc : {"answered"}, of : Runs, answer : Answers]

TypeOK ==
  /\ Outbox!TypeOK
  /\ run \in [Runs -> {"none", "queued", "active", "stuck", "complete", "failed",
                   "aborted"}]
  /\ tries \in [Runs -> 0 .. MaxRetries]
  /\ due \in SUBSET (Runs \X Ends)
  /\ row \in [Runs -> {"none", "open", "retried", "gone"}]
  /\ claim \in [Runs -> Admins \cup {Free}]
  /\ origin \in [Events -> Runs \cup {NoRun}]
  /\ request \in [Admins -> Requests]
  /\ unrecorded \in SUBSET Runs
  /\ discarded \in SUBSET Runs
  /\ crashes \in 0 .. MaxCrashes

Init ==
  /\ Outbox!Init
  /\ run = [j \in Runs |-> "none"]
  /\ tries = [j \in Runs |-> 0]
  /\ due = {}
  /\ row = [j \in Runs |-> "none"]
  /\ claim = [j \in Runs |-> Free]
  /\ origin = [e \in Events |-> NoRun]
  /\ request = [a \in Admins |-> Idle]
  /\ unrecorded = {}
  /\ discarded = {}
  /\ crashes = 0

Fault == crashes < MaxCrashes /\ crashes' = crashes + 1

-----------------------------------------------------------------------------
(* The outbox and the queue *)

\* A business transaction (a signup, a reset request) commits its event.
StageTask(e) ==
  /\ e \in Roots
  /\ Outbox!Promise(e)
  /\ UNCHANGED <<jobVars, due, rowVars, adminVars, unrecorded, crashes>>

Incomplete(j) == run[j] \in {"queued", "active", "stuck"}

\* The relay enqueues e.  The queue creates a job unless the one of that key
\* is still incomplete; a job that ended may be followed by another one.
HandOver(e) ==
  /\ Outbox!HandOver(e)
  /\ \/ /\ \E n \in 1 .. MaxJobs : Incomplete(<<e, n>>)
        /\ UNCHANGED run
     \/ /\ \A n \in 1 .. MaxJobs : ~Incomplete(<<e, n>>)
        /\ \E n \in 1 .. MaxJobs :
             /\ \A m \in 1 .. MaxJobs : run[<<e, m>>] = "none" <=> m >= n
             /\ run' = [run EXCEPT ![<<e, n>>] = "queued"]
  /\ UNCHANGED <<tries, due, rowVars, adminVars, unrecorded, crashes>>

\* The relay commits its batch: e is dispatched or parked.
Settle(e) ==
  /\ Outbox!Resolve({e}, {}) \/ Outbox!Resolve({}, {e})
  /\ UNCHANGED <<jobVars, due, rowVars, adminVars, unrecorded, crashes>>

-----------------------------------------------------------------------------
(* The workers *)

Start(j) ==
  /\ run[j] = "queued"
  /\ run' = [run EXCEPT ![j] = "active"]
  /\ tries' = [tries EXCEPT ![j] = @ + 1]
  /\ UNCHANGED <<taskVars, due, rowVars, adminVars, unrecorded, crashes>>

\* Mutant: the retry limit is compared the wrong way at its boundary.
RetryableOneTooMany(j) == tries[j] <= MaxRetries

Retryable(j) == tries[j] < MaxRetries

\* The task function returns or raises; Worker.process finishes or retries
\* the job, and its finally clause calls after_process in either case.
Complete(j) ==
  /\ run[j] = "active"
  /\ run' = [run EXCEPT ![j] = "complete"]
  /\ due' = due \cup {<<j, "complete">>}
  /\ UNCHANGED <<taskVars, tries, rowVars, adminVars, unrecorded, crashes>>

Fail(j) ==
  /\ run[j] = "active"
  /\ LET next == IF Retryable(j) THEN "queued" ELSE "failed"
     IN  /\ run' = [run EXCEPT ![j] = next]
         /\ due' = due \cup {<<j, next>>}
  /\ UNCHANGED <<taskVars, tries, rowVars, adminVars, unrecorded, crashes>>

\* A job that is aborted ends at once, whatever attempts it has left.
Abort(j) ==
  /\ run[j] = "active"
  /\ run' = [run EXCEPT ![j] = "aborted"]
  /\ due' = due \cup {<<j, "aborted">>}
  /\ UNCHANGED <<taskVars, tries, rowVars, adminVars, unrecorded, crashes>>

\* Mutants: the hook without its status test, and one that forgot FAILED.
TerminalOrNot(status) == TRUE
TerminalIfAborted(status) == status = "aborted"

\* _DEAD_LETTER_STATUSES, asked of the job object the hook was given.
Terminal(status) == status \in {"failed", "aborted"}

\* record_dead_letter has nothing to do unless the job failed or was aborted.
HookSkips(j, status) ==
  /\ <<j, status>> \in due
  /\ ~Terminal(status)
  /\ due' = due \ {<<j, status>>}
  /\ UNCHANGED <<taskVars, jobVars, rowVars, adminVars, unrecorded, crashes>>

\* record commits the row.
HookRecords(j, status) ==
  /\ <<j, status>> \in due
  /\ Terminal(status)
  /\ due' = due \ {<<j, status>>}
  /\ row' = [row EXCEPT ![j] = "open"]
  /\ UNCHANGED <<taskVars, jobVars, claim, origin, adminVars, unrecorded, crashes>>

\* The hook's transaction fails and the exception is swallowed, or the worker
\* dies between finishing the job and the hook.
HookFails(j, status) ==
  /\ <<j, status>> \in due
  /\ Terminal(status)
  /\ Fault
  /\ due' = due \ {<<j, status>>}
  /\ unrecorded' = unrecorded \cup {j}
  /\ UNCHANGED <<taskVars, jobVars, rowVars, adminVars>>

\* The worker is killed in the middle of the job.
WorkerDies(j) ==
  /\ run[j] = "active"
  /\ Fault
  /\ run' = [run EXCEPT ![j] = "stuck"]
  /\ UNCHANGED <<taskVars, tries, due, rowVars, adminVars, unrecorded>>

\* SAQ's sweep finds the stuck job: requeued if retryable, aborted otherwise,
\* in both cases without a hook.
Sweep(j) ==
  /\ run[j] = "stuck"
  /\ IF Retryable(j)
     THEN run' = [run EXCEPT ![j] = "queued"] /\ UNCHANGED unrecorded
     ELSE run' = [run EXCEPT ![j] = "aborted"] /\ unrecorded' = unrecorded \cup {j}
  /\ UNCHANGED <<taskVars, tries, due, rowVars, adminVars, crashes>>

-----------------------------------------------------------------------------
(* The admin API.  A retry holds the row lock of its UPDATE until it commits; *)
(* other writers of that row wait for it, and readers see committed rows.     *)

Ask(a, pc, j) == request' = [request EXCEPT ![a] = [pc |-> pc, of |-> j]]
Answer(a, j, what) ==
  request' = [request EXCEPT ![a] = [pc |-> "answered", of |-> j, answer |-> what]]
At(a, pc, j) == request[a].pc = pc /\ request[a].of = j
Exists(j) == row[j] \in {"open", "retried"}

\* A POST retry or a DELETE arrives for a row that was listed before.
Receive(a, j) ==
  /\ request[a] = Idle
  /\ row[j] # "none"
  /\ \E pc \in {"retry", "delete"} : Ask(a, pc, j)
  /\ UNCHANGED <<taskVars, jobVars, due, rowVars, unrecorded, discarded, crashes>>

\* Mutant: the UPDATE without its retried_at IS NULL.
ClaimableTwice(j) == Exists(j)

Claimable(j) == row[j] = "open"

\* retry, the UPDATE ... WHERE retried_at IS NULL RETURNING: it locks the row
\* it matches, after whoever holds that lock is through.
RetryClaims(a, j) ==
  /\ At(a, "retry", j)
  /\ claim[j] = Free
  /\ IF Claimable(j)
     THEN claim' = [claim EXCEPT ![j] = a] /\ Ask(a, "claimed", j)
     ELSE Ask(a, "explain", j) /\ UNCHANGED claim
  /\ UNCHANGED <<taskVars, jobVars, due, row, origin, unrecorded, discarded, crashes>>

\* stage_add and the commit: the row is retried and the new event owed.
RetryCommits(a, j) ==
  /\ At(a, "claimed", j)
  /\ \E e \in Events \ Roots :
       /\ Outbox!Promise(e)
       /\ origin' = [origin EXCEPT ![e] = j]
  /\ row' = [row EXCEPT ![j] = "retried"]
  /\ claim' = [claim EXCEPT ![j] = Free]
  /\ Answer(a, j, "queued for retry")
  /\ UNCHANGED <<jobVars, due, unrecorded, discarded, crashes>>

\* Staging or the commit fails: the claim rolls back with it.
RetryRollsBack(a, j) ==
  /\ At(a, "claimed", j)
  /\ Fault
  /\ claim' = [claim EXCEPT ![j] = Free]
  /\ Answer(a, j, "error")
  /\ UNCHANGED <<taskVars, jobVars, due, row, origin, unrecorded, discarded>>

\* Mutant: no claim to be had is reported as a conflict without a look.
ExplainBlindly(j) == "already retried"

Explanation(j) == IF Exists(j) THEN "already retried" ELSE "not found"

\* retry_job asks the primary why it got no row: 404 or 409.
RetryExplains(a, j) ==
  /\ At(a, "explain", j)
  /\ Answer(a, j, Explanation(j))
  /\ UNCHANGED <<taskVars, jobVars, due, rowVars, unrecorded, discarded, crashes>>

\* delete: the row is read first.
DeleteLooks(a, j) ==
  /\ At(a, "delete", j)
  /\ IF Exists(j) THEN Ask(a, "remove", j) ELSE Answer(a, j, "not found")
  /\ UNCHANGED <<taskVars, jobVars, due, rowVars, unrecorded, discarded, crashes>>

\* Then deleted and committed; a row that is gone by now is no error.
DeleteRemoves(a, j) ==
  /\ At(a, "remove", j)
  /\ claim[j] = Free
  /\ row' = [row EXCEPT ![j] = "gone"]
  /\ Answer(a, j, "deleted")
  /\ discarded' = discarded \cup {j}
  /\ UNCHANGED <<taskVars, jobVars, due, claim, origin, unrecorded, crashes>>

\* purge of rows before a date, unresolved ones included: which rows are that
\* old is left open.  The DELETE waits for claimed rows.
PurgeBefore ==
  /\ \E old \in SUBSET {j \in Runs : Exists(j)} :
       /\ old # {}
       /\ \A j \in old : claim[j] = Free
       /\ row' = [j \in Runs |-> IF j \in old THEN "gone" ELSE row[j]]
       /\ discarded' = discarded \cup old
  /\ UNCHANGED <<taskVars, jobVars, due, claim, origin, request, unrecorded, crashes>>

\* Mutant: the retention without its retried_at IS NOT NULL.
PurgeableEitherWay(j) == Exists(j)

Purgeable(j) == row[j] = "retried"

\* purge(only_retried=True), by an admin or by cleanup_dead_letter_task.
PurgeRetried ==
  /\ \E old \in SUBSET {j \in Runs : Purgeable(j)} :
       /\ old # {}
       /\ \A j \in old : claim[j] = Free
       /\ row' = [j \in Runs |-> IF j \in old THEN "gone" ELSE row[j]]
  /\ UNCHANGED <<taskVars, jobVars, due, claim, origin, adminVars, unrecorded, crashes>>

-----------------------------------------------------------------------------
RelayNext(e) == HandOver(e) \/ Settle(e)

WorkerNext(j) ==
  \/ Start(j) \/ Complete(j) \/ Fail(j) \/ Abort(j) \/ Sweep(j)
  \/ \E s \in Ends :
       HookSkips(j, s) \/ HookRecords(j, s) \/ HookFails(j, s)

AdminNext(a) ==
  \E j \in Runs :
       \/ Receive(a, j) \/ RetryClaims(a, j) \/ RetryCommits(a, j)
       \/ RetryRollsBack(a, j) \/ RetryExplains(a, j)
       \/ DeleteLooks(a, j) \/ DeleteRemoves(a, j)

Next ==
  \/ \E e \in Events : StageTask(e) \/ RelayNext(e)
  \/ \E j \in Runs : WorkerNext(j) \/ WorkerDies(j)
  \/ \E a \in Admins : AdminNext(a)
  \/ PurgeBefore \/ PurgeRetried

Spec == Init /\ [][Next]_vars

\* The relay settles what is owed (OutboxRelay shows it does), workers take
\* queued jobs, a task function ends, its hook runs, and upkeep sweeps.
Fairness ==
  /\ \A e \in Events : WF_vars(HandOver(e)) /\ WF_vars(Settle(e))
  /\ \A j \in Runs : WF_vars(WorkerNext(j))

FairSpec == Spec /\ Fairness

-----------------------------------------------------------------------------
(* Properties *)

RetriesOf(j) == {e \in Events : origin[e] = j}

\* The UPDATE's WHERE clause, its row lock and the shared transaction: however
\* admins race, time out and roll back, a row is marked retried together with
\* exactly one outbox event, and a row that nobody retried, or that somebody is
\* just about to retry, has none.
OneEventPerRetry ==
  \A j \in Runs :
    /\ \A d, e \in RetriesOf(j) : d = e
    /\ row[j] = "retried" => RetriesOf(j) # {}
    /\ row[j] \in {"none", "open"} \/ claim[j] # Free => RetriesOf(j) = {}

\* What the API answers is true: 200 means the new event is committed, 409
\* that some request did retry the row, 404 that the row is gone.
AnswersAreTrue ==
  \A a \in Admins : request[a].pc = "answered" =>
    LET j == request[a].of IN
    CASE request[a].answer \in {"queued for retry", "already retried"} ->
           \E e \in RetriesOf(j) : promise[e] # "none"
      [] request[a].answer \in {"not found", "deleted"} -> row[j] = "gone"
      [] OTHER -> TRUE

\* A dead-letter row stands for a job that ended, never for an attempt that
\* was to be repeated, and a job that succeeded leaves none (hook.py:3-6).
OnlyDeadJobsAreRecorded ==
  \A j \in Runs : row[j] # "none" => run[j] \in {"failed", "aborted"}

\* Every terminal failure still has its hook to run, has a row (or had one
\* that was retried or that an admin removed), or met a fault on the way: no
\* clean-up by itself makes an unresolved failure disappear.
NoFailureVanishes ==
  \A j \in Runs : run[j] \in {"failed", "aborted"} =>
    \/ <<j, run[j]>> \in due
    \/ row[j] \in {"open", "retried"}
    \/ row[j] = "gone" /\ (RetriesOf(j) # {} \/ j \in discarded)
    \/ j \in unrecorded

\* A committed task eventually completes, is parked by the relay, ends as a
\* dead-letter row, or has its failure lost to a fault.
EveryTaskEnds ==
  \A e \in Events : promise[e] = "owed" ~>
    \/ promise[e] = "abandoned"
    \/ \E n \in 1 .. MaxJobs :
         run[<<e, n>>] = "complete" \/ row[<<e, n>>] # "none" \/ <<e, n>> \in unrecorded
=============================================================================
