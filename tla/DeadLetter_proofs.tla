--------------------------- MODULE DeadLetter_proofs ---------------------------
(* The safety properties of DeadLetter hold for any sets of tasks and of       *)
(* requests, and for every limit.                                              *)
EXTENDS DeadLetter, TLAPS

Terminals == {"failed", "aborted"}

\* A job that waits for a worker has attempts left.
AttemptsLeft ==
  \A j \in Runs :
    /\ run[j] = "none" => tries[j] = 0
    /\ run[j] = "queued" => tries[j] < MaxRetries

\* A hook that has a failure to record finds the job ended that way, and no row.
HooksAreDue ==
  \A j \in Runs, s \in Terminals : <<j, s>> \in due => run[j] = s /\ row[j] = "none"

\* A locked row is one that nobody has retried yet.
LockedRowsAreOpen == \A j \in Runs : claim[j] # Free => row[j] = "open"

\* What a request knows of its row stays true while it waits: there was one,
\* its own lock is on it, it had been retried or removed.
RequestsKnow ==
  \A a \in Admins : request[a] # Idle =>
    LET j == request[a].of IN
    /\ row[j] # "none"
    /\ request[a].pc = "claimed" => claim[j] = a
    /\ request[a].pc = "explain" => row[j] \in {"retried", "gone"}

\* An event that retries a row was committed with the claim of that row.
OriginsAreOwed == \A e \in Events : origin[e] # NoRun => promise[e] # "none"

\* The inductive invariant.
IInv ==
  /\ TypeOK
  /\ AttemptsLeft
  /\ HooksAreDue
  /\ LockedRowsAreOpen
  /\ RequestsKnow
  /\ OriginsAreOwed
  /\ OneEventPerRetry
  /\ AnswersAreTrue
  /\ OnlyDeadJobsAreRecorded
  /\ NoFailureVanishes

\* The parts of it that speak of rows and requests, and those that speak of jobs.
RowInv ==
  /\ LockedRowsAreOpen
  /\ RequestsKnow
  /\ OriginsAreOwed
  /\ OneEventPerRetry
  /\ AnswersAreTrue

JobInv ==
  /\ AttemptsLeft
  /\ HooksAreDue
  /\ OnlyDeadJobsAreRecorded
  /\ NoFailureVanishes

LEMMA Parts == IInv <=> TypeOK /\ JobInv /\ RowInv
  BY DEF IInv, JobInv, RowInv

-----------------------------------------------------------------------------

\* Nothing is owed, queued or asked for at first.
LEMMA InitEstablishes == Init => IInv
<1> SUFFICES ASSUME Init PROVE IInv
  OBVIOUS
<1> USE DeadLetterAssumption
<1>1. TypeOK
  BY DEF Init, TypeOK, Outbox!Init, Outbox!TypeOK, Requests
<1>2. /\ \A j \in Runs : run[j] = "none" /\ tries[j] = 0 /\ row[j] = "none" /\ claim[j] = Free
      /\ \A e \in Events : origin[e] = NoRun
      /\ \A a \in Admins : request[a] = Idle /\ request[a].pc = "idle"
      /\ due = {}
  BY DEF Init, Idle
<1>3. \A j \in Runs : RetriesOf(j) = {}
  BY <1>2 DEF RetriesOf, Runs
<1>4. JobInv
  BY <1>2 DEF JobInv, AttemptsLeft, HooksAreDue, OnlyDeadJobsAreRecorded, NoFailureVanishes
<1>5. RowInv
  BY <1>2, <1>3 DEF RowInv, LockedRowsAreOpen, RequestsKnow, OriginsAreOwed,
     OneEventPerRetry, AnswersAreTrue
<1> QED BY <1>1, <1>4, <1>5, Parts

\* What concerns rows and requests survives any step that leaves them alone,
\* as long as promises are not taken back and rows appear only where none was.
LEMMA RowsUntouched ==
  ASSUME TypeOK, RowInv, UNCHANGED <<claim, origin, request>>,
         \A e \in Events : promise[e] # "none" => promise'[e] # "none",
         \A j \in Runs : row'[j] = row[j] \/ (row[j] = "none" /\ row'[j] = "open")
  PROVE  RowInv'
<1> USE DEF RowInv
<1>1. \A j : RetriesOf(j)' = RetriesOf(j)
  BY DEF RetriesOf
<1>2. \A j \in Runs : RetriesOf(j) \in SUBSET Events
  BY DEF RetriesOf
<1>3. \A a \in Admins : request[a] # Idle => request[a].of \in Runs
  BY DEF TypeOK, Requests
<1>4. \A a \in Admins : request[a].pc = "answered" => request[a] # Idle
  BY DEF Idle
<1>5. LockedRowsAreOpen' /\ OriginsAreOwed'
  BY DEF LockedRowsAreOpen, OriginsAreOwed
<1>6. RequestsKnow'
  BY <1>3 DEF RequestsKnow
<1>7. OneEventPerRetry'
  BY <1>1 DEF OneEventPerRetry, LockedRowsAreOpen
<1>8. AnswersAreTrue'
  <2>1. SUFFICES ASSUME NEW a \in Admins, request[a].pc = "answered"
                 PROVE  LET j == request[a].of IN
                        CASE request[a].answer \in {"queued for retry", "already retried"} ->
                               \E e \in RetriesOf(j) : promise'[e] # "none"
                          [] request[a].answer \in {"not found", "deleted"} -> row'[j] = "gone"
                          [] OTHER -> TRUE
    BY <1>1 DEF AnswersAreTrue
  <2>2. request[a].of \in Runs
    BY <2>1, <1>3, <1>4
  <2>3. CASE request[a].answer \in {"queued for retry", "already retried"}
    BY <2>1, <2>2, <2>3, <1>2 DEF AnswersAreTrue
  <2>4. CASE request[a].answer \in {"not found", "deleted"}
    BY <2>1, <2>2, <2>4 DEF AnswersAreTrue
  <2> QED BY <2>1, <2>3, <2>4
<1> QED BY <1>5, <1>6, <1>7, <1>8

\* What concerns jobs survives any step that leaves jobs, hooks and rows alone.
LEMMA JobsUntouched ==
  ASSUME TypeOK, JobInv, UNCHANGED <<run, tries, due, row, origin, discarded, unrecorded>>
  PROVE  JobInv'
  BY DEF JobInv, AttemptsLeft, HooksAreDue, OnlyDeadJobsAreRecorded, NoFailureVanishes,
         RetriesOf

\* The outbox and the queue: promises move on, and a job begins without attempts.
LEMMA QueuePreserves ==
  ASSUME IInv, NEW e \in Events, StageTask(e) \/ HandOver(e) \/ Settle(e)
  PROVE  IInv'
<1> USE DEF TypeOK, taskVars, jobVars, rowVars, adminVars
<1>1. /\ UNCHANGED <<tries, due, row, claim, origin, request, discarded, unrecorded, crashes>>
      /\ Outbox!TypeOK'
      /\ \A d \in Events : promise[d] # "none" => promise'[d] # "none"
  BY Parts DEF StageTask, HandOver, Settle, Outbox!Promise, Outbox!HandOver, Outbox!Resolve,
         Outbox!TypeOK
<1>2. RowInv'
  BY <1>1, Parts, RowsUntouched
<1>3. CASE UNCHANGED run
  BY <1>1, <1>2, <1>3, Parts, JobsUntouched DEF IInv, JobInv, RowInv
<1>4. ASSUME NEW j \in Runs, run[j] = "none", run' = [run EXCEPT ![j] = "queued"]
      PROVE  IInv'
  <2>1. TypeOK'
    BY <1>1, <1>4, Parts
  <2>2. run'[j] = "queued" /\ \A i \in Runs : i # j => run'[i] = run[i]
    BY <1>4, Parts
  <2>3. AttemptsLeft'
    BY <1>1, <1>4, <2>2, Parts, DeadLetterAssumption DEF JobInv, AttemptsLeft
  <2>4. HooksAreDue' /\ OnlyDeadJobsAreRecorded'
    BY <1>1, <1>4, <2>2, Parts
       DEF JobInv, HooksAreDue, Terminals, OnlyDeadJobsAreRecorded
  <2>5. NoFailureVanishes'
    BY <1>1, <2>2, Parts DEF JobInv, NoFailureVanishes, RetriesOf
  <2> QED BY <1>2, <2>1, <2>3, <2>4, <2>5, <1>1 DEF IInv, JobInv, RowInv
<1>5. CASE HandOver(e)
  <2>1. CASE UNCHANGED run
    BY <1>3, <2>1
  <2>2. CASE run' # run
    <3>1. PICK n \in 1 .. MaxJobs :
            /\ \A m \in 1 .. MaxJobs : run[<<e, m>>] = "none" <=> m >= n
            /\ run' = [run EXCEPT ![<<e, n>>] = "queued"]
      BY <1>5, <2>2 DEF HandOver
    <3>2. <<e, n>> \in Runs /\ run[<<e, n>>] = "none"
      BY <3>1, DeadLetterAssumption DEF Runs
    <3> QED BY <1>4, <3>1, <3>2
  <2> QED BY <2>1, <2>2
<1>6. CASE StageTask(e) \/ Settle(e)
  BY <1>3, <1>6 DEF StageTask, Settle
<1> QED BY <1>5, <1>6

\* The workers and their hooks: an attempt is repeated while there are any left,
\* and its failure is recorded, due, or lost to a fault.
LEMMA WorkerPreserves ==
  ASSUME IInv, NEW j \in Runs, WorkerNext(j) \/ WorkerDies(j)
  PROVE  IInv'
<1> USE DeadLetterAssumption DEF TypeOK, taskVars, jobVars, rowVars, adminVars
<1>1. /\ UNCHANGED <<promise, handed, claim, origin, request, discarded>>
      /\ crashes' = crashes \/ Fault
  BY DEF WorkerNext, Start, Complete, Fail, Abort, Sweep, HookSkips, HookRecords,
         HookFails, WorkerDies
<1>0. crashes' \in 0 .. MaxCrashes
  BY <1>1, Parts DEF Fault
<1>2. \A i \in Runs : i # j => run'[i] = run[i] /\ row'[i] = row[i] /\ tries'[i] = tries[i]
  BY Parts DEF WorkerNext, Start, Complete, Fail, Abort, Sweep, HookSkips, HookRecords,
         HookFails, WorkerDies
<1>3. \A i \in Runs : RetriesOf(i)' = RetriesOf(i)
  BY <1>1 DEF RetriesOf
<1>4. Outbox!TypeOK'
  BY <1>1, Parts DEF Outbox!TypeOK
<1>5. CASE Start(j)
  <2>1. /\ UNCHANGED <<due, row, unrecorded>>
        /\ run[j] = "queued" /\ run'[j] = "active" /\ run' \in [Runs -> {"none", "queued",
             "active", "stuck", "complete", "failed", "aborted"}]
        /\ tries' = [tries EXCEPT ![j] = @ + 1]
    BY <1>5, Parts DEF Start
  <2>2. tries[j] \in 0 .. MaxRetries /\ tries[j] < MaxRetries
    BY <2>1, Parts DEF JobInv, AttemptsLeft
  <2>3. TypeOK'
    BY <1>0, <1>1, <1>4, <2>1, <2>2, Parts
  <2>4. RowInv'
    BY <1>1, <2>1, Parts, RowsUntouched
  <2>5. JobInv'
    BY <1>1, <1>2, <1>3, <2>1, Parts
       DEF JobInv, AttemptsLeft, HooksAreDue, Terminals, OnlyDeadJobsAreRecorded,
           NoFailureVanishes
  <2> QED BY <2>3, <2>4, <2>5, <1>1 DEF IInv, JobInv, RowInv
<1>6. ASSUME run[j] \in {"active", "stuck"}, UNCHANGED <<row, tries>>,
             NEW s \in {"queued", "complete", "failed", "aborted", "stuck"},
             run' = [run EXCEPT ![j] = s],
             s = "queued" => tries[j] < MaxRetries,
             \/ s # "stuck" /\ due' = due \cup {<<j, s>>} /\ UNCHANGED unrecorded
             \/ s \notin Terminals /\ UNCHANGED <<due, unrecorded>>
             \/ s \in Terminals /\ UNCHANGED due /\ unrecorded' = unrecorded \cup {j}
      PROVE  IInv'
  <2>1. TypeOK'
    BY <1>0, <1>1, <1>4, <1>6, Parts DEF Ends
  <2>2. RowInv'
    BY <1>1, <1>6, Parts, RowsUntouched
  <2>3. row[j] = "none" /\ \A t \in Terminals : <<j, t>> \notin due
    BY <1>6, Parts DEF JobInv, OnlyDeadJobsAreRecorded, HooksAreDue, Terminals
  <2>4. run'[j] = s
    BY <1>6, Parts
  <2>5. AttemptsLeft'
    BY <1>2, <1>6, <2>4, Parts DEF JobInv, AttemptsLeft
  <2>6. HooksAreDue'
    <3>1. SUFFICES ASSUME NEW i \in Runs, NEW t \in Terminals, <<i, t>> \in due'
                   PROVE  run'[i] = t /\ row'[i] = "none"
      BY DEF HooksAreDue
    <3>2. CASE i = j
      <4>1. <<i, t>> = <<j, s>>
        BY <1>6, <2>3, <3>1, <3>2
      <4> QED BY <1>6, <2>3, <2>4, <3>2, <4>1
    <3>3. CASE i # j
      <4>1. <<i, t>> \in due
        BY <1>6, <3>1, <3>3
      <4> QED BY <1>2, <1>6, <3>3, <4>1, Parts DEF JobInv, HooksAreDue
    <3> QED BY <3>2, <3>3
  <2>7. OnlyDeadJobsAreRecorded'
    BY <1>2, <1>6, <2>3, <2>4, Parts DEF JobInv, OnlyDeadJobsAreRecorded
  <2>8. NoFailureVanishes'
    BY <1>1, <1>2, <1>3, <1>6, <2>4, Parts DEF JobInv, NoFailureVanishes, Terminals
  <2> QED BY <2>1, <2>2, <2>5, <2>6, <2>7, <2>8, <1>1 DEF IInv, JobInv, RowInv
<1>7. CASE Complete(j) \/ Abort(j) \/ WorkerDies(j)
  BY <1>6, <1>7 DEF Complete, Abort, WorkerDies, Terminals
<1>8. CASE Fail(j)
  BY <1>6, <1>8 DEF Fail, Retryable, Terminals
<1>9. CASE Sweep(j)
  BY <1>6, <1>9 DEF Sweep, Retryable, Terminals
<1>10. ASSUME NEW s \in Ends, HookSkips(j, s)
       PROVE  IInv'
  <2>1. /\ UNCHANGED <<run, tries, row, unrecorded>>
        /\ s \notin Terminals /\ due' = due \ {<<j, s>>}
    BY <1>10 DEF HookSkips, Terminal, Terminals
  <2>2. TypeOK'
    BY <1>0, <1>1, <1>4, <2>1, Parts
  <2>3. RowInv'
    BY <1>1, <2>1, Parts, RowsUntouched
  <2>4. \A i \in Runs, t \in Terminals : <<i, t>> \in due' <=> <<i, t>> \in due
    BY <2>1
  <2>5. JobInv'
    BY <1>1, <1>3, <2>1, <2>4, Parts
       DEF JobInv, AttemptsLeft, HooksAreDue, OnlyDeadJobsAreRecorded, NoFailureVanishes,
           Terminals
  <2> QED BY <2>2, <2>3, <2>5, <1>1 DEF IInv, JobInv, RowInv
<1>11. ASSUME NEW s \in Ends, HookRecords(j, s) \/ HookFails(j, s)
       PROVE  IInv'
  <2>1. /\ UNCHANGED <<run, tries>>
        /\ s \in Terminals /\ <<j, s>> \in due /\ due' = due \ {<<j, s>>}
        /\ \/ row' = [row EXCEPT ![j] = "open"] /\ UNCHANGED unrecorded
           \/ row' = row /\ unrecorded' = unrecorded \cup {j}
    BY <1>11 DEF HookRecords, HookFails, Terminal, Terminals
  <2>2. run[j] = s /\ row[j] = "none"
    BY <2>1, Parts DEF JobInv, HooksAreDue
  <2>3. TypeOK'
    BY <1>0, <1>1, <1>4, <2>1, Parts
  <2>4. RowInv'
    BY <1>1, <2>1, <2>2, Parts, RowsUntouched
  <2>5. \A t \in Terminals : <<j, t>> \notin due'
    BY <2>1, <2>2, Parts DEF JobInv, HooksAreDue
  <2>6. AttemptsLeft'
    BY <2>1, Parts DEF JobInv, AttemptsLeft
  <2>7. HooksAreDue'
    BY <1>2, <2>1, <2>5, Parts DEF JobInv, HooksAreDue
  <2>8. OnlyDeadJobsAreRecorded'
    BY <1>2, <2>1, <2>2, Parts DEF JobInv, OnlyDeadJobsAreRecorded, Terminals
  <2>9. NoFailureVanishes'
    <3>1. SUFFICES ASSUME NEW i \in Runs, run'[i] \in Terminals
                   PROVE  \/ <<i, run'[i]>> \in due'
                          \/ row'[i] \in {"open", "retried"}
                          \/ row'[i] = "gone" /\ (RetriesOf(i)' # {} \/ i \in discarded')
                          \/ i \in unrecorded'
      BY DEF NoFailureVanishes, Terminals
    <3>2. CASE i = j
      BY <2>1, <3>2, Parts
    <3>3. CASE i # j
      BY <1>1, <1>2, <1>3, <2>1, <3>1, <3>3, Parts DEF JobInv, NoFailureVanishes, Terminals
    <3> QED BY <3>2, <3>3
  <2> QED BY <2>3, <2>4, <2>6, <2>7, <2>8, <2>9, <1>1 DEF IInv, JobInv, RowInv
<1> QED BY <1>5, <1>7, <1>8, <1>9, <1>10, <1>11 DEF WorkerNext

-----------------------------------------------------------------------------

\* What concerns jobs survives any step that changes rows as the admin API does:
\* a row is retried with an event, or disappears once retried or discarded.
LEMMA JobsSurviveAdmins ==
  ASSUME TypeOK, JobInv, UNCHANGED <<run, tries, due, unrecorded>>,
         discarded \subseteq discarded',
         \A i \in Runs : RetriesOf(i) # {} => RetriesOf(i)' # {},
         \A i \in Runs :
           \/ row'[i] = row[i]
           \/ row[i] # "none" /\ row'[i] = "retried"
           \/ /\ row[i] # "none" /\ row'[i] = "gone"
              /\ RetriesOf(i)' # {} \/ i \in discarded'
  PROVE  JobInv'
<1> USE DEF JobInv
<1>1. AttemptsLeft'
  BY DEF AttemptsLeft
<1>2. HooksAreDue'
  BY DEF HooksAreDue
<1>3. OnlyDeadJobsAreRecorded'
  BY DEF OnlyDeadJobsAreRecorded
<1>4. NoFailureVanishes'
  BY DEF NoFailureVanishes
<1> QED BY <1>1, <1>2, <1>3, <1>4

\* A request moves on without touching a row: what it knows by then is true.
LEMMA RequestMoves ==
  ASSUME IInv, NEW a \in Admins, NEW q \in Requests,
         UNCHANGED <<promise, handed, run, tries, due, row, claim, origin, unrecorded,
                     discarded, crashes>>,
         request' = [request EXCEPT ![a] = q],
         q # Idle, row[q.of] # "none",
         q.pc = "claimed" => claim[q.of] = a,
         q.pc = "explain" => row[q.of] \in {"retried", "gone"},
         q.pc = "answered" =>
           \/ /\ q.answer \in {"queued for retry", "already retried"}
              /\ \E e \in RetriesOf(q.of) : promise[e] # "none"
           \/ q.answer \in {"not found", "deleted"} /\ row[q.of] = "gone"
           \/ q.answer = "error"
  PROVE  IInv'
<1>1. request \in [Admins -> Requests]
  BY DEF IInv, TypeOK
<1>2. request'[a] = q /\ \A b \in Admins : b # a => request'[b] = request[b]
  BY <1>1
<1>3. TypeOK'
  <2>1. Outbox!TypeOK'
    BY DEF IInv, TypeOK, Outbox!TypeOK
  <2> QED BY <1>1, <2>1 DEF IInv, TypeOK
<1>4. \A j : RetriesOf(j)' = RetriesOf(j)
  BY DEF RetriesOf
<1>5. JobInv'
  BY <1>4, Parts, JobsUntouched
<1>6. LockedRowsAreOpen' /\ OriginsAreOwed'
  BY Parts DEF RowInv, LockedRowsAreOpen, OriginsAreOwed
<1>7. OneEventPerRetry'
  BY <1>4, Parts DEF RowInv, OneEventPerRetry
<1>8. RequestsKnow'
  BY <1>2, Parts DEF RowInv, RequestsKnow
<1>9. AnswersAreTrue'
  BY <1>2, <1>4, Parts DEF RowInv, AnswersAreTrue
<1> QED BY <1>3, <1>5, <1>6, <1>7, <1>8, <1>9 DEF IInv, JobInv

\* A retry takes the lock of its row, or gives it up because of a fault.
LEMMA LockPreserves ==
  ASSUME IInv, NEW a \in Admins, NEW j \in Runs,
         RetryClaims(a, j) \/ RetryRollsBack(a, j)
  PROVE  IInv'
<1> USE DeadLetterAssumption DEF taskVars, jobVars, rowVars
<1>1. /\ request[a] \in Requests /\ request[a].of = j /\ request[a].pc \in {"retry", "claimed"}
      /\ request[a] # Idle
  BY DEF IInv, TypeOK, RetryClaims, RetryRollsBack, At, Idle
<1>2. CASE RetryClaims(a, j) /\ ~Claimable(j)
  <2> DEFINE q == [pc |-> "explain", of |-> j]
  <2>1. q \in Requests /\ q # Idle
    BY DEF Requests, Idle
  <2>2. row[j] # "none" /\ row[j] # "open"
    BY <1>1, <1>2 DEF IInv, RequestsKnow, Claimable
  <2>3. row[j] \in {"retried", "gone"}
    BY <2>2 DEF IInv, TypeOK
  <2>4. /\ UNCHANGED <<promise, handed, run, tries, due, row, claim, origin, unrecorded,
                       discarded, crashes>>
        /\ request' = [request EXCEPT ![a] = q]
    BY <1>2 DEF RetryClaims, Ask
  <2> QED BY <2>1, <2>2, <2>3, <2>4, RequestMoves
<1>3. ASSUME NEW q \in Requests, NEW c \in {a, Free},
             claim' = [claim EXCEPT ![j] = c],
             request' = [request EXCEPT ![a] = q],
             UNCHANGED <<promise, handed, run, tries, due, row, origin, unrecorded, discarded>>,
             crashes' \in 0 .. MaxCrashes,
             q.of = j, q # Idle, row[j] = "open",
             claim[j] \in {a, Free},
             \/ c = a /\ q.pc = "claimed"
             \/ c = Free /\ q.pc = "answered" /\ q.answer = "error"
      PROVE  IInv'
  <2>1. /\ request'[a] = q /\ \A b \in Admins : b # a => request'[b] = request[b]
        /\ claim'[j] = c /\ \A i \in Runs : i # j => claim'[i] = claim[i]
    BY <1>3 DEF IInv, TypeOK
  <2>2. TypeOK'
    BY <1>3 DEF IInv, TypeOK, Outbox!TypeOK
  <2>3. \A i : RetriesOf(i)' = RetriesOf(i)
    BY <1>3 DEF RetriesOf
  <2>4. JobInv'
    BY <1>3, Parts, JobsUntouched
  <2>5. LockedRowsAreOpen' /\ OriginsAreOwed'
    BY <1>3, <2>1 DEF IInv, LockedRowsAreOpen, OriginsAreOwed
  <2>6. OneEventPerRetry'
    BY <1>3, <2>1, <2>3 DEF IInv, OneEventPerRetry
  <2>7. RequestsKnow'
    <3>1. SUFFICES ASSUME NEW b \in Admins, request'[b] # Idle
                   PROVE  LET i == request'[b].of IN
                          /\ row'[i] # "none"
                          /\ request'[b].pc = "claimed" => claim'[i] = b
                          /\ request'[b].pc = "explain" => row'[i] \in {"retried", "gone"}
      BY DEF RequestsKnow
    <3>2. CASE b = a
      BY <1>3, <2>1, <3>2
    <3>3. CASE b # a
      <4>1. request[b] # Idle /\ request[b].of \in Runs
        BY <2>1, <3>1, <3>3 DEF IInv, TypeOK, Requests
      <4>2. request[b].pc = "claimed" => request[b].of # j
        BY <1>3, <3>3, <4>1 DEF IInv, RequestsKnow
      <4> QED BY <1>3, <2>1, <3>3, <4>1, <4>2 DEF IInv, RequestsKnow
    <3> QED BY <3>2, <3>3
  <2>8. AnswersAreTrue'
    BY <1>3, <2>1, <2>3 DEF IInv, AnswersAreTrue
  <2> QED BY <2>2, <2>4, <2>5, <2>6, <2>7, <2>8 DEF IInv, JobInv
<1>4. CASE RetryClaims(a, j) /\ Claimable(j)
  <2> DEFINE q == [pc |-> "claimed", of |-> j]
  <2>1. q \in Requests /\ q # Idle
    BY DEF Requests, Idle
  <2>2. crashes' \in 0 .. MaxCrashes
    BY <1>4 DEF IInv, TypeOK, RetryClaims
  <2> QED BY <1>3, <1>4, <2>1, <2>2 DEF RetryClaims, Claimable, Ask
<1>5. CASE RetryRollsBack(a, j)
  <2> DEFINE q == [pc |-> "answered", of |-> j, answer |-> "error"]
  <2>1. q \in Requests /\ q # Idle
    BY DEF Requests, Idle, Answers
  <2>2. claim[j] = a /\ row[j] = "open"
    BY <1>1, <1>5 DEF IInv, RequestsKnow, LockedRowsAreOpen, RetryRollsBack, At
  <2>3. crashes' \in 0 .. MaxCrashes
    BY <1>5 DEF IInv, TypeOK, RetryRollsBack, Fault
  <2> QED BY <1>3, <1>5, <2>1, <2>2, <2>3 DEF RetryRollsBack, Answer, adminVars
<1> QED BY <1>2, <1>4, <1>5

\* A request arrives, or is answered from what it reads of the row.
LEMMA ReaderPreserves ==
  ASSUME IInv, NEW a \in Admins, NEW j \in Runs,
         Receive(a, j) \/ RetryExplains(a, j) \/ DeleteLooks(a, j)
  PROVE  IInv'
<1> USE DEF taskVars, jobVars, rowVars
<1> DEFINE Asks(pc) == [pc |-> pc, of |-> j]
           Tells(what) == [pc |-> "answered", of |-> j, answer |-> what]
<1>1. /\ \A pc \in {"retry", "delete", "remove"} : Asks(pc) \in Requests /\ Asks(pc) # Idle
      /\ \A w \in Answers : Tells(w) \in Requests /\ Tells(w) # Idle
  BY DEF Requests, Idle
<1>2. row[j] # "none" /\ row[j] \in {"open", "retried", "gone"}
  <2>1. row[j] # "none"
    <3>1. CASE Receive(a, j)
      BY <3>1 DEF Receive
    <3>2. CASE RetryExplains(a, j) \/ DeleteLooks(a, j)
      <4>1. request[a].of = j /\ request[a].pc \in {"explain", "delete"}
        BY <3>2 DEF RetryExplains, DeleteLooks, At
      <4>2. request[a] # Idle
        BY <4>1 DEF Idle
      <4> QED BY <4>1, <4>2 DEF IInv, RequestsKnow
    <3> QED BY <3>1, <3>2
  <2> QED BY <2>1 DEF IInv, TypeOK
<1>3. UNCHANGED <<promise, handed, run, tries, due, row, claim, origin, unrecorded,
                  discarded, crashes>>
  BY DEF Receive, RetryExplains, DeleteLooks
<1>4. ASSUME NEW pc \in {"retry", "delete", "remove"}, Ask(a, pc, j)
      PROVE  IInv'
  <2>1. request' = [request EXCEPT ![a] = Asks(pc)]
    BY <1>4 DEF Ask
  <2> QED BY <1>1, <1>2, <1>3, <2>1, RequestMoves
<1>5. ASSUME row[j] = "gone", Answer(a, j, "not found")
      PROVE  IInv'
  <2>1. request' = [request EXCEPT ![a] = Tells("not found")]
    BY <1>5 DEF Answer
  <2> QED BY <1>1, <1>3, <1>5, <2>1, RequestMoves DEF Answers
<1>6. CASE Receive(a, j)
  BY <1>4, <1>6 DEF Receive
<1>7. CASE DeleteLooks(a, j)
  BY <1>2, <1>4, <1>5, <1>7 DEF DeleteLooks, Exists
<1>8. CASE RetryExplains(a, j)
  <2>1. row[j] \in {"retried", "gone"}
    BY <1>8 DEF IInv, RequestsKnow, RetryExplains, At, Idle
  <2>2. CASE row[j] = "gone"
    BY <1>5, <1>8, <2>2 DEF RetryExplains, Explanation, Exists
  <2>3. CASE row[j] = "retried"
    <3>1. request' = [request EXCEPT ![a] = Tells("already retried")]
      BY <1>8, <2>3 DEF RetryExplains, Explanation, Exists, Answer
    <3>2. \E e \in RetriesOf(j) : promise[e] # "none"
      <4>1. RetriesOf(j) # {}
        BY <2>3 DEF IInv, OneEventPerRetry
      <4> QED BY <4>1, DeadLetterAssumption DEF IInv, OriginsAreOwed, RetriesOf, Runs
    <3> QED BY <1>1, <1>2, <1>3, <3>1, <3>2, RequestMoves DEF Answers
  <2> QED BY <2>1, <2>2, <2>3
<1> QED BY <1>6, <1>7, <1>8

\* Rows disappear, none of them locked: they were retried, or are discarded.
LEMMA RowsGo ==
  ASSUME IInv, NEW old \in SUBSET Runs,
         \A i \in old : claim[i] = Free /\ row[i] # "none",
         row' = [i \in Runs |-> IF i \in old THEN "gone" ELSE row[i]],
         discarded' \in SUBSET Runs, discarded \subseteq discarded',
         \A i \in old : RetriesOf(i) # {} \/ i \in discarded',
         UNCHANGED <<promise, handed, run, tries, due, claim, origin, unrecorded, crashes>>,
         \/ UNCHANGED request
         \/ \E a \in Admins, i \in old :
              request' = [request EXCEPT ![a] =
                            [pc |-> "answered", of |-> i, answer |-> "deleted"]]
  PROVE  IInv'
<1> USE DeadLetterAssumption
<1>1. \A i : RetriesOf(i)' = RetriesOf(i)
  BY DEF RetriesOf
<1>2. TypeOK'
  <2>1. row' \in [Runs -> {"none", "open", "retried", "gone"}]
    BY DEF IInv, TypeOK
  <2>2. request' \in [Admins -> Requests]
    <3>1. \A i \in old :
            [pc |-> "answered", of |-> i, answer |-> "deleted"] \in Requests
      BY DEF Requests, Answers
    <3>2. request \in [Admins -> Requests]
      BY DEF IInv, TypeOK
    <3> QED BY <3>1, <3>2
  <2> QED BY <2>1, <2>2 DEF IInv, TypeOK, Outbox!TypeOK
<1>3. JobInv'
  BY <1>1, Parts, JobsSurviveAdmins
<1>4. LockedRowsAreOpen' /\ OriginsAreOwed'
  BY DEF IInv, LockedRowsAreOpen, OriginsAreOwed
<1>5. OneEventPerRetry'
  BY <1>1 DEF IInv, OneEventPerRetry
<1>6. \A b \in Admins :
        \/ request'[b] = request[b]
        \/ /\ request'[b].pc = "answered" /\ request'[b].of \in old
           /\ request'[b].answer = "deleted"
  BY DEF IInv, TypeOK
<1>7. RequestsKnow'
  <2>1. SUFFICES ASSUME NEW b \in Admins, request'[b] # Idle
                 PROVE  LET i == request'[b].of IN
                        /\ row'[i] # "none"
                        /\ request'[b].pc = "claimed" => claim'[i] = b
                        /\ request'[b].pc = "explain" => row'[i] \in {"retried", "gone"}
    BY DEF RequestsKnow
  <2>2. CASE request'[b] = request[b]
    <3>1. request[b].of \in Runs
      BY <2>1, <2>2 DEF IInv, TypeOK, Requests
    <3> QED BY <2>1, <2>2, <3>1 DEF IInv, RequestsKnow
  <2>3. CASE request'[b] # request[b]
    BY <1>6, <2>1, <2>3
  <2> QED BY <2>2, <2>3
<1>8. AnswersAreTrue'
  <2>1. SUFFICES ASSUME NEW b \in Admins, request'[b].pc = "answered"
                 PROVE  LET i == request'[b].of IN
                        CASE request'[b].answer \in {"queued for retry", "already retried"} ->
                               \E e \in RetriesOf(i) : promise[e] # "none"
                          [] request'[b].answer \in {"not found", "deleted"} -> row'[i] = "gone"
                          [] OTHER -> TRUE
    BY <1>1 DEF AnswersAreTrue
  <2>2. CASE request'[b] = request[b]
    <3>1. request[b].of \in Runs
      BY <2>1, <2>2 DEF IInv, TypeOK, Requests, Idle
    <3> QED BY <2>1, <2>2, <3>1 DEF IInv, AnswersAreTrue
  <2>3. CASE request'[b] # request[b]
    BY <1>6, <2>1, <2>3
  <2> QED BY <2>2, <2>3
<1> QED BY <1>2, <1>3, <1>4, <1>5, <1>7, <1>8 DEF IInv, JobInv

\* A delete, a purge of old rows and the retention of retried ones.
LEMMA RemovalPreserves ==
  ASSUME IInv,
         \/ PurgeBefore \/ PurgeRetried
         \/ \E a \in Admins, j \in Runs : DeleteRemoves(a, j)
  PROVE  IInv'
<1> USE DEF taskVars, jobVars, adminVars
<1>1. CASE PurgeBefore
  <2>1. PICK old \in SUBSET {j \in Runs : Exists(j)} :
          /\ \A j \in old : claim[j] = Free
          /\ row' = [j \in Runs |-> IF j \in old THEN "gone" ELSE row[j]]
          /\ discarded' = discarded \cup old
    BY <1>1 DEF PurgeBefore
  <2>2. old \in SUBSET Runs /\ \A i \in old : row[i] # "none"
    BY DEF Exists
  <2>3. discarded' \in SUBSET Runs /\ discarded \subseteq discarded' /\ \A i \in old : i \in discarded'
    BY <2>1, <2>2 DEF IInv, TypeOK
  <2>4. UNCHANGED <<promise, handed, run, tries, due, claim, origin, unrecorded, crashes, request>>
    BY <1>1 DEF PurgeBefore
  <2> QED BY <2>1, <2>2, <2>3, <2>4, RowsGo
<1>2. CASE PurgeRetried
  <2>1. PICK old \in SUBSET {j \in Runs : Purgeable(j)} :
          /\ \A j \in old : claim[j] = Free
          /\ row' = [j \in Runs |-> IF j \in old THEN "gone" ELSE row[j]]
    BY <1>2 DEF PurgeRetried
  <2>2. /\ old \in SUBSET Runs
        /\ \A i \in old : row[i] # "none" /\ RetriesOf(i) # {}
    BY DEF Purgeable, IInv, OneEventPerRetry
  <2>3. discarded' \in SUBSET Runs /\ discarded \subseteq discarded'
    BY <1>2 DEF IInv, TypeOK, PurgeRetried
  <2>4. UNCHANGED <<promise, handed, run, tries, due, claim, origin, unrecorded, crashes, request>>
    BY <1>2 DEF PurgeRetried
  <2> QED BY <2>1, <2>2, <2>3, <2>4, RowsGo
<1>3. ASSUME NEW a \in Admins, NEW j \in Runs, DeleteRemoves(a, j)
      PROVE  IInv'
  <2>1. request[a].of = j /\ request[a].pc = "remove" /\ claim[j] = Free
    BY <1>3 DEF DeleteRemoves, At
  <2>2. row[j] # "none"
    <3>1. request[a] # Idle
      BY <2>1 DEF Idle
    <3> QED BY <2>1, <3>1 DEF IInv, RequestsKnow
  <2> DEFINE old == {j}
  <2>3. row' = [i \in Runs |-> IF i \in old THEN "gone" ELSE row[i]]
    BY <1>3 DEF DeleteRemoves, IInv, TypeOK
  <2>4. discarded' \in SUBSET Runs /\ discarded \subseteq discarded' /\ j \in discarded'
    BY <1>3 DEF DeleteRemoves, IInv, TypeOK
  <2>5. UNCHANGED <<promise, handed, run, tries, due, claim, origin, unrecorded, crashes>>
    BY <1>3 DEF DeleteRemoves
  <2>6. request' = [request EXCEPT ![a] = [pc |-> "answered", of |-> j, answer |-> "deleted"]]
    BY <1>3 DEF DeleteRemoves, Answer
  <2> QED BY <2>1, <2>2, <2>3, <2>4, <2>5, <2>6, RowsGo
<1> QED BY <1>1, <1>2, <1>3

\* The commit of a retry: its lock kept every other writer from the row, so the
\* event it stages is the only one of that row.
LEMMA CommitPreserves ==
  ASSUME IInv, NEW a \in Admins, NEW j \in Runs, RetryCommits(a, j)
  PROVE  IInv'
<1> USE DeadLetterAssumption DEF jobVars
<1> DEFINE q == [pc |-> "answered", of |-> j, answer |-> "queued for retry"]
<1>1. PICK e \in Events \ Roots : Outbox!Promise(e) /\ origin' = [origin EXCEPT ![e] = j]
  BY DEF RetryCommits
<1>2. /\ row' = [row EXCEPT ![j] = "retried"]
      /\ claim' = [claim EXCEPT ![j] = Free]
      /\ request' = [request EXCEPT ![a] = q]
      /\ UNCHANGED <<run, tries, due, unrecorded, discarded, crashes>>
  BY DEF RetryCommits, Answer
<1>3. request[a].of = j /\ request[a].pc = "claimed"
  BY DEF RetryCommits, At
<1>4. request[a] # Idle
  BY <1>3 DEF Idle
<1>5. claim[j] = a /\ row[j] = "open" /\ RetriesOf(j) = {}
  <2>1. claim[j] = a
    BY <1>3, <1>4 DEF IInv, RequestsKnow
  <2>2. row[j] = "open"
    BY <2>1 DEF IInv, LockedRowsAreOpen
  <2> QED BY <2>1, <2>2 DEF IInv, OneEventPerRetry
<1>6. q \in Requests /\ q # Idle
  BY DEF Requests, Answers, Idle
<1>61. q.pc = "answered" /\ q.of = j /\ q.answer = "queued for retry"
  OBVIOUS
<1> HIDE DEF q
<1>7. TypeOK'
  <2>1. Outbox!TypeOK'
    BY <1>1 DEF IInv, TypeOK, Outbox!TypeOK, Outbox!Promise
  <2> QED BY <1>1, <1>2, <1>6, <2>1 DEF IInv, TypeOK
<1>8. /\ row'[j] = "retried" /\ claim'[j] = Free
      /\ \A i \in Runs : i # j => row'[i] = row[i] /\ claim'[i] = claim[i]
      /\ request'[a] = q
      /\ \A b \in Admins : b # a => request'[b] = request[b]
      /\ origin'[e] = j /\ \A d \in Events : d # e => origin'[d] = origin[d]
      /\ promise'[e] = "owed" /\ \A d \in Events : d # e => promise'[d] = promise[d]
  BY <1>1, <1>2 DEF IInv, TypeOK, Outbox!TypeOK, Outbox!Promise
<1>9. origin[e] = NoRun
  BY <1>1 DEF IInv, OriginsAreOwed, Outbox!Promise
<1>10. /\ RetriesOf(j)' = {e}
       /\ \A i \in Runs : i # j => RetriesOf(i)' = RetriesOf(i)
  <2>1. NoRun \notin Runs
    BY DEF Runs
  <2>2. \A d \in Events : origin'[d] = j <=> d = e
    BY <1>5, <1>8 DEF RetriesOf
  <2>3. \A i \in Runs, d \in Events : i # j => (origin'[d] = i <=> origin[d] = i)
    BY <1>8, <1>9, <2>1
  <2>4. RetriesOf(j)' = {e}
    BY <2>2 DEF RetriesOf
  <2>5. ASSUME NEW i \in Runs, i # j PROVE RetriesOf(i)' = RetriesOf(i)
    BY <2>3, <2>5 DEF RetriesOf
  <2> QED BY <2>4, <2>5
<1>11. JobInv'
  BY <1>2, <1>5, <1>8, <1>10, Parts, JobsSurviveAdmins
<1>12. LockedRowsAreOpen'
  BY <1>8 DEF IInv, LockedRowsAreOpen
<1>13. OriginsAreOwed'
  BY <1>8 DEF IInv, OriginsAreOwed
<1>14. OneEventPerRetry'
  BY <1>1, <1>8, <1>10 DEF IInv, OneEventPerRetry
<1>15. \A b \in Admins : b # a /\ request[b] # Idle =>
         /\ request[b].of \in Runs
         /\ request[b].pc = "claimed" => request[b].of # j
  BY <1>5 DEF IInv, TypeOK, Requests, RequestsKnow
<1>16. RequestsKnow'
  <2>1. SUFFICES ASSUME NEW b \in Admins, request'[b] # Idle
                 PROVE  LET i == request'[b].of IN
                        /\ row'[i] # "none"
                        /\ request'[b].pc = "claimed" => claim'[i] = b
                        /\ request'[b].pc = "explain" => row'[i] \in {"retried", "gone"}
    BY DEF RequestsKnow
  <2>2. CASE b = a
    BY <1>8, <1>61, <2>2
  <2>3. CASE b # a
    <3>1. request'[b] = request[b] /\ request[b] # Idle /\ request[b].of \in Runs
      BY <1>8, <1>15, <2>1, <2>3
    <3> QED BY <1>5, <1>8, <1>15, <2>3, <3>1 DEF IInv, RequestsKnow
  <2> QED BY <2>2, <2>3
<1>17. AnswersAreTrue'
  <2>1. SUFFICES ASSUME NEW b \in Admins, request'[b].pc = "answered"
                 PROVE  LET i == request'[b].of IN
                        CASE request'[b].answer \in {"queued for retry", "already retried"} ->
                               \E d \in Events : origin'[d] = i /\ promise'[d] # "none"
                          [] request'[b].answer \in {"not found", "deleted"} -> row'[i] = "gone"
                          [] OTHER -> TRUE
    BY DEF AnswersAreTrue, RetriesOf
  <2>2. CASE b = a
    BY <1>1, <1>8, <1>61, <2>2
  <2>3. CASE b # a
    <3>1. /\ request'[b] = request[b] /\ request[b].of \in Runs
          /\ request[b].pc = "answered"
      BY <1>8, <1>15, <2>1, <2>3 DEF Idle
    <3>2. \A d \in Events : /\ promise[d] # "none" => promise'[d] # "none"
                            /\ origin[d] = request[b].of => origin'[d] = request[b].of
      BY <1>1, <1>8, <1>9, <3>1, DeadLetterAssumption DEF Outbox!Promise, Runs
    <3>3. CASE request[b].answer \in {"queued for retry", "already retried"}
      BY <3>1, <3>2, <3>3 DEF IInv, AnswersAreTrue, RetriesOf
    <3>4. CASE request[b].answer \in {"not found", "deleted"}
      <4>1. row[request[b].of] = "gone"
        BY <3>1, <3>4 DEF IInv, AnswersAreTrue
      <4> QED BY <1>5, <1>8, <3>1, <3>4, <4>1
    <3> QED BY <3>1, <3>3, <3>4
  <2> QED BY <2>2, <2>3
<1> QED BY <1>7, <1>11, <1>12, <1>13, <1>14, <1>16, <1>17 DEF IInv, JobInv

-----------------------------------------------------------------------------

\* Every step and every stutter preserves the invariant.
LEMMA NextPreserves == IInv /\ [Next]_vars => IInv'
<1> SUFFICES ASSUME IInv, [Next]_vars PROVE IInv'
  OBVIOUS
<1>1. CASE UNCHANGED vars
  <2>1. \A j : RetriesOf(j)' = RetriesOf(j)
    BY <1>1 DEF vars, RetriesOf
  <2>2. TypeOK'
    BY <1>1 DEF vars, IInv, TypeOK, Outbox!TypeOK
  <2>3. JobInv'
    BY <1>1, Parts, JobsUntouched DEF vars
  <2>4. RowInv'
    <3>1. UNCHANGED <<claim, origin, request, row, promise>>
      BY <1>1 DEF vars
    <3> QED BY <3>1, Parts, RowsUntouched
  <2> QED BY <2>2, <2>3, <2>4 DEF IInv, JobInv, RowInv
<1>2. CASE \E e \in Events : StageTask(e) \/ RelayNext(e)
  BY <1>2, QueuePreserves DEF RelayNext
<1>3. CASE \E j \in Runs : WorkerNext(j) \/ WorkerDies(j)
  BY <1>3, WorkerPreserves
<1>4. CASE \E a \in Admins : AdminNext(a)
  BY <1>4, LockPreserves, ReaderPreserves, CommitPreserves, RemovalPreserves DEF AdminNext
<1>5. CASE PurgeBefore \/ PurgeRetried
  BY <1>5, RemovalPreserves
<1> QED BY <1>1, <1>2, <1>3, <1>4, <1>5 DEF Next

\* The inductive invariant holds in every reachable state.
THEOREM Invariance == Spec => []IInv
  BY InitEstablishes, NextPreserves, PTL DEF Spec

\* Jobs, rows, requests and histories have their types.
THEOREM TypeCorrect == Spec => []TypeOK
<1>1. IInv => TypeOK
  BY DEF IInv
<1> QED BY <1>1, Invariance, PTL

\* DeadLetterRepository.retry and stage_add in one transaction: however requests
\* race, time out and roll back, a retried row has exactly one outbox event, and
\* a row that is open, or being claimed, has none.
THEOREM RetryIsAtomic == Spec => []OneEventPerRetry
<1>1. IInv => OneEventPerRetry
  BY DEF IInv
<1> QED BY <1>1, Invariance, PTL

\* retry_job and delete_job: what the API answers stays true, although the answer
\* is computed by a read in a later transaction than the decision.
THEOREM AnswersStayTrue == Spec => []AnswersAreTrue
<1>1. IInv => AnswersAreTrue
  BY DEF IInv
<1> QED BY <1>1, Invariance, PTL

\* record_dead_letter: a row stands for a job that failed for good.
THEOREM RowsAreFailures == Spec => []OnlyDeadJobsAreRecorded
<1>1. IInv => OnlyDeadJobsAreRecorded
  BY DEF IInv
<1> QED BY <1>1, Invariance, PTL

\* The hook and the purges: a terminal failure is about to be recorded, recorded,
\* retried, removed by an admin, or lost to a fault.
THEOREM FailuresAreKept == Spec => []NoFailureVanishes
<1>1. IInv => NoFailureVanishes
  BY DEF IInv
<1> QED BY <1>1, Invariance, PTL

-----------------------------------------------------------------------------
(* What a step never does *)

\* The row of a job and the job behind it never go back.
MovesOn ==
  \A j \in Runs :
    /\ row[j] = "gone" => row'[j] = "gone"
    /\ row[j] = "retried" => row'[j] \in {"retried", "gone"}
    /\ row[j] # "none" => row'[j] # "none" /\ run'[j] = run[j]

RowsOnlyMoveOn == [][MovesOn]_vars

\* No step revives a row, or a job that has one.
LEMMA StepMovesOn == IInv /\ [Next]_vars => MovesOn
<1> SUFFICES ASSUME IInv, [Next]_vars, NEW j \in Runs
             PROVE  /\ row[j] = "gone" => row'[j] = "gone"
                    /\ row[j] = "retried" => row'[j] \in {"retried", "gone"}
                    /\ row[j] # "none" => row'[j] # "none" /\ run'[j] = run[j]
  BY DEF MovesOn
<1>1. /\ run \in [Runs -> {"none", "queued", "active", "stuck", "complete", "failed",
                           "aborted"}]
      /\ row \in [Runs -> {"none", "open", "retried", "gone"}]
  BY DEF IInv, TypeOK
<1>2. row[j] # "none" => run[j] \in Terminals
  BY DEF IInv, OnlyDeadJobsAreRecorded, Terminals
<1>3. CASE UNCHANGED vars
  BY <1>3 DEF vars
<1>4. CASE \E e \in Events : StageTask(e) \/ Settle(e)
  BY <1>4 DEF StageTask, Settle, jobVars, rowVars
<1>5. ASSUME NEW e \in Events, HandOver(e)
      PROVE  row' = row /\ (row[j] # "none" => run'[j] = run[j])
  <2>1. row' = row
    BY <1>5 DEF HandOver, rowVars
  <2>2. CASE UNCHANGED run
    BY <2>1, <2>2
  <2>3. CASE ~UNCHANGED run
    <3>1. PICK n \in 1 .. MaxJobs :
            /\ \A m \in 1 .. MaxJobs : run[<<e, m>>] = "none" <=> m >= n
            /\ run' = [run EXCEPT ![<<e, n>>] = "queued"]
      BY <1>5, <2>3 DEF HandOver
    <3>2. run[<<e, n>>] = "none"
      BY <3>1
    <3>3. row[j] # "none" => j # <<e, n>>
      BY <1>2, <3>2 DEF Terminals
    <3> QED BY <1>1, <2>1, <3>1, <3>3
  <2> QED BY <2>2, <2>3
<1>6. ASSUME NEW i \in Runs,
             Start(i) \/ Complete(i) \/ Fail(i) \/ Abort(i) \/ Sweep(i) \/ WorkerDies(i)
      PROVE  row' = row /\ (row[j] # "none" => run'[j] = run[j])
  <2>1. row' = row /\ run[i] \in {"queued", "active", "stuck"}
    BY <1>6 DEF Start, Complete, Fail, Abort, Sweep, WorkerDies, rowVars
  <2>2. \A k \in Runs \ {i} : run'[k] = run[k]
    BY <1>1, <1>6 DEF Start, Complete, Fail, Abort, Sweep, WorkerDies
  <2> QED BY <1>2, <2>1, <2>2 DEF Terminals
<1>7. ASSUME NEW i \in Runs, NEW s \in Ends,
             HookSkips(i, s) \/ HookRecords(i, s) \/ HookFails(i, s)
      PROVE  run' = run /\ (row[j] # "none" => row'[j] = row[j])
  <2>1. CASE HookSkips(i, s) \/ HookFails(i, s)
    BY <2>1 DEF HookSkips, HookFails, jobVars, rowVars
  <2>2. CASE HookRecords(i, s)
    <3>1. /\ run' = run /\ row' = [row EXCEPT ![i] = "open"]
          /\ <<i, s>> \in due /\ s \in Terminals
      BY <2>2 DEF HookRecords, jobVars, Terminal, Terminals
    <3>2. row[i] = "none"
      BY <3>1 DEF IInv, HooksAreDue
    <3> QED BY <1>1, <3>1, <3>2
  <2> QED BY <1>7, <2>1, <2>2
<1>8. ASSUME NEW a \in Admins, NEW i \in Runs,
             \/ Receive(a, i) \/ RetryClaims(a, i) \/ RetryRollsBack(a, i)
             \/ RetryExplains(a, i) \/ DeleteLooks(a, i)
      PROVE  row' = row /\ run' = run
  BY <1>8 DEF Receive, RetryClaims, RetryRollsBack, RetryExplains, DeleteLooks, jobVars,
              rowVars
<1>9. ASSUME NEW a \in Admins, NEW i \in Runs, RetryCommits(a, i)
      PROVE  run' = run /\ (row[j] # "none" => row'[j] # "none")
                        /\ (row[j] \in {"retried", "gone"} => row'[j] = row[j])
  <2>1. run' = run /\ row' = [row EXCEPT ![i] = "retried"]
    BY <1>9 DEF RetryCommits, jobVars
  <2>2. request[a].pc = "claimed" /\ request[a].of = i
    BY <1>9 DEF RetryCommits, At
  <2>3. row[i] = "open"
    <3>1. request[a] # Idle
      BY <2>2 DEF Idle
    <3>2. claim[i] = a
      BY <2>2, <3>1 DEF IInv, RequestsKnow
    <3> QED BY <3>2, DeadLetterAssumption DEF IInv, LockedRowsAreOpen
  <2> QED BY <1>1, <2>1, <2>3
<1>10. ASSUME (\E a \in Admins, i \in Runs : DeleteRemoves(a, i)) \/ PurgeBefore
              \/ PurgeRetried
       PROVE  run' = run /\ row'[j] \in {row[j], "gone"}
  BY <1>1, <1>10 DEF DeleteRemoves, PurgeBefore, PurgeRetried, jobVars
<1>11. CASE \E e \in Events : StageTask(e) \/ RelayNext(e)
  BY <1>4, <1>5, <1>11 DEF RelayNext
<1>12. CASE \E i \in Runs : WorkerNext(i) \/ WorkerDies(i)
  BY <1>6, <1>7, <1>12 DEF WorkerNext
<1>13. CASE \E a \in Admins : AdminNext(a)
  <2>1. PICK a \in Admins, i \in Runs :
          \/ Receive(a, i) \/ RetryClaims(a, i) \/ RetryCommits(a, i)
          \/ RetryRollsBack(a, i) \/ RetryExplains(a, i)
          \/ DeleteLooks(a, i) \/ DeleteRemoves(a, i)
    BY <1>13 DEF AdminNext
  <2>2. CASE DeleteRemoves(a, i)
    BY <1>1, <1>10, <2>2
  <2>3. CASE RetryCommits(a, i)
    BY <1>9, <2>3
  <2> QED BY <1>8, <2>1, <2>2, <2>3
<1>14. CASE PurgeBefore \/ PurgeRetried
  BY <1>1, <1>10, <1>14
<1> QED BY <1>3, <1>11, <1>12, <1>13, <1>14 DEF Next

\* record, retry, delete and purge: a retry, a late hook or a clean-up never
\* brings back a row that was retried or removed, and a job that has had a row
\* never runs again; what runs after a retry is the job of another event.
THEOREM RowsNeverReturn == Spec => RowsOnlyMoveOn
<1> QED BY Invariance, StepMovesOn, PTL DEF Spec, RowsOnlyMoveOn

-----------------------------------------------------------------------------
(* The outbox below *)

\* What admins, workers and hooks do to the outbox is what TaskDelivery allows.
LEMMA StepUsesOutbox == [Next]_vars => [Outbox!Next]_(Outbox!vars)
<1> SUFFICES ASSUME [Next]_vars PROVE [Outbox!Next]_(Outbox!vars)
  OBVIOUS
<1>1. CASE UNCHANGED vars
  BY <1>1 DEF vars, Outbox!vars
<1>2. ASSUME NEW e \in Events, StageTask(e) PROVE Outbox!Next
  BY <1>2 DEF StageTask, Outbox!Next
<1>3. ASSUME NEW e \in Events, HandOver(e) PROVE Outbox!Next
  BY <1>3 DEF HandOver, Outbox!Next
<1>4. ASSUME NEW e \in Events, Settle(e) PROVE Outbox!Next
  <2>1. {e} \in SUBSET Events /\ {} \in SUBSET Events
    OBVIOUS
  <2>2. Outbox!Resolve({e}, {}) \/ Outbox!Resolve({}, {e})
    BY <1>4 DEF Settle
  <2> QED BY <2>1, <2>2 DEF Outbox!Next
<1>5. CASE \E j \in Runs : WorkerNext(j) \/ WorkerDies(j)
  BY <1>5 DEF WorkerNext, WorkerDies, Start, Complete, Fail, Abort, Sweep, HookSkips,
              HookRecords, HookFails, taskVars, Outbox!vars
<1>6. ASSUME NEW a \in Admins, NEW j \in Runs, RetryCommits(a, j) PROVE Outbox!Next
  BY <1>6 DEF RetryCommits, Outbox!Next
<1>7. ASSUME NEW a \in Admins, NEW j \in Runs,
             \/ Receive(a, j) \/ RetryClaims(a, j) \/ RetryRollsBack(a, j)
             \/ RetryExplains(a, j) \/ DeleteLooks(a, j) \/ DeleteRemoves(a, j)
      PROVE  UNCHANGED Outbox!vars
  BY <1>7 DEF Receive, RetryClaims, RetryRollsBack, RetryExplains, DeleteLooks,
              DeleteRemoves, taskVars, Outbox!vars
<1>8. CASE PurgeBefore \/ PurgeRetried
  BY <1>8 DEF PurgeBefore, PurgeRetried, taskVars, Outbox!vars
<1> QED BY <1>1, <1>2, <1>3, <1>4, <1>5, <1>6, <1>7, <1>8 DEF Next, RelayNext, AdminNext

\* DeadLetter is a user of the outbox that OutboxRelay implements: its retries,
\* jobs and clean-ups never revise a promise or hand over what is not owed.
THEOREM OutboxIsRespected == Spec => Outbox!Spec
<1>1. Init => Outbox!Init
  BY DEF Init
<1> QED BY <1>1, StepUsesOutbox, PTL DEF Spec, Outbox!Spec
=============================================================================
