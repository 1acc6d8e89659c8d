------------------------- MODULE OutboxRelay_proofs -------------------------
(***************************************************************************)
(* The safety properties of OutboxRelay for any number of rows, relays,    *)
(* attempts, faults and lost jobs, and the refinement of TaskDelivery.     *)
(***************************************************************************)
EXTENDS OutboxRelay, TLAPS

Settled(e) == status[e] \in {"dispatched", "deleted"}
Sent(e) == \E r \in Relays : outcome[r][e] = "sent"
Accounted(e) == job[e] = "incomplete" \/ e \in ran \/ e \in lost

\* Only rows of an open batch carry an outcome.
OutcomeOfHeld ==
  \A r \in Relays : \A e \in Events : outcome[r][e] # "none" => e \in held[r]

\* A row that may still be selected has attempts left; a parked one has none.
AttemptsLeft ==
  \A e \in Events :
    /\ status[e] \in {"absent", "staged", "void", "pending"} => attempts[e] < MaxAttempts
    /\ status[e] = "parked" => attempts[e] >= MaxAttempts

\* A job in the queue was created there.
JobWasAccepted == \A e \in Events : job[e] = "incomplete" => accepted[e] > 0

\* What a batch marked as sent, and what it committed as dispatched, was
\* accepted by the queue and is accounted for.
SentWasAccepted ==
  \A e \in Events : Sent(e) \/ Settled(e) => accepted[e] > 0 /\ Accounted(e)

\* Every job beyond those forgotten belongs to the batch that now holds the
\* row as sent, or to the one that settled it.
JobsCounted ==
  \A e \in Events : accepted[e] <= redone[e] + (IF Sent(e) \/ Settled(e) THEN 1 ELSE 0)

IInv ==
  /\ TypeOK
  /\ ExclusiveClaim
  /\ OutcomeOfHeld
  /\ AttemptsLeft
  /\ JobWasAccepted
  /\ SentWasAccepted
  /\ JobsCounted

-----------------------------------------------------------------------------
\* The inductive invariant holds of the empty table.
LEMMA InitEstablishes == Init => IInv
  <1> SUFFICES ASSUME Init PROVE IInv
    OBVIOUS
  <1>1. TypeOK
    BY OutboxAssumption DEF Init, TypeOK, NoOutcome, Status, Outcome, JobStatus
  <1>2. ExclusiveClaim /\ OutcomeOfHeld
    BY DEF Init, ExclusiveClaim, OutcomeOfHeld, NoOutcome
  <1>3. AttemptsLeft
    BY OutboxAssumption DEF Init, AttemptsLeft
  <1>4. JobWasAccepted /\ SentWasAccepted /\ JobsCounted
    BY DEF Init, JobWasAccepted, SentWasAccepted, JobsCounted, Sent, Settled,
           NoOutcome
  <1> QED
    BY <1>1, <1>2, <1>3, <1>4 DEF IInv

\* Steps that leave batches and queue alone and only move rows forward outside
\* the pending set: the producers and the cleanup.
LEMMA ProducerPreserves ==
  ASSUME IInv, NEW e \in Events, StageAdd(e) \/ FinishTransaction(e)
  PROVE  IInv'
  <1> USE DEF IInv, batchVars, queueVars
  <1>1. TypeOK'
    BY DEF TypeOK, StageAdd, FinishTransaction, Status
  <1>2. ExclusiveClaim'
    BY DEF TypeOK, ExclusiveClaim, StageAdd, FinishTransaction
  <1>3. OutcomeOfHeld' /\ JobWasAccepted'
    BY DEF OutcomeOfHeld, JobWasAccepted, StageAdd, FinishTransaction
  <1>4. AttemptsLeft'
    BY DEF TypeOK, AttemptsLeft, StageAdd, FinishTransaction
  <1>5. \A f \in Events : Settled(f)' = Settled(f) /\ Sent(f)' = Sent(f)
    BY DEF TypeOK, Settled, Sent, StageAdd, FinishTransaction
  <1>6. SentWasAccepted' /\ JobsCounted'
    BY <1>5 DEF SentWasAccepted, JobsCounted, Accounted, StageAdd,
                FinishTransaction
  <1> QED
    BY <1>1, <1>2, <1>3, <1>4, <1>6

\* Selecting locks free rows only.
LEMMA SelectPreserves ==
  ASSUME IInv, NEW r \in Relays, Select(r)
  PROVE  IInv'
  <1> USE DEF IInv, rowVars, queueVars
  <1>1. PICK b \in SUBSET Free : held' = [held EXCEPT ![r] = b]
    BY DEF Select
  <1>2. b \subseteq Events /\ \A e \in b : status[e] = "pending" /\ \A s \in Relays : e \notin held[s]
    BY <1>1 DEF Free
  <1>3. TypeOK'
    BY <1>1, <1>2 DEF TypeOK, Select
  <1>4. ExclusiveClaim'
    BY <1>1, <1>2 DEF TypeOK, ExclusiveClaim, Select
  <1>5. OutcomeOfHeld'
    BY <1>1 DEF TypeOK, OutcomeOfHeld, Select
  <1>6. AttemptsLeft' /\ JobWasAccepted' /\ SentWasAccepted' /\ JobsCounted'
    BY DEF AttemptsLeft, JobWasAccepted, SentWasAccepted, JobsCounted,
           Accounted, Sent, Settled, Select
  <1> QED
    BY <1>3, <1>4, <1>5, <1>6

\* While a row is being handled by r, no relay holds it as sent, so every job
\* the queue created for it so far was forgotten by some batch.
LEMMA UnsentRow ==
  ASSUME IInv, NEW r \in Relays, NEW e \in Events, IsNext(r, e)
  PROVE  ~Sent(e) /\ ~Settled(e) /\ accepted[e] <= redone[e]
  <1>1. e \in held[r] /\ outcome[r][e] = "none" /\ status[e] = "pending"
    BY DEF IsNext, IInv, ExclusiveClaim
  <1>2. \A s \in Relays : outcome[s][e] # "sent"
    BY <1>1 DEF IInv, ExclusiveClaim, OutcomeOfHeld
  <1>3. ~Sent(e) /\ ~Settled(e)
    BY <1>1, <1>2 DEF Sent, Settled
  <1> QED
    BY <1>3 DEF IInv, TypeOK, JobsCounted

\* Enqueueing keeps the queue's types, creates at most one job, for e only,
\* and leaves e with an incomplete one.
LEMMA EnqueueEffect ==
  ASSUME TypeOK, JobWasAccepted, NEW e \in Events, Enqueue(e)
  PROVE  /\ job' \in [Events -> JobStatus] /\ accepted' \in [Events -> Nat]
         /\ job'[e] = "incomplete" /\ accepted'[e] > 0
         /\ accepted'[e] <= accepted[e] + 1
         /\ \A f \in Events \ {e} : job'[f] = job[f] /\ accepted'[f] = accepted[f]
         /\ UNCHANGED <<ran, lost>>
  BY DEF TypeOK, JobWasAccepted, Enqueue, JobStatus, queueVars

\* The three ends an enqueue can have.
LEMMA SendPreserves ==
  ASSUME IInv, NEW r \in Relays, NEW e \in Events, Send(r, e)
  PROVE  IInv'
  <1> USE DEF IInv, rowVars
  <1>1. ~Sent(e) /\ ~Settled(e) /\ accepted[e] <= redone[e]
    BY UnsentRow DEF Send
  <1>2. /\ job' \in [Events -> JobStatus] /\ accepted' \in [Events -> Nat]
        /\ job'[e] = "incomplete" /\ accepted'[e] > 0
        /\ accepted'[e] <= accepted[e] + 1
        /\ \A f \in Events \ {e} : job'[f] = job[f] /\ accepted'[f] = accepted[f]
        /\ UNCHANGED <<ran, lost>>
    BY EnqueueEffect DEF Send
  <1>3. TypeOK'
    BY <1>2 DEF TypeOK, Send, Outcome
  <1>4. ExclusiveClaim' /\ AttemptsLeft'
    BY DEF ExclusiveClaim, AttemptsLeft, Send
  <1>5. OutcomeOfHeld'
    BY DEF TypeOK, OutcomeOfHeld, Send, IsNext
  <1>6. JobWasAccepted'
    BY <1>2 DEF JobWasAccepted
  <1>7. Sent(e)' /\ \A f \in Events \ {e} : Sent(f)' = Sent(f)
    BY DEF TypeOK, Sent, Send
  <1>8. \A f \in Events : Settled(f)' = Settled(f)
    BY DEF Settled, Send
  <1>9. SentWasAccepted'
    BY <1>2, <1>7, <1>8 DEF SentWasAccepted, Accounted
  <1>10. JobsCounted'
    <2> SUFFICES ASSUME NEW f \in Events
                 PROVE  accepted'[f] <= redone'[f] + (IF Sent(f)' \/ Settled(f)' THEN 1 ELSE 0)
      BY DEF JobsCounted
    <2>1. redone'[f] = redone[f] /\ redone[f] \in Nat /\ accepted[f] \in Nat
      BY DEF TypeOK, Send
    <2>2. CASE f = e
      BY <1>1, <1>2, <1>7, <2>1, <2>2
    <2>3. CASE f # e
      BY <1>2, <1>7, <1>8, <2>1, <2>3 DEF JobsCounted
    <2> QED
      BY <2>2, <2>3
  <1> QED
    BY <1>3, <1>4, <1>5, <1>6, <1>9, <1>10

\* An enqueue that raises, whether or not Redis executed it.
LEMMA FailurePreserves ==
  ASSUME IInv, NEW r \in Relays, NEW e \in Events,
         SendFails(r, e) \/ SendAnswerLost(r, e)
  PROVE  IInv'
  <1> USE DEF IInv, rowVars
  <1>1. ~Sent(e) /\ ~Settled(e) /\ accepted[e] <= redone[e] /\ IsNext(r, e)
    BY UnsentRow DEF SendFails, SendAnswerLost
  <1>2. /\ outcome' = [outcome EXCEPT ![r][e] = "failed"]
        /\ UNCHANGED <<rowVars, held>>
    BY DEF SendFails, SendAnswerLost
  <1>3. ExclusiveClaim' /\ AttemptsLeft' /\ OutcomeOfHeld'
    BY <1>1, <1>2 DEF TypeOK, ExclusiveClaim, AttemptsLeft, OutcomeOfHeld, IsNext
  <1>4. \A f \in Events : Sent(f)' = Sent(f) /\ Settled(f)' = Settled(f)
    <2>1. \A f \in Events : Settled(f)' = Settled(f)
      BY <1>2 DEF Settled
    <2>2. \A f \in Events, s \in Relays : outcome'[s][f] = "sent" <=> outcome[s][f] = "sent"
      BY <1>1, <1>2 DEF TypeOK, IsNext
    <2> QED
      BY <2>1, <2>2 DEF Sent
  <1>5. CASE SendFails(r, e)
    <2>1. TypeOK'
      BY <1>2, <1>5 DEF TypeOK, SendFails, Outcome, queueVars
    <2>2. JobWasAccepted' /\ SentWasAccepted' /\ JobsCounted'
      BY <1>4, <1>5 DEF JobWasAccepted, SentWasAccepted, JobsCounted,
                        Accounted, SendFails, queueVars
    <2> QED
      BY <1>3, <2>1, <2>2
  <1>6. CASE SendAnswerLost(r, e)
    <2>1. /\ job' \in [Events -> JobStatus] /\ accepted' \in [Events -> Nat]
          /\ job'[e] = "incomplete" /\ accepted'[e] > 0
          /\ accepted'[e] <= accepted[e] + 1
          /\ \A f \in Events \ {e} : job'[f] = job[f] /\ accepted'[f] = accepted[f]
          /\ UNCHANGED <<ran, lost>>
      BY <1>6, EnqueueEffect DEF SendAnswerLost
    <2>2. redone' = [redone EXCEPT ![e] = @ + 1] /\ faults' = faults + 1 /\ faults < MaxFaults
      BY <1>6 DEF SendAnswerLost
    <2>3. TypeOK'
      BY <1>2, <2>1, <2>2, OutboxAssumption DEF TypeOK, Outcome
    <2>4. JobWasAccepted' /\ SentWasAccepted'
      BY <1>4, <2>1 DEF JobWasAccepted, SentWasAccepted, Accounted
    <2>5. JobsCounted'
      <3> SUFFICES ASSUME NEW f \in Events
                   PROVE  accepted'[f] <= redone'[f] + (IF Sent(f)' \/ Settled(f)' THEN 1 ELSE 0)
        BY DEF JobsCounted
      <3>1. redone[f] \in Nat /\ accepted[f] \in Nat
        BY DEF TypeOK
      <3>2. CASE f = e
        <4>1. redone'[f] = redone[f] + 1
          BY <2>2, <3>2 DEF TypeOK
        <4> QED
          BY <1>1, <1>4, <2>1, <3>1, <3>2, <4>1
      <3>3. CASE f # e
        <4>1. redone'[f] = redone[f]
          BY <2>2, <3>3 DEF TypeOK
        <4> QED
          BY <1>4, <2>1, <3>1, <3>3, <4>1 DEF JobsCounted
      <3> QED
        BY <3>2, <3>3
    <2> QED
      BY <1>3, <2>3, <2>4, <2>5
  <1> QED
    BY <1>5, <1>6

\* The one commit of a batch settles what it sent and counts what failed.
LEMMA CommitPreserves ==
  ASSUME IInv, NEW r \in Relays, Commit(r)
  PROVE  IInv'
  <1> USE DEF IInv, queueVars
  <1>1. /\ held' = [held EXCEPT ![r] = {}]
        /\ outcome' = [outcome EXCEPT ![r] = NoOutcome]
        /\ \A e \in held[r] : e \in Events /\ status[e] = "pending" /\ outcome[r][e] # "none"
        /\ UNCHANGED <<created, clock, queueVars, redone, faults>>
    BY DEF Commit, ExclusiveClaim, TypeOK
  <1>2. \A e \in Events \ held[r] : status'[e] = status[e] /\ attempts'[e] = attempts[e]
    BY DEF Commit
  <1>3. ASSUME NEW e \in held[r]
        PROVE  /\ outcome[r][e] = "sent" => status'[e] = "dispatched" /\ attempts'[e] = attempts[e]
               /\ outcome[r][e] = "failed" =>
                    /\ attempts'[e] = attempts[e] + 1
                    /\ attempts[e] + 1 >= MaxAttempts => status'[e] = "parked"
                    /\ attempts[e] + 1 < MaxAttempts => status'[e] = "pending"
               /\ outcome[r][e] \in {"sent", "failed"}
               /\ attempts[e] < MaxAttempts
    BY <1>1, OutboxAssumption
       DEF Commit, StatusAfter, AttemptsAfter, TypeOK, Outcome, AttemptsLeft
  <1>4. \A e \in Events : status'[e] \in Status /\ attempts'[e] \in 0 .. MaxAttempts
    BY <1>2, <1>3, OutboxAssumption DEF TypeOK, Status
  <1>5. TypeOK'
    BY <1>1, <1>4 DEF Commit, TypeOK, NoOutcome, Outcome
  <1>6. ExclusiveClaim'
    <2> SUFFICES ASSUME NEW s \in Relays, NEW e \in held'[s]
                 PROVE  status'[e] = "pending" /\ \A t \in Relays \ {s} : e \notin held'[t]
      BY DEF ExclusiveClaim
    <2>1. s # r /\ e \in held[s] /\ e \in Events
      BY <1>1 DEF TypeOK
    <2>2. e \notin held[r]
      BY <2>1 DEF ExclusiveClaim
    <2> QED
      BY <1>1, <1>2, <2>1, <2>2 DEF ExclusiveClaim, TypeOK
  <1>7. OutcomeOfHeld'
    BY <1>1 DEF OutcomeOfHeld, TypeOK, NoOutcome
  <1>8. AttemptsLeft'
    <2> SUFFICES ASSUME NEW e \in Events
                 PROVE  /\ status'[e] \in {"absent", "staged", "void", "pending"} => attempts'[e] < MaxAttempts
                        /\ status'[e] = "parked" => attempts'[e] >= MaxAttempts
      BY DEF AttemptsLeft
    <2>1. CASE e \in held[r]
      BY <1>3, <2>1, OutboxAssumption DEF TypeOK
    <2>2. CASE e \notin held[r]
      BY <1>2, <2>2 DEF AttemptsLeft
    <2> QED
      BY <2>1, <2>2
  <1>9. \A e \in Events : (Sent(e) \/ Settled(e))' <=> Sent(e) \/ Settled(e)
    <2> SUFFICES ASSUME NEW e \in Events
                 PROVE  (Sent(e) \/ Settled(e))' <=> Sent(e) \/ Settled(e)
      OBVIOUS
    <2>1. CASE e \in held[r]
      <3>1. status[e] = "pending" /\ \A s \in Relays \ {r} : outcome[s][e] = "none"
        BY <2>1 DEF ExclusiveClaim, OutcomeOfHeld
      <3>2. ~Sent(e)'
        BY <1>1, <3>1 DEF Sent, TypeOK, NoOutcome
      <3>3. Sent(e) <=> outcome[r][e] = "sent"
        BY <3>1 DEF Sent
      <3>4. ~Settled(e) /\ (Settled(e)' <=> outcome[r][e] = "sent")
        BY <1>3, <2>1, <3>1, OutboxAssumption DEF Settled, TypeOK
      <3> QED
        BY <3>2, <3>3, <3>4
    <2>2. CASE e \notin held[r]
      <3>1. Settled(e)' <=> Settled(e)
        BY <1>2, <2>2 DEF Settled
      <3>2. outcome[r][e] = "none" /\ outcome'[r][e] = "none"
        BY <1>1, <2>2 DEF OutcomeOfHeld, TypeOK, NoOutcome
      <3>3. Sent(e)' <=> Sent(e)
        BY <1>1, <3>2 DEF Sent, TypeOK
      <3> QED
        BY <3>1, <3>3
    <2> QED
      BY <2>1, <2>2
  <1>10. JobWasAccepted' /\ SentWasAccepted' /\ JobsCounted'
    BY <1>1, <1>9 DEF JobWasAccepted, SentWasAccepted, JobsCounted, Accounted
  <1> QED
    BY <1>5, <1>6, <1>7, <1>8, <1>10

\* A rollback frees the rows and remembers, in redone, what it forgot.
LEMMA RollBackPreserves ==
  ASSUME IInv, NEW r \in Relays, RollBack(r)
  PROVE  IInv'
  <1> USE DEF IInv, rowVars, queueVars
  <1>1. /\ held' = [held EXCEPT ![r] = {}]
        /\ outcome' = [outcome EXCEPT ![r] = NoOutcome]
        /\ UNCHANGED <<rowVars, queueVars>>
    BY DEF RollBack
  <1>2. TypeOK'
    BY OutboxAssumption DEF RollBack, TypeOK, NoOutcome, Outcome
  <1>3. ExclusiveClaim' /\ OutcomeOfHeld'
    BY <1>1 DEF ExclusiveClaim, OutcomeOfHeld, TypeOK, NoOutcome
  <1>4. AttemptsLeft' /\ JobWasAccepted'
    BY <1>1 DEF AttemptsLeft, JobWasAccepted
  <1>5. \A e \in Events : (Settled(e)' <=> Settled(e)) /\ (Sent(e)' => Sent(e))
    BY <1>1 DEF Settled, Sent, TypeOK, NoOutcome
  <1>6. SentWasAccepted'
    BY <1>1, <1>5 DEF SentWasAccepted, Accounted
  <1>7. JobsCounted'
    <2> SUFFICES ASSUME NEW e \in Events
                 PROVE  accepted'[e] <= redone'[e] + (IF Sent(e)' \/ Settled(e)' THEN 1 ELSE 0)
      BY DEF JobsCounted
    <2>1. redone[e] \in Nat /\ accepted[e] \in Nat /\ accepted'[e] = accepted[e]
      BY <1>1 DEF TypeOK
    <2>2. CASE outcome[r][e] = "sent"
      <3>1. redone'[e] = redone[e] + 1
        BY <2>2 DEF RollBack
      <3> QED
        BY <2>1, <3>1 DEF JobsCounted
    <2>3. CASE outcome[r][e] # "sent"
      <3>1. redone'[e] = redone[e]
        BY <2>1, <2>3 DEF RollBack
      <3>2. Sent(e) => Sent(e)'
        BY <1>1, <2>3 DEF Sent, TypeOK
      <3> QED
        BY <1>5, <2>1, <3>1, <3>2 DEF JobsCounted
    <2> QED
      BY <2>2, <2>3
  <1> QED
    BY <1>2, <1>3, <1>4, <1>6, <1>7

\* The cleanup deletes settled rows; workers and Redis only move jobs.
LEMMA OthersPreserve ==
  ASSUME IInv,
         CleanupDispatched \/ \E e \in Events : RunJob(e) \/ LoseJob(e)
  PROVE  IInv'
  <1> USE DEF IInv, rowVars, batchVars
  <1>1. CASE CleanupDispatched
    <2>1. PICK old \in SUBSET {e \in Events : status[e] = "dispatched"} :
            status' = [e \in Events |-> IF e \in old THEN "deleted" ELSE status[e]]
      BY <1>1 DEF CleanupDispatched
    <2>2. UNCHANGED <<created, attempts, clock, held, outcome, job, accepted, ran, lost, redone, faults>>
      BY <1>1 DEF CleanupDispatched, queueVars
    <2>3. TypeOK' /\ ExclusiveClaim' /\ OutcomeOfHeld' /\ AttemptsLeft' /\ JobWasAccepted'
      BY <2>1, <2>2 DEF TypeOK, Status, ExclusiveClaim, OutcomeOfHeld, AttemptsLeft, JobWasAccepted
    <2>4. \A e \in Events : (Settled(e)' <=> Settled(e)) /\ (Sent(e)' <=> Sent(e))
      BY <2>1, <2>2 DEF Settled, Sent
    <2>5. SentWasAccepted' /\ JobsCounted'
      BY <2>2, <2>4 DEF SentWasAccepted, JobsCounted, Accounted
    <2> QED
      BY <2>3, <2>5
  <1>2. ASSUME NEW e \in Events, RunJob(e) \/ LoseJob(e)
        PROVE  IInv'
    <2>1. TypeOK'
      BY <1>2 DEF RunJob, LoseJob, TypeOK, JobStatus
    <2>2. ExclusiveClaim' /\ OutcomeOfHeld' /\ AttemptsLeft' /\ JobsCounted'
      BY <1>2 DEF RunJob, LoseJob, ExclusiveClaim, OutcomeOfHeld, AttemptsLeft,
                  JobsCounted, Sent, Settled
    <2>3. JobWasAccepted' /\ SentWasAccepted'
      BY <1>2 DEF RunJob, LoseJob, TypeOK, JobWasAccepted, SentWasAccepted,
                  Sent, Settled, Accounted
    <2> QED
      BY <2>1, <2>2, <2>3
  <1> QED
    BY <1>1, <1>2

\* Every step preserves the inductive invariant.
LEMMA NextPreserves == IInv /\ [Next]_vars => IInv'
  <1> SUFFICES ASSUME IInv, [Next]_vars PROVE IInv'
    OBVIOUS
  <1>1. ASSUME NEW e \in Events, StageAdd(e) \/ FinishTransaction(e) PROVE IInv'
    BY <1>1, ProducerPreserves
  <1>2. ASSUME NEW r \in Relays, RelayStep(r) PROVE IInv'
    BY <1>2, SelectPreserves, SendPreserves, FailurePreserves, CommitPreserves
       DEF RelayStep
  <1>3. ASSUME NEW r \in Relays, RollBack(r) PROVE IInv'
    BY <1>3, RollBackPreserves
  <1>4. CASE CleanupDispatched \/ \E e \in Events : RunJob(e) \/ LoseJob(e)
    BY <1>4, OthersPreserve
  <1>5. CASE UNCHANGED vars
    BY <1>5 DEF vars, IInv, TypeOK, ExclusiveClaim, OutcomeOfHeld, AttemptsLeft,
                JobWasAccepted, SentWasAccepted, JobsCounted, Sent, Settled, Accounted
  <1> QED
    BY <1>1, <1>2, <1>3, <1>4, <1>5 DEF Next

\* The inductive invariant holds in every reachable state.
THEOREM Invariance == Spec => []IInv
  BY InitEstablishes, NextPreserves, PTL DEF Spec

-----------------------------------------------------------------------------
\* No column, lock or counter leaves its range; in particular attempts never
\* exceeds outbox_max_attempts, however batches roll back and are repeated.
THEOREM TypeCorrect == Spec => []TypeOK
  <1>1. IInv => TypeOK
    BY DEF IInv
  <1> QED
    BY <1>1, Invariance, PTL

\* SKIP LOCKED gives every pending row to at most one open batch.
THEOREM ClaimsAreExclusive == Spec => []ExclusiveClaim
  <1>1. IInv => ExclusiveClaim
    BY DEF IInv
  <1> QED
    BY <1>1, Invariance, PTL

\* A second job for a row needs a batch that forgot the first one.
THEOREM OneJobPerFault == Spec => []DuplicatesNeedAFault
  <1>1. IInv => DuplicatesNeedAFault
    BY DEF IInv, TypeOK, JobsCounted, DuplicatesNeedAFault
  <1> QED
    BY <1>1, Invariance, PTL

\* A row marked dispatched, or purged since, stands for a job that is in the
\* queue, was run, or was lost by Redis.
THEOREM NothingDispatchedIsForgotten == Spec => []DispatchedIsAccountedFor
  <1>1. IInv => DispatchedIsAccountedFor
    BY DEF IInv, SentWasAccepted, Settled, Accounted, DispatchedIsAccountedFor
  <1> QED
    BY <1>1, Invariance, PTL

\* Nothing touches a parked row again, and only MaxAttempts committed failures
\* park one.
THEOREM ParkingIsFinal == Spec => ParkedIsFinal
  <1> DEFINE Step == \A e \in Events :
               /\ status[e] = "parked" => status'[e] = "parked" /\ attempts'[e] = attempts[e]
               /\ status'[e] = "parked" => attempts'[e] >= MaxAttempts
  <1>1. ASSUME IInv, IInv', [Next]_vars PROVE [Step]_vars
    <2> SUFFICES ASSUME NEW e \in Events, status[e] = "parked"
                 PROVE  status'[e] = "parked" /\ attempts'[e] = attempts[e]
      BY <1>1 DEF IInv, AttemptsLeft
    <2> USE <1>1 DEF IInv, TypeOK, rowVars
    <2>1. CASE \E f \in Events : StageAdd(f) \/ FinishTransaction(f)
      BY <2>1 DEF StageAdd, FinishTransaction
    <2>2. ASSUME NEW r \in Relays, Commit(r)
          PROVE  status'[e] = "parked" /\ attempts'[e] = attempts[e]
      <3>1. e \notin held[r]
        BY DEF ExclusiveClaim
      <3> QED
        BY <2>2, <3>1 DEF Commit
    <2>3. CASE \E r \in Relays : RollBack(r) \/ Select(r)
      BY <2>3 DEF RollBack, Select
    <2>4. CASE \E r \in Relays, f \in Events : Send(r, f) \/ SendFails(r, f) \/ SendAnswerLost(r, f)
      BY <2>4 DEF Send, SendFails, SendAnswerLost
    <2>5. CASE CleanupDispatched \/ \E f \in Events : RunJob(f) \/ LoseJob(f)
      BY <2>5 DEF CleanupDispatched, RunJob, LoseJob
    <2>6. CASE UNCHANGED vars
      BY <2>6 DEF vars
    <2> QED
      BY <1>1, <2>1, <2>2, <2>3, <2>4, <2>5, <2>6 DEF Next, RelayStep
  <1> QED
    BY <1>1, Invariance, PTL DEF Spec, ParkedIsFinal

-----------------------------------------------------------------------------
(* The refinement of TaskDelivery *)

\* Enqueueing an owed task is a handover, and hands over nothing else.
LEMMA EnqueueHandsOver ==
  ASSUME IInv, NEW e \in Events, status[e] = "pending", Enqueue(e), UNCHANGED status
  PROVE  Delivery!HandOver(e)
  <1>1. handedOf' = handedOf \cup {e}
    BY EnqueueEffect DEF IInv, handedOf
  <1> QED
    BY <1>1 DEF Delivery!HandOver, promiseOf

\* Every step of the relay is a step of TaskDelivery or a stutter.
LEMMA StepRefines == IInv /\ [Next]_vars => [Delivery!Next]_(Delivery!vars)
  <1> SUFFICES ASSUME IInv, [Next]_vars PROVE [Delivery!Next]_(Delivery!vars)
    OBVIOUS
  <1> USE DEF rowVars, queueVars, batchVars
  <1>1. ASSUME NEW e \in Events, StageAdd(e) PROVE [Delivery!Next]_(Delivery!vars)
    <2>1. UNCHANGED <<promiseOf, handedOf>>
      BY <1>1 DEF StageAdd, promiseOf, handedOf, IInv, TypeOK
    <2> QED
      BY <2>1 DEF Delivery!vars
  <1>2. ASSUME NEW e \in Events, FinishTransaction(e) PROVE [Delivery!Next]_(Delivery!vars)
    <2>1. UNCHANGED handedOf
      BY <1>2 DEF FinishTransaction, handedOf
    <2>2. CASE status' = [status EXCEPT ![e] = "void"]
      <3>1. UNCHANGED promiseOf
        BY <1>2, <2>2 DEF FinishTransaction, promiseOf, IInv, TypeOK
      <3> QED
        BY <2>1, <3>1 DEF Delivery!vars
    <2>3. CASE status' = [status EXCEPT ![e] = "pending"]
      <3>1. promiseOf[e] = "none" /\ promiseOf' = [promiseOf EXCEPT ![e] = "owed"]
        BY <1>2, <2>3 DEF FinishTransaction, promiseOf, IInv, TypeOK
      <3> QED
        BY <2>1, <3>1 DEF Delivery!Next, Delivery!Promise
    <2> QED
      BY <1>2, <2>2, <2>3 DEF FinishTransaction
  <1>3. ASSUME NEW r \in Relays, Select(r) \/ RollBack(r) PROVE [Delivery!Next]_(Delivery!vars)
    <2>1. UNCHANGED <<promiseOf, handedOf>>
      BY <1>3 DEF Select, RollBack, promiseOf, handedOf
    <2> QED
      BY <2>1 DEF Delivery!vars
  <1>4. ASSUME NEW r \in Relays, NEW e \in Events, Send(r, e) \/ SendAnswerLost(r, e)
        PROVE  [Delivery!Next]_(Delivery!vars)
    <2>1. status[e] = "pending" /\ Enqueue(e) /\ UNCHANGED status
      BY <1>4 DEF Send, SendAnswerLost, IsNext, IInv, ExclusiveClaim
    <2> QED
      BY <2>1, EnqueueHandsOver DEF Delivery!Next
  <1>5. ASSUME NEW r \in Relays, NEW e \in Events, SendFails(r, e)
        PROVE  [Delivery!Next]_(Delivery!vars)
    <2>1. UNCHANGED <<promiseOf, handedOf>>
      BY <1>5 DEF SendFails, promiseOf, handedOf
    <2> QED
      BY <2>1 DEF Delivery!vars
  <1>6. ASSUME NEW r \in Relays, Commit(r) PROVE [Delivery!Next]_(Delivery!vars)
    <2> DEFINE kept == {e \in held[r] : status'[e] = "dispatched"}
    <2> DEFINE abandoned == {e \in held[r] : status'[e] = "parked"}
    <2>1. held[r] \subseteq Events /\ \A e \in held[r] : status[e] = "pending"
      BY DEF IInv, TypeOK, ExclusiveClaim
    <2>2. /\ \A e \in Events \ held[r] : status'[e] = status[e]
          /\ \A e \in held[r] : status'[e] \in {"dispatched", "parked", "pending"}
          /\ \A e \in held[r] : status'[e] = "dispatched" => outcome[r][e] = "sent"
      BY <1>6, <2>1 DEF Commit, StatusAfter
    <2>3. UNCHANGED handedOf
      BY <1>6 DEF Commit, handedOf
    <2>4. kept \subseteq handedOf
      BY <2>1, <2>2 DEF IInv, SentWasAccepted, Sent, handedOf
    <2>5. kept \cap abandoned = {} /\ \A e \in kept \cup abandoned : promiseOf[e] = "owed"
      BY <2>1 DEF promiseOf
    <2>6. promiseOf' = [e \in Events |-> IF e \in kept THEN "kept"
                                         ELSE IF e \in abandoned THEN "abandoned"
                                         ELSE promiseOf[e]]
      BY <2>1, <2>2 DEF promiseOf
    <2>7. Delivery!Resolve(kept, abandoned)
      BY <2>3, <2>4, <2>5, <2>6 DEF Delivery!Resolve
    <2>8. kept \in SUBSET Events /\ abandoned \in SUBSET Events
      BY <2>1
    <2> QED
      BY <2>7, <2>8 DEF Delivery!Next
  <1>7. CASE CleanupDispatched
    <2>1. UNCHANGED <<promiseOf, handedOf>>
      BY <1>7 DEF CleanupDispatched, promiseOf, handedOf, IInv, TypeOK
    <2> QED
      BY <2>1 DEF Delivery!vars
  <1>8. CASE UNCHANGED vars \/ \E e \in Events : RunJob(e) \/ LoseJob(e)
    <2>1. UNCHANGED <<promiseOf, handedOf>>
      BY <1>8 DEF vars, RunJob, LoseJob, promiseOf, handedOf
    <2> QED
      BY <2>1 DEF Delivery!vars
  <1> QED
    BY <1>1, <1>2, <1>3, <1>4, <1>5, <1>6, <1>7, <1>8 DEF Next, RelayStep

\* Any number of relays, with rollbacks, lost answers and lost jobs, keep the
\* promise TaskDelivery makes to the rest of the program.
THEOREM RelayImplementsDelivery == Spec => KeepsThePromise
  <1>1. Init => Delivery!Init
    BY DEF Init, Delivery!Init, promiseOf, handedOf
  <1> QED
    BY <1>1, StepRefines, Invariance, PTL DEF Spec, KeepsThePromise, Delivery!Spec
=============================================================================
