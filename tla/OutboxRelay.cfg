\* Two relays, two rows, batches of two, one rollback or lost answer, one lost
\* job: safety, refinement and liveness.
CONSTANTS
  Events = {e1, e2}
  Relays = {r1, r2}
  BatchSize = 2
  MaxAttempts = 2
  MaxFaults = 1
  MaxLosses = 1
SPECIFICATION FairSpec
INVARIANTS TypeOK DuplicatesNeedAFault DispatchedIsAccountedFor
PROPERTIES KeepsThePromise EventuallyRun
CHECK_DEADLOCK FALSE
