\* Three requests at a time on one session: tabs that race, wait and fail,
\* logins under way, resets and closings that overlap them.
CONSTANTS
  Sessions = {s1}
  Handlers = {h1, h2, h3}
  TTL = 2
  Grace = 1
  MaxTime = 3
  MaxGen = 2
  MaxSweeps = 2
SPECIFICATION Spec
SYMMETRY Symmetry
INVARIANTS TypeOK OneRotationPerGeneration ReuseMeansSuperseded
INVARIANTS ResetReachesEverySession ClosedAccountStopsRotating
PROPERTIES EndedSessionsStayEnded
CHECK_DEADLOCK FALSE
