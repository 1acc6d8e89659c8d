\* Two requests and the purges over the rows of a task and of its retry, whose
\* jobs are tried twice, killed in the middle and swept.
CONSTANTS
  Events = {e1, e2}
  Roots = {e1}
  Admins = {a1, a2}
  MaxJobs = 1
  MaxRetries = 2
  MaxCrashes = 1
  NoRun = NoRun
SPECIFICATION FairSpec
INVARIANTS TypeOK OneEventPerRetry AnswersAreTrue NoFailureVanishes OnlyDeadJobsAreRecorded
PROPERTY EveryTaskEnds
CHECK_DEADLOCK FALSE
