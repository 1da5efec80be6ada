SPECIFICATION FairSpec
CONSTANTS
  j1 = j1
  c1 = c1
  w1 = w1
  w2 = w2
  NoJob = NoJob
  NoWorker = NoWorker
  Jobs = {j1, c1}
  CleanupJobs = {c1}
  Workers = {w1, w2}
  MaxAttempts = 2
INVARIANTS
  TypeOK
  RowConsistent
  QueuedIsClaimable
  AttemptsAccounted
PROPERTIES
  OnlyHolderOrExpiry
  ImplementsLifecycle
  DueIsClaimed
  JobsSettle
