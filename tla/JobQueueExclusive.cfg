SPECIFICATION FairSpec
CONSTANTS
  k1 = k1
  k1again = k1again
  k2 = k2
  Reruns <- RerunsOfK1
  Keys = {k1, k2}
  JobIds = {j1, j2}
  Workers = {w1, w2}
  Concurrency = 1
  Callers = {c1, c2}
  Admins = {}
  MaxAttempts = 2
  SlowHandlers = FALSE
  StalePages = FALSE
  NoKey = NoKey
  NoJob = NoJob
  NoWorker = NoWorker
INVARIANTS ExclusiveJobs
PROPERTIES KeepsLedger Settles
CHECK_DEADLOCK FALSE
