SPECIFICATION Spec
CONSTANTS
  k1 = k1
  k1again = k1again
  k2 = k2
  Reruns <- RerunsOfK1
  Keys = {k1, k1again}
  JobIds = {j1, j2}
  Workers = {w1, w2}
  Concurrency = 1
  Callers = {c1}
  Admins = {a1}
  MaxAttempts = 2
  SlowHandlers = TRUE
  StalePages = TRUE
  NoKey = NoKey
  NoJob = NoJob
  NoWorker = NoWorker
SYMMETRY Symmetry
INVARIANTS NothingLost
CHECK_DEADLOCK FALSE
