SPECIFICATION FairSpec
CONSTANTS
  MaxDocuments = 1
  MaxDrafts = 3
  MaxTries = 2
  MaxPresses = 1
  MaxFaults = 1
  Concurrency = 2
  Failures = {"retryable_error", "permanent_error", "worker_dies"}
INVARIANTS ReviewHasDraft
PROPERTIES Unparked
CHECK_DEADLOCK FALSE
