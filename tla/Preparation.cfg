SPECIFICATION Spec
CONSTANTS
  Jobs = {job}
  Requests = {request}
  MaxRuns = 3
  MaxPresses = 2
  RowIds = {1, 2}
INVARIANTS DecisionsStand  LastAnswerCounts
CHECK_DEADLOCK FALSE
