SPECIFICATION IntakeSpec
CONSTANTS
  Items = {i1}
  Triggers = {g1, g2}
  Types = {y1, y2}
  NeedsYearEnd = {y2}
  Forms = {f1}
  ThisYear = 2
  MaxBorn = 2
  MaxForms = 1
  MaxRuns = 2
  MaxMishaps = 1
INVARIANTS RolledOnce
PROPERTIES RolledIsPrepared
CHECK_DEADLOCK FALSE
