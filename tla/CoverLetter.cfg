SPECIFICATION Spec
CONSTANTS
  Users = {u1, u2}
  System = system
  MaxSelections = 1
  MaxVersions = 2
  MaxPresses = 3
  MaxFaults = 1
SYMMETRY Symmetry
INVARIANTS FiledWasApproved OneLiveLetter LastOneStarts
CHECK_DEADLOCK FALSE
