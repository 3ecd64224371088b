SPECIFICATION Spec
CONSTANTS
  Users = {u1, u2}
  System = system
  Generators = {g1}
  Exceptions = {e1}
  MaxVersions = 2
  MaxPresses = 4
  NoUser = NoUser
SYMMETRY Symmetry
INVARIANTS WordingApprovedByAnother
PROPERTIES ApprovedStays KeepsRegister
CHECK_DEADLOCK FALSE
