SPECIFICATION Spec
CONSTANTS
  Senders = {s1, s2}
  Handlers = {}
  Poll = poll
  Agreements = {a1, a2}
  MaxAttempts = 1
  Failures = {"lost_answer", "refused", "database", "sender_crash", "reader_fails"}
  Karbons = {"connected", "mock", "no_target"}
  NoAgreement = NoAgreement
SYMMETRY Symmetry
INVARIANTS SignedOnlyIfCompleted
CHECK_DEADLOCK FALSE
