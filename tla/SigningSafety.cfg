SPECIFICATION FairSpec
CONSTANTS
  Senders = {s1}
  Handlers = {h1}
  Poll = poll
  Agreements = {a1, a2}
  MaxAttempts = 2
  Failures = {"sender_crash", "reader_fails", "webhook_lost", "filing_fails"}
  Karbons = {"connected"}
  NoAgreement = NoAgreement
INVARIANTS OneLiveAgreement
PROPERTIES SentWhileApproved SignatureNoticed SignedGetsFiled
CHECK_DEADLOCK FALSE
