SPECIFICATION Spec
CONSTANTS
  Users = {u1, u2}
  Files = {f1, f2}
  Tabs = {t1, t2}
  MaxVersions = 3
  MaxPresses = 4
  Recipients = {r1, r2}
  Tellers = {w1, w2}
  MaxNotices = 2
  MaxAttempts = 2
  DrainLimit = 1
  Engagements = {e1, e2}
  Statuses = {s1, s2}
  Unmapped = Unmapped
  NoStatus = NoStatus
  MaxChanges = 3
  MaxFaults = 2
  p1 = p1
  p2 = p2
  p3 = p3
  i1 = i1
  i2 = i2
  Papers = {p1, p2, p3}
  Readable = {p1, p2}
  Textless = {p2}
  NoPaper = NoPaper
  PriorItems = {i1, i2}
  ItemLimit = 1
  Filings <- MCFilings
  UnknownKind = UnknownKind
  Kinds = {k1, k2}
  TextKind = k1
  ScanLimit = 2
  Scans = {1, 2}
  MaxTries = 4
  MaxCopies = 2
  MaxAsks = 2
  MaxSlips = 1
INVARIANTS NoTwins CompleteMeansSeen KeptWhileNeeded
PROPERTIES NoticesAreSettled StatusIsFollowed ScanIsFollowed RetentionEnds
CHECK_DEADLOCK FALSE
