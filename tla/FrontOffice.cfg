SPECIFICATION Spec
CONSTANTS
  None = None
  FeeRules <- RulesOnFile
  MaxRules = 3
  PriorFees = {None, 0, 1000, 2049}
  Overrides = {999, 1100, 2253}
  Threshold = 100000
  FirstDay = 740591 \* 1 November 2027
  LastDay = 741000  \* 13 December 2028
  MaxDocuments = 2
  MaxPhrases = 3
  MaxFindings = 3
  Scores = {9000, 10000}
  ReadKinds = {"PRIOR_YEAR_SIGNED_LETTER", "NOTICE_OF_ASSESSMENT"}
  Secrets = {k1, k2}
  Granted = k2
  Admins = {a1, a2}
  MaxOrders = 3
  MaxResolves = 1
  People = {p1}
  WorkItems = {w1, w2, w3}
  OwnArea = OwnArea
  ItemLimit = 3
  MaxPages = 3
  MaxRequests = 2
  MaxTrouble = 2
  MaxMoves = 1
  Keys = {k1, k2}
  Excluded = {k2}
  NoKey = NoKey
  Names = {n1}
  Contacts = {p1}
  Imports = {m1, m2}
  Editors = {c1}
  MaxClients = 3
  MaxEdits = 2
  MaxNews = 1
  MaxUpsets = 1
  Letters = {l1, l2}
  Batches = {b1, b2}
  Clerks = {q1, q2}
  OneKey = OneKey
  MaxSubmits = 2
  MaxPurges = 1
  MaxCrashes = 1
  Hands = {h1, h2}
  MaxCorrections = 2
  MaxDrafts = 2
INVARIANTS FeeByTheBook DeadlineByTheRule NothingUnreadIsReady ChosenOnEvidence TestModeHolds LibraryIsHonest PublishedOnce EverybodyArrives OneDraftEach SignedAsRead
CHECK_DEADLOCK FALSE
