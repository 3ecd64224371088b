SPECIFICATION RulesSpec
CONSTANTS
  None = None
  FeeRules <- RulesOnFile
  MaxRules = 3
  PriorFees = {None, 0, 1000, 2049}
  Overrides = {999, 1100, 2253}
  Threshold = 100000
  FirstDay = 740591 \* 1 November 2027
  LastDay = 741000  \* 13 December 2028
  MaxDocuments = 2
  MaxPhrases = 3
  MaxFindings = 3
  Scores = {9000, 10000}
  ReadKinds = {"PRIOR_YEAR_SIGNED_LETTER", "NOTICE_OF_ASSESSMENT"}
INVARIANTS UnreadIsAlone
CHECK_DEADLOCK FALSE
