------------------------------ MODULE Extraction ------------------------------
(***************************************************************************)
(* What a document of a client is read as and what is taken from it        *)
(* (packages/integrations/src/extraction/classify.ts, deterministic.ts;    *)
(* packages/services/src/client-document-scan.ts), and which of the values *)
(* that several documents give for one token is kept (document-merge.ts).  *)
(*                                                                         *)
(* A text is the set of phrases it shows, of which one stands for all that *)
(* a rule takes alike; the patterns find whatever label they look for.     *)
(***************************************************************************)
EXTENDS Integers, FiniteSets, Sequences, FiniteSetsExt, SequencesExt

CONSTANTS
  MaxPhrases,  \* how many of the phrases that rules look for a text shows
  MaxFindings, \* how many documents give a value for one token
  Scores,      \* what documents are worth, in ten-thousandths
  ReadKinds    \* what the documents were read as

FullScore == 10000

ASSUME ExtractionAssumption == MaxPhrases \in Nat /\ MaxFindings \in Nat /\ Scores \subseteq 0..FullScore

(* In alphabetical order. *)
DocumentKinds ==
  <<"ADJUSTING_JOURNAL_ENTRIES", "COMPILATION_ENGAGEMENT_REPORT", "COMPILED_FINANCIAL_STATEMENTS",
    "FEDERAL_FILING_AUTHORIZATION", "FINAL_T2_RETURN", "INSTALMENT_SCHEDULE", "NOTICE_OF_ASSESSMENT",
    "PAYMENT_SUMMARY", "PRIOR_YEAR_ENGAGEMENT_LETTER", "PRIOR_YEAR_SIGNED_LETTER", "T1_RETURN", "T183",
    "TRIAL_BALANCE">>

LetterKinds == {"PRIOR_YEAR_ENGAGEMENT_LETTER", "PRIOR_YEAR_SIGNED_LETTER"}

Rule(kind, weight, all, any, none) == [kind |-> kind, weight |-> weight, all |-> all, any |-> any, none |-> none]

KindRules ==
  {Rule("PRIOR_YEAR_SIGNED_LETTER", 12, {"engagement letter"}, {"signed by:"}, {}),
   Rule("PRIOR_YEAR_ENGAGEMENT_LETTER", 11, {}, {"t2 engagement letter"}, {}),
   Rule("PRIOR_YEAR_ENGAGEMENT_LETTER", 8, {}, {"engagement letter"}, {}),
   Rule("FEDERAL_FILING_AUTHORIZATION", 9, {}, {"t183corp"}, {}),
   Rule("T183", 7, {}, {"t183"}, {}),
   Rule("NOTICE_OF_ASSESSMENT", 9, {}, {"notice of assessment"}, {}),
   Rule("FINAL_T2_RETURN", 9, {}, {"corporation income tax return"}, {}),
   Rule("T1_RETURN", 8, {}, {"t1 general"}, {}),
   Rule("COMPILATION_ENGAGEMENT_REPORT", 9, {}, {"compilation engagement report", "we have compiled"},
        {"balance sheet"}),
   Rule("COMPILED_FINANCIAL_STATEMENTS", 7, {},
        {"balance sheet", "notice to reader", "compilation engagement report"}, {}),
   Rule("TRIAL_BALANCE", 9, {"trial balance"}, {"debit"}, {}),
   Rule("ADJUSTING_JOURNAL_ENTRIES", 9, {}, {"adjusting entries"}, {}),
   Rule("INSTALMENT_SCHEDULE", 8, {}, {"instalment schedule"}, {}),
   Rule("PAYMENT_SUMMARY", 6, {}, {"payment summary"}, {})}

FileNameHints ==
  <<"PRIOR_YEAR_ENGAGEMENT_LETTER", "FINAL_T2_RETURN", "COMPILED_FINANCIAL_STATEMENTS", "TRIAL_BALANCE",
    "NOTICE_OF_ASSESSMENT">>

(* A phrase shows whatever phrase it contains. *)
Containing(phrases) ==
  phrases \union (IF "t2 engagement letter" \in phrases THEN {"engagement letter"} ELSE {})
          \union (IF "t183corp" \in phrases THEN {"t183"} ELSE {})

(* What the manifest of a T2 letter declares; nothing while no version of it *)
(* is active.                                                                *)
WantedTokens ==
  {"corporation.legal_name", "corporation.business_number", "corporation.year_end", "signer.officer_name",
   "signer.officer_title", "signer.officer_email", "pricing.t2_fee", "pricing.compilation_fee"}

KindQuestions ==
  LET phrases == UNION {r.all \union r.any : r \in KindRules}
  IN  [about : {"kind"}, text : {Containing(p) : p \in UNION {kSubset(n, phrases) : n \in 0..MaxPhrases}},
       fileName : UNION {kSubset(n, ToSet(FileNameHints)) : n \in 0..2}, wanted : {WantedTokens}]
      \union [about : {"kind"}, text : {Containing({p}) : p \in phrases}, fileName : {{}}, wanted : {{}}]

-----------------------------------------------------------------------------
Fits(rule, text) ==
  /\ rule.none \intersect text = {}
  /\ rule.all \subseteq text
  /\ rule.any \intersect text # {}

FirstOf(kinds, order) == order[Min({i \in DOMAIN order : order[i] \in kinds})]

(* As if the file's name were asked about everything that fits. *)
NamedAtAll(matches, best, fileName) == {r.kind : r \in matches} \intersect fileName

NamedAmongEquals(matches, best, fileName) == {r.kind : r \in best} \intersect fileName

(* The weightiest rule decides, among equals the file's name and then the    *)
(* alphabet; where no rule fits, the name says what the document may be.     *)
classifyDocument(text, fileName) ==
  LET matches == {r \in KindRules : Fits(r, text)}
      best == {r \in matches : \A other \in matches : r.weight >= other.weight}
      named == NamedAmongEquals(matches, best, fileName)
  IN  CASE best # {} -> [kind |-> FirstOf(IF named # {} THEN named ELSE {r.kind : r \in best}, DocumentKinds),
                         filenameOnly |-> FALSE]
        [] best = {} /\ fileName # {} -> [kind |-> FirstOf(fileName, FileNameHints), filenameOnly |-> TRUE]
        [] OTHER -> [kind |-> "UNKNOWN", filenameOnly |-> FALSE]

(* The tokens each set of patterns supports. *)
LetterPatterns ==
  {"corporation.legal_name", "corporation.business_number", "corporation.year_end", "signer.officer_name",
   "signer.officer_title", "signer.officer_email", "pricing.t2_fee", "pricing.compilation_fee",
   "pricing.t1_fee", "trust.legal_name"} \* and others no T2 letter declares, or of the same kind

CraPatterns ==
  {"corporation.legal_name", "corporation.business_number", "corporation.year_end", "signer.officer_name",
   "signer.officer_title"}

(* extractorFor, supports. *)
Supported(kind) ==
  CASE kind \in LetterKinds -> LetterPatterns
    [] kind \in {"FINAL_T2_RETURN", "NOTICE_OF_ASSESSMENT", "COMPILED_FINANCIAL_STATEMENTS",
                 "COMPILATION_ENGAGEMENT_REPORT", "FEDERAL_FILING_AUTHORIZATION", "T1_RETURN", "T183"} -> CraPatterns
    [] OTHER -> {}

(* Of a document whose client is beyond doubt; one that only its name        *)
(* describes is refused.                                                     *)
readDocument(question) ==
  LET found == classifyDocument(question.text, question.fileName)
  IN  [about |-> "kind", kind |-> found.kind,
       read |-> IF found.filenameOnly THEN {} ELSE question.wanted \intersect Supported(found.kind)]

-----------------------------------------------------------------------------
(* What documents say of one token.  A value is a number, the first in the   *)
(* alphabet the smallest; 1 and 3 are one value spelled in two ways, 0 is    *)
(* blank.  The row may hold what a person answered.                          *)
Blank == 0
Says(value) == value % 2

Precedence ==
  <<"PRIOR_YEAR_SIGNED_LETTER", "PRIOR_YEAR_ENGAGEMENT_LETTER", "NOTICE_OF_ASSESSMENT", "FINAL_T2_RETURN",
    "T1_RETURN", "FEDERAL_FILING_AUTHORIZATION", "T183", "COMPILED_FINANCIAL_STATEMENTS",
    "COMPILATION_ENGAGEMENT_REPORT", "TRIAL_BALANCE">>

KindRank(kind) == Min({i \in DOMAIN Precedence : Precedence[i] = kind} \union {Len(Precedence) + 1})

FindingQuestions ==
  LET findings == [value : Blank..3, score : Scores, kind : ReadKinds]
      alike == [value : 1..3, score : {FullScore}, kind : {"NOTICE_OF_ASSESSMENT"}]
  IN  [about : {"findings"}, findings : SeqOf(findings, MaxFindings) \union SeqOf(alike, MaxFindings + 1),
       answered : {FALSE}]
      \union [about : {"findings"}, findings : SeqOf(alike, MaxFindings), answered : {TRUE}]

Before(a, b) == \E i \in DOMAIN a : a[i] < b[i] /\ \A j \in 1..(i - 1) : a[j] = b[j]
FirstByRank(S, rank) == CHOOSE x \in S : \A y \in S \ {x} : Before(rank[x], rank[y]) \/ rank[x] = rank[y]

(* As if the number of documents came before what each is worth. *)
Numerous(score, documents, rank, value) == <<-documents, -score, rank, value>>

betterGroup(score, documents, rank, value) == <<-score, -documents, rank, value>>

(* valuesAgree groups what differs in its spelling only, under the spelling  *)
(* read first.                                                               *)
Standing(findings, group) ==
  betterGroup(Max({findings[i].score : i \in group}), Cardinality(group),
              Min({KindRank(findings[i].kind) : i \in group}), findings[Min(group)].value)

(* Within a group the best document supplies the exact text. *)
Authority(finding) == <<-finding.score, KindRank(finding.kind), finding.value>>

mergeDocumentFindings(findings) ==
  LET said == {i \in DOMAIN findings : findings[i].value # Blank}
      groups == {{j \in said : Says(findings[j].value) = Says(findings[i].value)} : i \in said}
      winner == FirstByRank(groups, [group \in groups |-> Standing(findings, group)])
      best == FirstByRank(winner, [i \in winner |-> Authority(findings[i])])
  IN  IF said = {} THEN [value |-> Blank, disagreement |-> FALSE]
      ELSE [value |-> findings[best].value, disagreement |-> Cardinality(groups) > 1]

(* A row that is not written raises no question; only tokens that the letter *)
(* declares are read at all.                                                 *)
writeFindings(question) ==
  LET merged == mergeDocumentFindings(question.findings)
      written == merged.value # Blank /\ ~question.answered
  IN  [about |-> "findings", value |-> IF written THEN merged.value ELSE Blank,
       asked |-> written /\ merged.disagreement]
=============================================================================
