-------------------------------- MODULE Rules --------------------------------
(***************************************************************************)
(* The firm's configurable rules at work: a fee calculated from the        *)
(* pricing rules the database holds, perhaps typed over afterwards         *)
(* (packages/services/src/pricing-service.ts), and a deadline evaluated    *)
(* from a date rule (packages/dates/src/rule-engine.ts, default-rules.ts); *)
(* a field of the letter, printed and compared with last year's; and the   *)
(* documents of a client, among which last year's letter is looked for, of *)
(* which each is read for what it is, and which may not agree.             *)
(* Which of these rows are written, and when, is Preparation's.            *)
(***************************************************************************)
EXTENDS Calendar, Fees, Values, Evidence, Extraction

CONSTANTS
  FeeRules,      \* the pricing rules somebody may have stored
  MaxRules,      \* how many pricing rules the firm holds at once
  PriorFees,     \* last year's fee, None when no document showed one
  Overrides,     \* amounts a person types over a fee
  Threshold,     \* the rise that needs a partner, in ten-thousandths of one per cent
  FirstDay, LastDay \* the days a year-end or a sending may fall on

ASSUME RulesAssumption ==
  /\ None \notin Int \union FeeRules
                \union {"last", "this", "AsPrinted", "RESOLVED", "isSelfEmployed", "qualifies"}
  /\ \A rule \in FeeRules : Storable(rule)
  /\ MaxRules \in Nat /\ Threshold \in Nat
  /\ PriorFees \ {None} \subseteq Nat /\ Overrides \subseteq Nat
  /\ FirstDay \in Nat /\ LastDay \in Nat

VARIABLES
  asked,   \* the question: what is read before an answer is worked out
  answer   \* the stored row, or None before the first calculation

enquiry == <<asked, answer>>

-----------------------------------------------------------------------------
(* Fees. *)

(* The engagement: a T2 of one client of one partner, on day 10. *)
context == [engagementType |-> "T2", feeKind |-> "T2_PREPARATION", clientId |-> "client",
            clientGroup |-> "group", partnerUserId |-> "partner", asOf |-> 10]

GlobalRule ==
  [id |-> 1, level |-> "GLOBAL", isActive |-> TRUE, engagementType |-> None, feeKind |-> None,
   clientId |-> None, clientGroup |-> None, partnerUserId |-> None, method |-> "PERCENTAGE",
   percentage |-> 35000, fixedAmount |-> None, exactTarget |-> None, skipRounding |-> FALSE,
   effectiveFrom |-> 1, effectiveTo |-> None]

(* Rules as a firm may have stored them: one or two of each level, in force, *)
(* retired, over and about somebody else.                                    *)
RulesOnFile ==
  {GlobalRule,
   [GlobalRule EXCEPT !.id = 2, !.method = "FIXED_AMOUNT", !.percentage = None, !.fixedAmount = 701],
   [GlobalRule EXCEPT !.id = 3, !.effectiveFrom = 5, !.percentage = 100000],
   [GlobalRule EXCEPT !.id = 4, !.isActive = FALSE],
   [GlobalRule EXCEPT !.id = 5, !.level = "ENGAGEMENT_TYPE", !.engagementType = "T2",
                      !.method = "NO_INCREASE", !.percentage = None],
   [GlobalRule EXCEPT !.id = 6, !.level = "ENGAGEMENT_TYPE", !.engagementType = "T3"],
   [GlobalRule EXCEPT !.id = 7, !.level = "PARTNER_OR_GROUP", !.clientGroup = "group",
                      !.percentage = 100000, !.skipRounding = TRUE],
   [GlobalRule EXCEPT !.id = 8, !.level = "CLIENT", !.clientId = "client",
                      !.method = "EXACT_TARGET", !.percentage = None, !.exactTarget = 2199],
   [GlobalRule EXCEPT !.id = 9, !.level = "CLIENT", !.clientId = "another"],
   [GlobalRule EXCEPT !.id = 10, !.level = "ONE_TIME_OVERRIDE", !.clientId = "client",
                      !.effectiveTo = 9]}

(* findMany gives the rows no order; their ids are the primary key. *)
FeeQuestions ==
  [about : {"fee"}, previousFee : PriorFees,
   rules : {r \in SeqOf(FeeRules, MaxRules) : IsInjective([i \in DOMAIN r |-> r[i].id])}]

(* What is stored of a calculation. *)
Stored(ruleId, previousFee, overridden, fee) ==
  [about |-> "fee", ruleId |-> ruleId, previousFee |-> previousFee,
   isManualOverride |-> overridden, isBlocked |-> fee.isBlocked, unroundedFee |-> fee.unroundedFee,
   roundedFee |-> fee.roundedFee, requiredApproval |-> fee.requiredApproval]

(* No rule applies: nothing is guessed, and the fee last year is not kept.   *)
CalculateFee ==
  /\ asked.about = "fee" /\ answer = None
  /\ LET rule == resolveRule(asked.rules, context)
     IN  answer' = IF rule = None THEN Stored(None, None, FALSE, Blocked)
                   ELSE Stored(rule.id, asked.previousFee, FALSE,
                               calculateFee(rule, asked.previousFee, None, Threshold))
  /\ UNCHANGED asked

(* A person types an amount: an exact price, rounded like any other.        *)
OverrideFee ==
  /\ answer # None /\ asked.about = "fee"
  /\ \E amount \in Overrides :
       answer' = Stored(answer.ruleId, answer.previousFee, TRUE,
                        calculateFee([GlobalRule EXCEPT !.method = "EXACT_TARGET",
                                                        !.percentage = None, !.exactTarget = amount],
                                     answer.previousFee, amount, Threshold))
  /\ UNCHANGED asked

-----------------------------------------------------------------------------
(* Deadlines. *)

Step(op, number) == [op |-> op, number |-> number]
FixedMonthDay(month, day) == [op |-> "FIXED_MONTH_DAY", month |-> month, day |-> day]

NoBranch == [whenFact |-> None]

DateRule(code, base, step, branch, roll) ==
  [code |-> code, base |-> base, steps |-> <<step>>, branch |-> branch,
   requiredFacts |-> {branch.whenFact} \ {None}, rollToBusinessDay |-> roll]

(* The seeded rules, one of each shape, and one the dates page could store. *)
DateRules ==
  {DateRule("t1.filing_deadline", "CALENDAR_YEAR_END", FixedMonthDay(4, 30),
            [whenFact |-> "isSelfEmployed", steps |-> <<FixedMonthDay(6, 15)>>], FALSE),
   DateRule("t1.information_due_date", "FILING_DEADLINE", Step("ADD_DAYS", -45), NoBranch, TRUE),
   DateRule("t1.t183_requested_by", "FILING_DEADLINE", Step("ADD_BUSINESS_DAYS", -5), NoBranch, FALSE),
   DateRule("t2.balance_due_date", "YEAR_END", Step("ADD_MONTHS", 2),
            [whenFact |-> "qualifies", steps |-> <<Step("ADD_MONTHS", 3)>>], FALSE),
   DateRule("t2.filing_deadline", "YEAR_END", Step("ADD_MONTHS", 6), NoBranch, FALSE),
   DateRule("t2.information_due_date", "YEAR_END", Step("ADD_MONTHS", 3), NoBranch, TRUE),
   DateRule("signing.first_reminder_date", "DATE_SENT", Step("ADD_BUSINESS_DAYS", 3), NoBranch, FALSE),
   [DateRule("firm.year_later", "YEAR_END", Step("ADD_YEARS", 1), NoBranch, FALSE)
      EXCEPT !.steps = <<Step("ADD_YEARS", 1), Step("END_OF_MONTH", 0)>>]}

(* One date is given, or none; it stands for whichever base a rule starts from. *)
DateQuestions ==
  [about : {"date"}, rule : DateRules, given : (FirstDay..LastDay) \union {None},
   fact : {TRUE, FALSE, None}]

resolveBase(rule, given) ==
  IF given # None /\ rule.base = "CALENDAR_YEAR_END" THEN utcDate(YearOf(given), 12, 31)
  ELSE given

applyStep(date, step) ==
  CASE step.op = "ADD_DAYS" -> date + step.number
    [] step.op = "ADD_BUSINESS_DAYS" -> addBusinessDays(date, step.number)
    [] step.op = "ADD_MONTHS" -> addMonths(date, step.number)
    [] step.op = "ADD_YEARS" -> addMonths(date, step.number * 12)
    [] step.op = "END_OF_MONTH" -> endOfMonth(date)
    [] step.op = "FIXED_MONTH_DAY" -> utcDate(YearOf(date) + 1, step.month, step.day)

(* Each step starts from the date the one before it came to. *)
applySteps(date, steps) ==
  LET after[n \in 0..Len(steps)] ==
        IF n = 0 THEN date ELSE applyStep(after[n - 1], steps[n])
  IN  after[Len(steps)]

Rolled(date) == addBusinessDays(date - 1, 1)

evaluateDateRule(rule, given, fact) ==
  LET base == resolveBase(rule, given)
      missing == IF fact = None THEN rule.requiredFacts ELSE {}
      steps == IF rule.branch # NoBranch /\ fact = TRUE THEN rule.branch.steps ELSE rule.steps
      date == applySteps(base, steps)
  IN  IF base = None \/ missing # {} THEN [about |-> "date", isBlocked |-> TRUE, result |-> None]
      ELSE [about |-> "date", isBlocked |-> FALSE,
            result |-> IF rule.rollToBusinessDay THEN Rolled(date) ELSE date]

EvaluateDate ==
  /\ asked.about = "date" /\ answer = None
  /\ answer' = evaluateDateRule(asked.rule, asked.given, asked.fact)
  /\ UNCHANGED asked

-----------------------------------------------------------------------------
(* Fields: the draft is rendered, and the check before the review reads the  *)
(* same rows again.                                                          *)
ReadField ==
  /\ asked.about = "field" /\ answer = None
  /\ \E printed \in LetterValues(asked) :
       answer' = [about |-> "field", printed |-> printed.value, report |-> check(asked)]
  /\ UNCHANGED asked

-----------------------------------------------------------------------------
(* Documents: a scan reads what the listing brought, judges each, and picks  *)
(* the one that is last year's letter.                                       *)
JudgeDocuments ==
  /\ asked.about = "documents" /\ answer = None
  /\ answer' = [about |-> "documents",
                selected |-> selectPriorYearDocument(asked.documents, asked.record),
                accepted |-> {i \in DOMAIN asked.documents :
                                decideBulkAccept(verifyCandidate(asked.documents[i], asked.record))}]
  /\ UNCHANGED asked

(* One of the accepted documents is read. *)
ReadDocument ==
  /\ asked.about = "kind" /\ answer = None
  /\ answer' = readDocument(asked)
  /\ UNCHANGED asked

(* All have been read: one value of a token is written. *)
MergeFindings ==
  /\ asked.about = "findings" /\ answer = None
  /\ answer' = writeFindings(asked)
  /\ UNCHANGED asked

-----------------------------------------------------------------------------
Questions ==
  FeeQuestions \union DateQuestions \union FieldQuestions \union DocumentQuestions
    \union KindQuestions \union FindingQuestions

RulesInit ==
  /\ asked \in Questions
  /\ answer = None

RulesNext ==
  \/ CalculateFee \/ OverrideFee \/ EvaluateDate \/ ReadField
  \/ JudgeDocuments \/ ReadDocument \/ MergeFindings

RulesSpec == RulesInit /\ [][RulesNext]_enquiry

-----------------------------------------------------------------------------
(* The rows come in no order, yet one of them is the rule: no other that     *)
(* applies is more specific, or as specific and newer, or made after it.     *)
RuleStands ==
  LET applicable == {r \in ToSet(asked.rules) : isApplicable(r, context)}
      Rank(r) == <<levelSpecificity(r.level), r.effectiveFrom, r.id>>
      Above(a, b) == \E i \in 1..3 : a[i] > b[i] /\ \A j \in 1..(i - 1) : a[j] = b[j]
  IN  IF applicable = {} THEN answer.ruleId = None
      ELSE \E r \in applicable : /\ r.id = answer.ruleId
                                 /\ \A other \in applicable \ {r} : Above(Rank(r), Rank(other))

(* The database's own check of a fee: never below what was worked out, and   *)
(* in whole five dollars where the rule rounds.                              *)
FeeCanBeStored ==
  ~answer.isBlocked =>
    /\ answer.unroundedFee >= 0 /\ answer.roundedFee - answer.unroundedFee \in 0..499
    /\ \/ answer.isManualOverride
       \/ \E rule \in ToSet(asked.rules) : rule.id = answer.ruleId /\ ~rule.skipRounding
       => answer.roundedFee % 500 = 0

(* A fee below last year's waits for a partner, and one above it by more     *)
(* than the threshold when that is said to four decimals; no other does.     *)
NoQuietChange ==
  ~answer.isBlocked /\ answer.previousFee \notin {None, 0} =>
    LET change == answer.roundedFee - answer.previousFee
    IN  /\ change < 0 <=> answer.requiredApproval = "FEE_DECREASE"
        /\ change * 1000000 - Threshold * answer.previousFee >= (answer.previousFee + 1) \div 2
           <=> answer.requiredApproval = "FEE_HIGH_INCREASE"

(* resolveRule, calculateFee, persist and override: whatever order the rows  *)
(* arrive in the fee is the standing rule's, the database will take it, and  *)
(* it is judged as the client will see it, after the rounding.               *)
FeeByTheBook ==
  answer # None /\ asked.about = "fee" => RuleStands /\ FeeCanBeStored /\ NoQuietChange

(* The month a rule names is n months on, on the same day of the month or on *)
(* that month's last day if there is no such day.                            *)
MonthsOn(date, n, result) ==
  /\ 12 * YearOf(result) + MonthOf(result) = 12 * YearOf(date) + MonthOf(date) + n
  /\ \/ DayOf(result) = DayOf(date)
     \/ DayOf(result) < DayOf(date) /\ MonthOf(result + 1) # MonthOf(result)

(* No business day lies from a date up to the one it was rolled to. *)
FirstBusinessDay(date, result) ==
  /\ isBusinessDay(result) /\ result >= date
  /\ \A d \in date..(result - 1) : ~isBusinessDay(d)

(* The day each rule's words mean. *)
Meant(code, given, fact, result) ==
  CASE code = "t1.filing_deadline" ->
         /\ YearOf(result) = YearOf(given) + 1
         /\ <<MonthOf(result), DayOf(result)>> = IF fact = TRUE THEN <<6, 15>> ELSE <<4, 30>>
    [] code = "t1.information_due_date" -> FirstBusinessDay(given - 45, result)
    [] code = "t1.t183_requested_by" ->
         /\ isBusinessDay(result)
         /\ Cardinality({d \in result..(given - 1) : isBusinessDay(d)}) = 5
    [] code = "t2.balance_due_date" -> MonthsOn(given, IF fact = TRUE THEN 3 ELSE 2, result)
    [] code = "t2.filing_deadline" -> MonthsOn(given, 6, result)
    [] code = "t2.information_due_date" ->
         \E d \in (result - 10)..result : MonthsOn(given, 3, d) /\ FirstBusinessDay(d, result)
    [] code = "signing.first_reminder_date" ->
         /\ isBusinessDay(result)
         /\ Cardinality({d \in (given + 1)..result : isBusinessDay(d)}) = 3
    [] code = "firm.year_later" ->
         /\ YearOf(result) = YearOf(given) + 1 /\ MonthOf(result) = MonthOf(given)
         /\ MonthOf(result + 1) # MonthOf(result)

(* evaluateDateRule, addMonths, addBusinessDays: a deadline is answered      *)
(* exactly when everything it depends on is known, and it is the day the     *)
(* rule's words mean, across month ends, leap days, weekends and holidays.   *)
DeadlineByTheRule ==
  answer # None /\ asked.about = "date" =>
    /\ answer.isBlocked <=> \/ asked.given = None
                            \/ asked.fact = None /\ asked.rule.branch # NoBranch
    /\ ~answer.isBlocked => Meant(asked.rule.code, asked.given, asked.fact, answer.result)

(* Somebody, or something that is not last year's letter, says so too. *)
VouchedFor(value) ==
  \/ value = None \/ value = asked.fee
  \/ \E s \in Sources \ {"PRIOR_YEAR_DOCUMENT"} : value = Typed(asked.rows[s]).value
  \/ \E c \in ToSet(asked.conflicts) : c.status = "RESOLVED" /\ c.resolvedValue = value

(* check against buildValues: a draft is not put before a reviewer with a    *)
(* value that last year's letter alone supplies and nobody has looked at,    *)
(* whichever of several decisions the renderer happened to read.             *)
NothingUnreadIsReady ==
  answer # None /\ asked.about = "field" =>
    (~answer.report.unchecked /\ ~answer.report.undecided => VouchedFor(answer.printed))

(* What can be checked of a document, in points, without rounding. *)
Points(i) == WeightOf(asked.documents[i].matched)
PointsPossible == WeightOf(ApplicableKeys(asked.record))

(* A document is taken for last year's letter exactly when nothing           *)
(* disqualifies it, it shows seven tenths of what can be checked, and it     *)
(* leads by a tenth every other document of which that is true, in whatever  *)
(* order they were listed; and nothing is read out of a document that is     *)
(* disqualified, of another name or another kind, or without a number the    *)
(* client has, or without any number and the year-end.                       *)
TheLetterStandsOut ==
  LET plausible == {i \in DOMAIN asked.documents :
                      ~asked.documents[i].disqualified /\ 10 * Points(i) >= 7 * PointsPossible}
      Leads(i, j) == 10 * (Points(i) - Points(j)) >= PointsPossible
  IN  /\ {answer.selected} \ {0} = {i \in plausible : \A j \in plausible \ {i} : Leads(i, j)}
      /\ \A i \in answer.accepted :
           LET shown == asked.documents[i].matched
           IN  /\ ~asked.documents[i].disqualified /\ "client_legal_name" \in shown /\ "document_type" \in shown
               /\ Numbers \intersect asked.record.known \subseteq shown
               /\ Numbers \intersect shown # {} \/ "year_end" \in shown

(* A letter lists every document the firm will prepare, and is none of them; *)
(* statements come with a report, and are not the report.  A fee is read in  *)
(* a letter alone, and nothing in a document only its file's name describes. *)
ReadForWhatItIs ==
  /\ "t2 engagement letter" \in asked.text => answer.kind \in LetterKinds
  /\ {"engagement letter", "signed by:"} \subseteq asked.text <=> answer.kind = "PRIOR_YEAR_SIGNED_LETTER"
  /\ answer.kind = "COMPILATION_ENGAGEMENT_REPORT" => "balance sheet" \notin asked.text
  /\ answer.read \intersect {"pricing.t2_fee", "pricing.compilation_fee"} # {}
       => "engagement letter" \in asked.text
  /\ answer.read # {} => \E r \in KindRules : r.kind = answer.kind /\ Fits(r, asked.text)

(* The value written is one of the best document's or says the same, and a   *)
(* person is asked exactly when a document says something else; in whatever  *)
(* order they were read, the same value is written, unless one of the values *)
(* was spelled in two ways, by whose first spelling groups equal in all else *)
(* are ordered.                                                              *)
MergedFairly ==
  LET findings == asked.findings
      said == {i \in DOMAIN findings : findings[i].value # Blank}
      best == {i \in said : \A j \in said : findings[i].score >= findings[j].score}
      Spellings == {findings[i].value : i \in said}
  IN  IF asked.answered \/ said = {} THEN answer.value = Blank /\ ~answer.asked
      ELSE /\ \E i \in said : findings[i].value = answer.value
           /\ \E i \in best : Says(findings[i].value) = Says(answer.value)
           /\ answer.asked <=> \E i \in said : Says(findings[i].value) # Says(answer.value)
           /\ Spellings = 1..3 \/ \A order \in Bijection(DOMAIN findings, DOMAIN findings) :
                mergeDocumentFindings([i \in DOMAIN findings |-> findings[order[i]]]).value = answer.value

(* selectPriorYearDocument, decideBulkAccept, classifyDocument, extract and  *)
(* mergeDocumentFindings: last year's letter is the one that stands out,     *)
(* each document is read for what it is, and of what they say the best       *)
(* supported is kept.                                                        *)
ChosenOnEvidence ==
  answer # None =>
    CASE asked.about = "documents" -> TheLetterStandsOut
      [] asked.about = "kind" -> ReadForWhatItIs
      [] asked.about = "findings" -> MergedFairly
      [] OTHER -> TRUE

(* check calls a value unread when "last year's letter is the *only* thing   *)
(* supplying a value that will be printed and signed this year"              *)
(* (engagement-readiness.ts:403); the value that is printed is another one   *)
(* where the pricing engine owns the field, and Karbon's year-end, which     *)
(* stands in a typed column, is not seen.                                    *)
UnreadIsAlone ==
  answer # None /\ asked.about = "field" =>
    (answer.report.unchecked => ~VouchedFor(answer.printed))
=============================================================================
