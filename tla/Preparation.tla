---------------------------- MODULE Preparation ----------------------------
(***************************************************************************)
(* What preparation proposes for an engagement and what people decide      *)
(* about it (packages/services/src/preparation-service.ts): a signer, a    *)
(* value two sources may disagree on, a deadline that waits for a fact, a  *)
(* fee.  Each is one row here; the code does the same for every row of its *)
(* kind, the firm's signer included.                                       *)
(*                                                                         *)
(* A preparation is a long run of reads and writes with no lock and no     *)
(* transaction around it.  The PREPARE_ENGAGEMENT job makes it, and so do  *)
(* two buttons, within their own request: runs overlap, and people decide  *)
(* in the middle of them.  The job then settles what it has no doubt about *)
(* (engagement-readiness.ts).                                              *)
(***************************************************************************)
EXTENDS Naturals, FiniteSets

CONSTANTS
  Jobs,       \* preparations made by the worker, which settle afterwards
  Requests,   \* preparations made within a web request
  MaxRuns,    \* bound: preparations begun
  MaxPresses, \* bound: buttons people press
  RowIds      \* ids of conflict rows

Preparers == Jobs \union Requests

ASSUME PreparationAssumption ==
  /\ Jobs \intersect Requests = {}
  /\ MaxRuns \in Nat /\ MaxPresses \in Nat

VARIABLES
  client,     \* what the client's record says: the address, and the contested value
  letter,     \* the contested value as last year's letter has it; "NONE" if unread
  fact,       \* the answer a deadline waits for
  karbonRow,  \* extracted_field of the contested token, source KARBON_CURRENT
  signer,     \* engagement_participant: [who, confirmed]; who = "NONE" if no row
  conflicts,  \* field_conflict rows of the contested token: [status, about]
  date,       \* calculated_date: [result, confirmedBy]; result = "NONE" if no row
  fee,        \* fee_calculation: [amount, approved]; amount = "NONE" if no row
  at,         \* where each preparation is
  known,      \* what each preparation has read and not yet used
  person,     \* what somebody's action has checked and not yet written
  alone,      \* history: nothing else prepared, nor a source changed, since it began
  kept,       \* history: decisions that stood while no preparation ran
  overlapped, \* history: two preparations have run at once
  runs, presses

sources == <<client, letter, fact>>
rows == <<karbonRow, signer, conflicts, date, fee>>
counts == <<runs, presses>>
vars == <<sources, rows, at, known, person, alone, kept, overlapped, counts>>

NoRow == [status |-> "NONE", about |-> {}]
Nothing == [client |-> "NONE", found |-> FALSE, free |-> FALSE, pair |-> {}, row |-> 0,
            plan |-> "leave", fact |-> "unknown"]

(* The deadline's rule: blocked until the fact it depends on is known. *)
Rule(answer) == IF answer = "unknown" THEN "blocked" ELSE answer

AllIdle == \A p \in Preparers : at[p] = "idle"
Overlaps == \E p, q \in Preparers : p # q /\ at[p] # "idle" /\ at[q] # "idle"

Pairs == {conflicts[r].about : r \in {q \in RowIds : conflicts[q].status = "RESOLVED"}}
Decided ==
  [signer |-> IF signer.confirmed THEN signer.who ELSE "NONE",
   date |-> IF date.confirmedBy = "nobody" THEN "NONE" ELSE date.result,
   pairs |-> Pairs \intersect {{karbonRow, letter}}]

Init ==
  /\ client = "k1" /\ letter = "NONE" /\ fact = "unknown"
  /\ karbonRow = "NONE"
  /\ signer = [who |-> "NONE", confirmed |-> FALSE]
  /\ conflicts = [r \in RowIds |-> NoRow]
  /\ date = [result |-> "NONE", confirmedBy |-> "nobody"]
  /\ fee = [amount |-> "NONE", approved |-> FALSE]
  /\ at = [p \in Preparers |-> "idle"]
  /\ known = [p \in Preparers |-> Nothing]
  /\ person = "idle" /\ alone = {}
  /\ kept = [signer |-> "NONE", date |-> "NONE", pairs |-> {}]
  /\ overlapped = FALSE
  /\ runs = 0 /\ presses = 0

(***************************************************************************)
(* PreparationService.prepare, statement by statement.                     *)
(***************************************************************************)
(* The engagement is read with its client and contacts, once, for all that follows. *)
Begin(p) ==
  /\ at[p] = "idle" /\ runs < MaxRuns
  /\ runs' = runs + 1
  /\ at' = [at EXCEPT ![p] = "recording"]
  /\ known' = [known EXCEPT ![p].client = client]
  /\ alone' = IF AllIdle THEN {p} ELSE {}
  /\ UNCHANGED <<sources, rows, person, presses>>

Step(p, from, to) ==
  /\ at[p] = from /\ at' = [at EXCEPT ![p] = to]
  /\ UNCHANGED <<sources, person, alone, counts>>

(* The run ends, however it ends; what it held in memory is gone. *)
End(p) ==
  /\ at' = [at EXCEPT ![p] = "idle"]
  /\ known' = [known EXCEPT ![p] = Nothing]
  /\ alone' = alone \ {p}
  /\ UNCHANGED <<sources, rows, person, counts>>

(* The process dies, or a statement fails: nothing written is undone. *)
Stop(p) == at[p] # "idle" /\ End(p)

(* recordKarbonValues, through putExtractedField. *)
RecordKarbonValues(p) ==
  /\ Step(p, "recording", "signer")
  /\ karbonRow' = known[p].client
  /\ UNCHANGED <<signer, conflicts, date, fee, known>>

(* proposeSigners and proposeFirmSigner: a confirmed signer is never touched ... *)
FindSigner(p) ==
  /\ Step(p, "signer", "proposing")
  /\ known' = [known EXCEPT ![p].found = signer.who # "NONE", ![p].free = ~signer.confirmed]
  /\ UNCHANGED rows

(* ... and a proposal, made by the id just read, is unconfirmed. *)
Proposal(p) == [who |-> known[p].client, confirmed |-> FALSE]

(* A row that appeared, or went, since it was looked for makes the statement fail. *)
ProposeSigner(p) ==
  /\ known[p].free => known[p].found = (signer.who # "NONE")
  /\ Step(p, "proposing", "fields")
  /\ signer' = IF known[p].free THEN Proposal(p) ELSE signer
  /\ known' = [known EXCEPT ![p].client = "NONE", ![p].found = FALSE, ![p].free = FALSE]
  /\ UNCHANGED <<karbonRow, conflicts, date, fee>>

(* reconcile: the values there are, one per source; what only one source has is passed over. *)
ReadFields(p) ==
  /\ Step(p, "fields", "conflicts")
  /\ known' = [known EXCEPT ![p].pair =
       IF "NONE" \in {karbonRow, letter} THEN {} ELSE {karbonRow, letter}]
  /\ UNCHANGED rows

Rows(status) == {r \in RowIds : conflicts[r].status = status}

(* As if a decision were one for good. *)
CoversForGood(r, pair) == TRUE
(* A decision counts while it is about the very values on the table. *)
Covers(r, pair) == conflicts[r].about = pair

(* findFirst looks for a decided row, and for an open one; the two reads are one step *)
(* here.  Sources that agree clear the open rows at once.                             *)
FindConflict(p) ==
  LET pair == known[p].pair
      Plan(plan, r) == known' = [known EXCEPT ![p].plan = plan, ![p].row = r]
      decided == Rows("RESOLVED")
      open == Rows("UNRESOLVED")
  IN /\ Step(p, "conflicts", "raising")
     /\ UNCHANGED <<karbonRow, signer, date, fee>>
     /\ \/ pair = {} /\ UNCHANGED <<conflicts, known>>
        \/ /\ Cardinality(pair) = 1
           /\ conflicts' = [r \in RowIds |-> IF r \in open THEN NoRow ELSE conflicts[r]]
           /\ UNCHANGED known
        \/ /\ Cardinality(pair) = 2 /\ UNCHANGED conflicts
           /\ \/ \E r \in decided : Plan(IF Covers(r, pair) THEN "leave" ELSE "reopen", r)
              \/ decided = {} /\ \E r \in open : Plan("refresh", r)
              \/ decided = {} /\ open = {} /\ Plan("create", 0)

(* A decided row the sources have outgrown is opened again; an open one is given the *)
(* values of now by its id, whatever somebody has made of it since.                  *)
RaiseConflict(p) ==
  LET plan == known[p].plan
      row == known[p].row
      asked == [status |-> "UNRESOLVED", about |-> known[p].pair]
  IN /\ Step(p, "raising", "facts")
     /\ known' = [known EXCEPT ![p].pair = {}, ![p].row = 0, ![p].plan = "leave"]
     /\ UNCHANGED <<karbonRow, signer, date, fee>>
     /\ \/ plan = "leave" /\ UNCHANGED conflicts
        \/ plan = "create" /\ \E r \in Rows("NONE") : conflicts' = [conflicts EXCEPT ![r] = asked]
        \/ /\ plan \in {"reopen", "refresh"} /\ conflicts[row].status # "NONE"
           /\ conflicts' = [conflicts EXCEPT ![row] =
                IF plan = "reopen" THEN asked ELSE [@ EXCEPT !.about = asked.about]]

(* calculateDates reads the facts, and putDate each row: a confirmed date is left alone. *)
ReadFacts(p) ==
  /\ Step(p, "facts", "date")
  /\ known' = [known EXCEPT ![p].fact = fact]
  /\ UNCHANGED rows

(* As if putDate did not look whether the date was confirmed. *)
AnyDate == TRUE
DateIsFree == date.confirmedBy = "nobody"

FindDate(p) ==
  /\ Step(p, "date", "dating")
  /\ known' = [known EXCEPT ![p].found = date.result # "NONE", ![p].free = DateIsFree]
  /\ UNCHANGED rows

(* As if a rule were only evaluated for the first preparation. *)
DatedOnce(p) == IF known[p].found THEN date.result ELSE Rule(known[p].fact)
Dated(p) == Rule(known[p].fact)

PutDate(p) ==
  /\ known[p].free => known[p].found = (date.result # "NONE")
  /\ Step(p, "dating", "fees")
  /\ date' = IF known[p].free THEN [date EXCEPT !.result = Dated(p)] ELSE date
  /\ known' = [known EXCEPT ![p] = Nothing]
  /\ UNCHANGED <<karbonRow, signer, conflicts, fee>>

(* PricingService.persist: an upsert that asks nothing and clears the approval. *)
Persist(amount) == fee' = [amount |-> amount, approved |-> FALSE]

CalculateFees(p) ==
  /\ Step(p, "fees", "done")
  /\ Persist("rule")
  /\ UNCHANGED <<karbonRow, signer, conflicts, date, known>>

Finish(p) ==
  /\ at[p] = "done" /\ p \in Requests
  /\ End(p)

(* EngagementReadinessService.settle, which only the job calls: the dates that have a *)
(* result and no confirmation are read, and confirmed by their ids.                   *)
FindUnsettled(p) ==
  /\ p \in Jobs
  /\ Step(p, "done", "settling")
  /\ known' = [known EXCEPT ![p].free =
       date.confirmedBy = "nobody" /\ date.result \notin {"NONE", "blocked"}]
  /\ UNCHANGED rows

Settle(p) ==
  /\ Step(p, "settling", "settled")
  /\ date' = IF known[p].free /\ date.confirmedBy = "nobody"
               THEN [date EXCEPT !.confirmedBy = "application"] ELSE date
  /\ UNCHANGED <<karbonRow, signer, conflicts, fee, known>>

Settled(p) == at[p] = "settled" /\ End(p)

Prepare(p) ==
  \/ Begin(p) \/ RecordKarbonValues(p)
  \/ FindSigner(p) \/ ProposeSigner(p)
  \/ ReadFields(p) \/ FindConflict(p) \/ RaiseConflict(p)
  \/ ReadFacts(p) \/ FindDate(p) \/ PutDate(p)
  \/ CalculateFees(p) \/ Finish(p)
  \/ FindUnsettled(p) \/ Settle(p) \/ Settled(p)
  \/ Stop(p)

(***************************************************************************)
(* The sources change: a client is corrected, a letter is read.             *)
(***************************************************************************)
Arrives ==
  /\ alone' = {}
  /\ UNCHANGED <<fact, rows, at, known, person, counts>>

ClientCorrected == client = "k1" /\ client' = "k2" /\ Arrives /\ UNCHANGED letter
LetterRead == letter = "NONE" /\ letter' \in {"k1", "d"} /\ Arrives /\ UNCHANGED client

(***************************************************************************)
(* People.                                                                 *)
(***************************************************************************)
Press == presses < MaxPresses /\ presses' = presses + 1 /\ UNCHANGED <<runs, at, known>>

(* confirmDateFact, which then prepares within the same request (Begin). *)
AnswerFact ==
  /\ Press
  /\ fact' \in {"yes", "no"} \ {fact}
  /\ alone' = {}
  /\ UNCHANGED <<client, letter, rows, person>>

(* ParticipantService.upsert: an edited signer is to be confirmed again. *)
EditSigner ==
  /\ Press
  /\ signer' = [who |-> "typed", confirmed |-> FALSE]
  /\ UNCHANGED <<sources, karbonRow, conflicts, date, fee, person, alone>>

(* ParticipantService.confirm and confirmDate check the row, then write by its id. *)
CheckSigner ==
  /\ Press
  /\ person = "idle" /\ signer.who # "NONE" /\ person' = "confirming_signer"
  /\ UNCHANGED <<sources, rows, alone>>

ConfirmSigner ==
  /\ person = "confirming_signer" /\ person' = "idle"
  /\ signer' = [signer EXCEPT !.confirmed = TRUE]
  /\ UNCHANGED <<sources, karbonRow, conflicts, date, fee, alone, at, known, counts>>

CheckDate ==
  /\ Press
  /\ person = "idle" /\ date.result \notin {"NONE", "blocked"} /\ person' = "confirming_date"
  /\ UNCHANGED <<sources, rows, alone>>

ConfirmDate ==
  /\ person = "confirming_date" /\ person' = "idle"
  /\ date' = [date EXCEPT !.confirmedBy = "person"]
  /\ UNCHANGED <<sources, karbonRow, signer, conflicts, fee, alone, at, known, counts>>

(* resolveConflict, by the id a page has shown. *)
ResolveConflict ==
  /\ Press
  /\ \E r \in Rows("UNRESOLVED") : conflicts' = [conflicts EXCEPT ![r].status = "RESOLVED"]
  /\ UNCHANGED <<sources, karbonRow, signer, date, fee, person, alone>>

OverrideFee ==
  /\ Press
  /\ fee.amount # "NONE"
  /\ Persist("typed")
  /\ UNCHANGED <<sources, karbonRow, signer, conflicts, date, person, alone>>

(* approveFee reads the row, then approves it by its id. *)
CheckFee ==
  /\ Press
  /\ person = "idle" /\ fee.amount # "NONE" /\ person' = "approving_fee"
  /\ UNCHANGED <<sources, rows, alone>>

ApproveFee ==
  /\ person = "approving_fee" /\ person' = "idle"
  /\ fee' = [fee EXCEPT !.approved = TRUE]
  /\ UNCHANGED <<sources, karbonRow, signer, conflicts, date, alone, at, known, counts>>

People ==
  \/ AnswerFact \/ EditSigner \/ CheckSigner \/ ConfirmSigner \/ CheckDate \/ ConfirmDate
  \/ ResolveConflict \/ OverrideFee \/ CheckFee \/ ApproveFee

(* What is decided is kept from the moment no preparation runs, until a person decides *)
(* again or the sources no longer say what it was decided about.                       *)
NoteOverlap == overlapped' = (overlapped \/ Overlaps')
Keep ==
  kept' = IF AllIdle' THEN Decided'
          ELSE [kept EXCEPT !.pairs = @ \intersect {{karbonRow', letter'}}]
KeepUnlessEdited ==
  kept' = IF AllIdle THEN Decided'
          ELSE IF signer' # signer THEN [kept EXCEPT !.signer = "NONE"] ELSE kept

Next ==
  \/ (\/ \E p \in Preparers : Prepare(p)
      \/ ClientCorrected \/ LetterRead) /\ Keep /\ NoteOverlap
  \/ People /\ KeepUnlessEdited /\ UNCHANGED overlapped

Spec == Init /\ [][Next]_vars

-----------------------------------------------------------------------------
Places ==
  {"idle", "recording", "signer", "proposing", "fields", "conflicts", "raising", "facts", "date",
   "dating", "fees", "done", "settling", "settled"}
AfterConflicts == {"facts", "date", "dating", "fees", "done", "settling", "settled"}
AfterDates == {"fees", "done", "settling", "settled"}
Names == {"NONE", "k1", "k2", "d", "typed"}
Results == {"NONE", "blocked", "yes", "no"}

(* Every variable has its type; a run that is to write a conflict row knows which. *)
TypeOK ==
  /\ client \in {"k1", "k2"} /\ letter \in {"NONE", "k1", "d"}
  /\ fact \in {"unknown", "yes", "no"}
  /\ karbonRow \in {"NONE", "k1", "k2"}
  /\ signer \in [who : Names, confirmed : BOOLEAN]
  /\ conflicts \in [RowIds -> [status : {"NONE", "UNRESOLVED", "RESOLVED"}, about : SUBSET Names]]
  /\ date \in [result : Results, confirmedBy : {"nobody", "application", "person"}]
  /\ fee \in [amount : {"NONE", "rule", "typed"}, approved : BOOLEAN]
  /\ at \in [Preparers -> Places]
  /\ known \in [Preparers -> [client : Names, found : BOOLEAN, free : BOOLEAN, pair : SUBSET Names,
                              row : RowIds \union {0}, plan : {"leave", "create", "reopen", "refresh"},
                              fact : {"unknown", "yes", "no"}]]
  /\ person \in {"idle", "confirming_signer", "confirming_date", "approving_fee"}
  /\ alone \subseteq Preparers
  /\ kept \in [signer : Names, date : Results, pairs : SUBSET SUBSET Names]
  /\ overlapped \in BOOLEAN
  /\ runs \in 0 .. MaxRuns /\ presses \in 0 .. MaxPresses
  /\ \A p \in Preparers : known[p].plan \in {"reopen", "refresh"} => known[p].row \in RowIds

(* What was decided while no preparation ran stands through all that begin later, though *)
(* they overlap, stop half way and see other sources: "It never overwrites a decision a  *)
(* person has already made" (actions.ts, prepareEngagement).  Fees are another matter.   *)
DecisionsStand ==
  /\ kept.signer # "NONE" => signer = [who |-> kept.signer, confirmed |-> TRUE]
  /\ kept.date # "NONE" => date.result = kept.date /\ date.confirmedBy # "nobody"
  /\ kept.pairs \subseteq Pairs

(* After a preparation nothing else interfered with, what the sources disagree on today  *)
(* has a row of its own, open or decided about these very values; sources that agree     *)
(* leave no question open.  Where preparations have overlapped, each may have opened a   *)
(* row (findFirst, then create), and only one of the two is brought up to date later: it *)
(* is as long as they have not that nothing else is asked.                               *)
DisagreementAsked ==
  \A p \in alone : at[p] \in AfterConflicts =>
    LET pair == {client, letter} \ {"NONE"}
        open == Rows("UNRESOLVED")
    IN IF Cardinality(pair) = 2
         THEN /\ \E r \in RowIds : conflicts[r].status # "NONE" /\ conflicts[r].about = pair
              /\ ~overlapped => \A r \in open : conflicts[r].about = pair
         ELSE open = {}

(* After such a preparation a deadline nobody confirmed, neither a person nor the *)
(* application, is what the rule makes of the last answer.                        *)
LastAnswerCounts ==
  \A p \in alone : at[p] \in AfterDates /\ date.confirmedBy = "nobody" => date.result = Rule(fact)
=============================================================================
