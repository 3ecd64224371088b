------------------------------- MODULE Values -------------------------------
(***************************************************************************)
(* Which of a field's values reaches the letter, and whether last year's   *)
(* letter alone vouches for it (packages/services/src/field-values.ts,     *)
(* effective-values.ts, generation-service.ts, engagement-readiness.ts).   *)
(*                                                                         *)
(* One field of one engagement. A value is a model string; AsPrinted is    *)
(* what last year's letter shows of a date or an amount, which stands in   *)
(* the text column beside the typed one.                                   *)
(***************************************************************************)
EXTENDS Fees

Sources == {"KARBON_CLIENT", "PRIOR_YEAR_DOCUMENT", "TEMPLATE_DEFAULT", "MANUAL_ENTRY"}

(* SOURCE_PRIORITY: lower is stronger. *)
sourceRank(source) ==
  CASE source = "KARBON_CLIENT" -> 1
    [] source = "PRIOR_YEAR_DOCUMENT" -> 3
    [] source = "TEMPLATE_DEFAULT" -> 4
    [] source = "MANUAL_ENTRY" -> 5

(* One row per source, a unique index sees to that. *)
Row(value, typed) == [value |-> value, typed |-> typed, confirmed |-> FALSE]
NoRow == Row(None, None)

KarbonRows(kind) ==
  {NoRow} \union CASE kind = "STRING" -> {Row(v, None) : v \in {"last", "this"}}
                   [] kind = "DATE" -> {Row(None, v) : v \in {"last", "this"}}
                   [] kind = "MONEY" -> {}

PriorRows(kind) ==
  {NoRow} \union IF kind = "STRING" THEN {Row("last", None)}
                 ELSE {Row("AsPrinted", "last"), Row("AsPrinted", None)}

DefaultRows(kind) == {NoRow} \union IF kind = "STRING" THEN {Row("this", None)} ELSE {}

(* The form saves what a person typed as confirmed, and empties the row when *)
(* the person clears it; a fee belongs to the pricing engine.                *)
ManualRows(kind) ==
  {NoRow} \union IF kind = "MONEY" THEN {}
                 ELSE {[value |-> v, typed |-> IF kind = "DATE" THEN v ELSE None, confirmed |-> TRUE] :
                         v \in {"last", "this"}}

FieldRows(kind) ==
  [KARBON_CLIENT : KarbonRows(kind), PRIOR_YEAR_DOCUMENT : PriorRows(kind),
   TEMPLATE_DEFAULT : DefaultRows(kind), MANUAL_ENTRY : ManualRows(kind)]

(* Disagreements between sources and between documents, each decided or not; *)
(* a decision that is asked again keeps its answer and its time.             *)
Conflict(status, value, source) ==
  [status |-> status, resolvedValue |-> value, resolvedSource |-> source]
NoConflict == Conflict(None, None, None)
Conflicts ==
  {Conflict("UNRESOLVED", None, None), Conflict("UNRESOLVED", "last", "PRIOR_YEAR_DOCUMENT")} \union
  {Conflict("RESOLVED", v, s) : v \in {"last", "this"}, s \in {"KARBON_CLIENT", "PRIOR_YEAR_DOCUMENT"}}

(* The rows, the conflicts in the order of their decisions, newest first,    *)
(* and the fee the pricing engine worked out for a field that shows one. A   *)
(* conflict is between two documents or two sources.                         *)
FieldQuestions ==
  LET Asked(kind) ==
        [about : {"field"}, rows : FieldRows(kind), conflicts : SeqOf(Conflicts, 2),
         fee : IF kind = "MONEY" THEN {None, "fee"} ELSE {None}]
      Disagreeing(rows) == \/ rows.PRIOR_YEAR_DOCUMENT # NoRow
                           \/ \E s, t \in Sources : s # t /\ NoRow \notin {rows[s], rows[t]}
  IN  {q \in UNION {Asked(kind) : kind \in {"STRING", "DATE", "MONEY"}} :
         q.conflicts # <<>> => Disagreeing(q.rows)}

-----------------------------------------------------------------------------
Resolved(value, source, basis) == [value |-> value, source |-> source, basis |-> basis]

(* A decision first, then what a person confirmed, then the strongest source. *)
(* manualOverrideValue, which would come before them, is never written.       *)
resolveFieldValue(candidates, conflict) ==
  LET usable == {s \in Sources : candidates[s].value # None}
      confirmed == {s \in usable : candidates[s].confirmed}
      Strongest(ss) == CHOOSE s \in ss : \A other \in ss : sourceRank(s) <= sourceRank(other)
  IN  IF conflict.status = "RESOLVED" /\ conflict.resolvedValue # None
        THEN Resolved(conflict.resolvedValue, conflict.resolvedSource, "CONFLICT_RESOLUTION")
      ELSE IF confirmed # {}
        THEN Resolved(candidates[Strongest(confirmed)].value, Strongest(confirmed), "MANUALLY_CONFIRMED")
      ELSE IF usable # {}
        THEN Resolved(candidates[Strongest(usable)].value, Strongest(usable), "HIGHEST_PRIORITY_SOURCE")
      ELSE Resolved(None, None, None)

(* The letter reads the typed column before the text. *)
Typed(row) == [row EXCEPT !.value = IF row.typed # None THEN row.typed ELSE row.value]

(* The rows are read in no order and the last conflict wins; a calculated fee *)
(* owns its field.                                                            *)
resolveEffectiveValues(question, conflict) ==
  IF question.fee # None THEN Resolved(question.fee, "PRICING", None)
  ELSE resolveFieldValue([s \in Sources |-> Typed(question.rows[s])], conflict)

LetterValues(question) ==
  {resolveEffectiveValues(question, c) :
     c \in IF question.conflicts = <<>> THEN {NoConflict} ELSE ToSet(question.conflicts)}

-----------------------------------------------------------------------------
(* The readiness check: the newest decision, or an open question. *)
ConflictByToken(conflicts) ==
  LET decided == {i \in DOMAIN conflicts : conflicts[i].status # "UNRESOLVED"}
  IN  IF decided # {} THEN conflicts[Min(decided)]
      ELSE IF conflicts # <<>> THEN Head(conflicts) ELSE NoConflict

(* As if agreeing with last year's letter were enough. *)
AnyAgreement(effective, prior) == effective.value = prior.value

corroborated(effective, prior) ==
  \/ effective.source # "PRIOR_YEAR_DOCUMENT"
  \/ effective.basis # "HIGHEST_PRIORITY_SOURCE"
  \/ prior.confirmed

(* Last year's letter says so, and nothing else does. *)
Outstanding(question) ==
  LET prior == question.rows.PRIOR_YEAR_DOCUMENT
      effective == resolveFieldValue(question.rows, ConflictByToken(question.conflicts))
  IN  /\ prior.value # None
      /\ \/ effective.value = None
         \/ effective.value = prior.value /\ ~corroborated(effective, prior)

Undecided(question) == \E c \in ToSet(question.conflicts) : c.status = "UNRESOLVED"

check(question) == [unchecked |-> Outstanding(question), undecided |-> Undecided(question)]
=============================================================================
