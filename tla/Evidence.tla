------------------------------ MODULE Evidence ------------------------------
(***************************************************************************)
(* Whose letter a document is (packages/integrations/src/extraction/       *)
(* verification.ts): the scan chooses last year's letter among the         *)
(* documents of a client, and decides of each document whether values may  *)
(* be read out of it without anybody looking.                              *)
(*                                                                         *)
(* A document is the set of facts of the client's record its text shows,   *)
(* and whether it is disqualified: it calls itself a draft, or tells of    *)
(* this year and not of the last. Scores are in ten-thousandths.           *)
(***************************************************************************)
EXTENDS Integers, FiniteSets, Sequences, FiniteSetsExt, SequencesExt

CONSTANT MaxDocuments \* how many documents a listing brings

ASSUME EvidenceAssumption == MaxDocuments \in Nat \ {0}

EveryRecord == {"client_legal_name", "document_type", "tax_year"}
Numbers == {"business_number", "t3_account_number"}

(* A corporation's name, and a trust's, is the client's own legal name. *)
OwnName(type) == CASE type = "T2" -> {"corporation_name"} [] type = "T3" -> {"trust_name"} [] OTHER -> {}

(* expectationFor: what the client's record and the engagement know. *)
Records ==
  {[type |-> type, known |-> OwnName(type) \union more] :
     type \in {"T1", "T2", "T3"}, more \in SUBSET (Numbers \union {"year_end", "taxpayer_names"})}

(* isApplicable: what the record lacks is not asked for. *)
Checkable(key, record) == key \in EveryRecord \union record.known

(* What says most about whose a document is: three points, for the two of    *)
(* everything else.                                                          *)
Heavy == Numbers \union {"client_legal_name", "document_type"}

WeightOf(keys) == 2 * Cardinality(keys) + Cardinality(keys \intersect Heavy)

ApplicableKeys(record) ==
  {key \in EveryRecord \union UNION {r.known : r \in Records} : Checkable(key, record)}

(* containsName answers alike for two fields that hold one name. *)
DocumentsOf(record) ==
  LET Shown(keys) == IF "client_legal_name" \in keys THEN keys \union OwnName(record.type) ELSE keys
      texts == SUBSET (ApplicableKeys(record) \ OwnName(record.type))
  IN  {[matched |-> Shown(keys), disqualified |-> FALSE] : keys \in texts}
      \union {[matched |-> ApplicableKeys(record) \ missing, disqualified |-> TRUE] :
                 missing \in {{}, {"tax_year"}}}

(* A client of whom only the name is known has one document more.            *)
DocumentQuestions ==
  UNION {[about : {"documents"}, record : {r},
          documents : SeqOf(DocumentsOf(r), MaxDocuments + (IF r.known = OwnName(r.type) THEN 1 ELSE 0)) \ {<<>>}] :
         r \in {rec \in Records : rec.type = "T1" \/ "taxpayer_names" \notin rec.known}}

-----------------------------------------------------------------------------
(* Rounded to four places: what is left out of a record does not count, and *)
(* neither do the file's name, its place and its signature.                 *)
verifyCandidate(document, record) ==
  LET total == WeightOf(ApplicableKeys(record))
      score == (2 * 10000 * WeightOf(document.matched) + total) \div (2 * total)
  IN  [matchedKeys |-> document.matched, score |-> score, disqualified |-> document.disqualified,
       confident |-> ~document.disqualified /\ score >= 7000]

IdentityBasis(outcome) ==
  CASE outcome.matchedKeys \intersect Numbers # {} -> "STRONG_IDENTIFIER"
    [] {"client_legal_name", "year_end"} \subseteq outcome.matchedKeys -> "NAME_AND_PERIOD"
    [] OTHER -> "NONE"

decideBulkAccept(outcome) ==
  ~outcome.disqualified /\ outcome.score >= 9000 /\ IdentityBasis(outcome) # "NONE"

(* As if being ahead were enough. *)
AheadAtAll(best, runnerUp) == best > runnerUp

(* Meaningfully ahead of the next candidate. *)
ClearWinner(best, runnerUp) == best - runnerUp >= 1000

(* Sorted by score, which keeps the order of the listing among equals. *)
RankedAbove(outcome, i, j) ==
  \/ outcome[i].score > outcome[j].score
  \/ outcome[i].score = outcome[j].score /\ i < j

TopOf(outcome, places) == CHOOSE i \in places : \A j \in places \ {i} : RankedAbove(outcome, i, j)

(* The place of the letter in the listing, 0 when a person must choose. *)
selectPriorYearDocument(documents, record) ==
  LET outcome == [i \in DOMAIN documents |-> verifyCandidate(documents[i], record)]
      confident == {i \in DOMAIN documents : outcome[i].confident}
      best == TopOf(outcome, confident)
      others == confident \ {best}
  IN  IF confident = {} THEN 0
      ELSE IF others # {} /\ ~ClearWinner(outcome[best].score, outcome[TopOf(outcome, others)].score) THEN 0
      ELSE best
=============================================================================
