------------------------- MODULE EngagementStates -------------------------
(***************************************************************************)
(* The engagement workflow's transition table                              *)
(* (packages/workflows/src/engagement-state-machine.ts).  The migrations   *)
(* seed the same pairs into workflow_transition, and a trigger on the      *)
(* engagement table refuses every other one.                               *)
(***************************************************************************)

Open ==
  {"NOT_STARTED", "LOCATING_SOURCE_DOCUMENTS", "SOURCE_DOCUMENT_REVIEW_REQUIRED",
   "EXTRACTING_DATA", "GENERATING", "GENERATION_FAILED", "DRAFT_READY", "REVIEW_REQUIRED",
   "IN_REVIEW", "CHANGES_REQUESTED", "REGENERATING", "APPROVED", "READY_TO_SEND",
   "SENDING_FOR_SIGNATURE", "SENT_FOR_SIGNATURE", "PARTIALLY_SIGNED", "SIGNED", "DECLINED",
   "EXPIRED", "COMPLETE", "READY_FOR_COVER_LETTER", "COVER_LETTER_GENERATING",
   "COVER_LETTER_REVIEW_REQUIRED", "COVER_LETTER_IN_REVIEW", "COVER_LETTER_CHANGES_REQUESTED",
   "COVER_LETTER_APPROVED", "READY_FOR_DELIVERY", "DELIVERED"}

EngagementStatuses == Open \union {"NEEDS_ATTENTION"}

(* What may follow a status, besides NEEDS_ATTENTION. *)
Successors(from) ==
  CASE from = "NOT_STARTED" -> {"LOCATING_SOURCE_DOCUMENTS", "EXTRACTING_DATA", "GENERATING"}
    [] from = "LOCATING_SOURCE_DOCUMENTS" ->
         {"SOURCE_DOCUMENT_REVIEW_REQUIRED", "EXTRACTING_DATA", "GENERATION_FAILED"}
    [] from = "SOURCE_DOCUMENT_REVIEW_REQUIRED" -> {"LOCATING_SOURCE_DOCUMENTS", "EXTRACTING_DATA"}
    [] from = "EXTRACTING_DATA" ->
         {"GENERATING", "SOURCE_DOCUMENT_REVIEW_REQUIRED", "GENERATION_FAILED"}
    [] from \in {"GENERATING", "REGENERATING"} -> {"DRAFT_READY", "GENERATION_FAILED"}
    [] from = "GENERATION_FAILED" -> {"GENERATING", "REGENERATING", "LOCATING_SOURCE_DOCUMENTS"}
    [] from = "DRAFT_READY" -> {"REVIEW_REQUIRED", "REGENERATING"}
    [] from = "REVIEW_REQUIRED" -> {"IN_REVIEW", "CHANGES_REQUESTED"}
    [] from = "IN_REVIEW" -> {"APPROVED", "CHANGES_REQUESTED", "REVIEW_REQUIRED"}
    [] from = "CHANGES_REQUESTED" -> {"REGENERATING", "IN_REVIEW"}
    [] from = "APPROVED" -> {"READY_TO_SEND", "CHANGES_REQUESTED"}
    [] from = "READY_TO_SEND" -> {"SENDING_FOR_SIGNATURE", "SIGNED", "CHANGES_REQUESTED"}
    [] from = "SENDING_FOR_SIGNATURE" -> {"SENT_FOR_SIGNATURE", "READY_TO_SEND"}
    [] from = "SENT_FOR_SIGNATURE" -> {"PARTIALLY_SIGNED", "SIGNED", "DECLINED", "EXPIRED"}
    [] from = "PARTIALLY_SIGNED" -> {"SIGNED", "DECLINED", "EXPIRED"}
    [] from = "SIGNED" -> {"COMPLETE"}
    [] from = "DECLINED" -> {"REGENERATING"}
    [] from = "EXPIRED" -> {"READY_TO_SEND", "REGENERATING"}
    [] from = "NEEDS_ATTENTION" ->
         Open \ {"NOT_STARTED", "APPROVED", "COVER_LETTER_APPROVED"}
    [] from = "COMPLETE" -> {"READY_FOR_COVER_LETTER"}
    [] from = "READY_FOR_COVER_LETTER" -> {"COVER_LETTER_GENERATING"}
    [] from = "COVER_LETTER_GENERATING" -> {"COVER_LETTER_REVIEW_REQUIRED", "GENERATION_FAILED"}
    [] from = "COVER_LETTER_REVIEW_REQUIRED" ->
         {"COVER_LETTER_IN_REVIEW", "COVER_LETTER_CHANGES_REQUESTED"}
    [] from = "COVER_LETTER_IN_REVIEW" -> {"COVER_LETTER_APPROVED", "COVER_LETTER_CHANGES_REQUESTED"}
    [] from = "COVER_LETTER_CHANGES_REQUESTED" ->
         {"COVER_LETTER_GENERATING", "COVER_LETTER_IN_REVIEW"}
    [] from = "COVER_LETTER_APPROVED" -> {"READY_FOR_DELIVERY", "COVER_LETTER_CHANGES_REQUESTED"}
    [] from = "READY_FOR_DELIVERY" -> {"DELIVERED", "COVER_LETTER_CHANGES_REQUESTED"}
    [] from = "DELIVERED" -> {"COVER_LETTER_CHANGES_REQUESTED"}

canTransition(from, to) ==
  to \in Successors(from) \/ (from # "NEEDS_ATTENTION" /\ to = "NEEDS_ATTENTION")
=============================================================================
