------------------------------ MODULE BackOffice ------------------------------
(***************************************************************************)
(* The administrators' pages, the two outgoing jobs and the documents of   *)
(* one engagement side by side.  They share no row, so a behaviour looks   *)
(* at one of them: an interleaving shows nothing that each alone does not. *)
(***************************************************************************)
EXTENDS Publishing, Outbox, SourceDocuments

VARIABLE desk \* the part this behaviour is about

vars == <<office, outbox, papers, desk>>

Init ==
  /\ OfficeInit /\ OutboxInit /\ PapersInit
  /\ desk \in {"office", "mail", "karbon", "papers"}
  /\ desk # "papers" => \* chosen where it matters
       /\ ~twins
       /\ filed = (CHOOSE listings \in Filings : TRUE)
       /\ found = (CHOOSE items \in SomeOf(PriorItems, ItemLimit) : TRUE)

At(here) == desk = here /\ UNCHANGED desk

Office == At("office") /\ OfficeNext /\ UNCHANGED <<outbox, papers>>
Mail == At("mail") /\ (Noticing \/ Mailing) /\ UNCHANGED <<office, papers>>
Karbon == At("karbon") /\ (StatusMoves \/ Syncing) /\ UNCHANGED <<office, papers>>
Crash == desk \in {"mail", "karbon"} /\ Die /\ UNCHANGED <<office, papers, desk>>
Documents == At("papers") /\ PapersNext /\ UNCHANGED <<office, outbox>>

Next == Office \/ Mail \/ Karbon \/ Crash \/ Documents

(* The recurring jobs are queued again after every pass, and the worker that *)
(* runs them, and the scans, goes on: nothing else is fair.                  *)
MailJob == At("mail") /\ Mailing /\ UNCHANGED <<office, papers>>
KarbonJob == At("karbon") /\ Syncing /\ UNCHANGED <<office, papers>>
ScanJob == At("papers") /\ Scanning /\ UNCHANGED <<office, outbox>>
PurgeJob == At("papers") /\ Purging /\ UNCHANGED <<office, outbox>>

Spec ==
  /\ Init /\ [][Next]_vars
  /\ WF_vars(MailJob) /\ WF_vars(KarbonJob) /\ WF_vars(ScanJob) /\ WF_vars(PurgeJob)
=============================================================================
