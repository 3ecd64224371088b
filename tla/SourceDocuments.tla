---------------------------- MODULE SourceDocuments ----------------------------
(***************************************************************************)
(* The documents of one engagement                                         *)
(* (packages/services/src/client-document-scan.ts,                         *)
(* source-document-service.ts, storage.ts; apps/worker/src/handlers.ts,    *)
(* SCAN_CLIENT_DOCUMENTS and PURGE_TEMPORARY_FILES).  A job reads what     *)
(* Karbon holds for the client and records what it made of each file;      *)
(* people attach files, bring them in from Karbon and accept what the scan *)
(* passed over; every night the bytes whose retention is over are deleted. *)
(* Any job may die at any await.  The fields a scan fills are module       *)
(* Preparation, and its listings are module KarbonClient.                  *)
(***************************************************************************)
EXTENDS Naturals, Sequences, FiniteSets

CONSTANTS
  Papers,      \* file keys of Karbon
  Readable,    \* those named .docx or .pdf
  Textless,    \* those of them that turn out to hold no text
  NoPaper,     \* a file that did not come from Karbon
  PriorItems,  \* last year's work items of the client
  ItemLimit,   \* how many of them Karbon is asked for
  Filings,     \* what it may list under each scope
  Kinds,       \* the SourceDocumentKinds a person may choose
  TextKind,    \* the one the files' text says they are
  UnknownKind, \* what a file is of which no text could be read
  Scans,       \* scans that may overlap, as their rows are numbered
  ScanLimit,   \* SCAN_DOCUMENT_LIMIT
  MaxTries,    \* maxAttempts of the scan
  MaxCopies,   \* bound: bytes ever stored
  MaxAsks,     \* bound: scans asked for, pages submitted, retentions that end
  MaxSlips     \* bound: calls that fail, deaths of a process

ASSUME SourceDocumentsAssumption ==
  /\ NoPaper \notin Papers /\ Readable \subseteq Papers /\ Textless \subseteq Readable
  /\ TextKind \in Kinds /\ UnknownKind \notin Kinds
  /\ {"own", "client"} \intersect PriorItems = {} /\ IsFiniteSet(PriorItems)
  /\ Filings \subseteq [{"own", "client"} \union PriorItems -> SUBSET Papers]
  /\ ItemLimit \in Nat /\ ScanLimit \in Nat \ {0} /\ MaxTries \in Nat \ {0}
  /\ Scans \subseteq Nat /\ {MaxCopies, MaxAsks, MaxSlips} \subseteq Nat

VARIABLES
  twins,     \* every file has the same bytes, or each its own
  filed,     \* the files Karbon lists under each scope
  found,     \* the work items it returns when asked for last year's
  documents, \* rows of source_document
  stored,    \* references whose bytes are in stored_document
  expired,   \* references past their retention
  copies,    \* references ever made
  scans,     \* the jobs, and what their runs have read
  followed,  \* those after which preparation was queued
  hand,      \* a person's request
  purge,     \* the recurring job
  asks, slips

karbonFiles == <<twins, filed, found>>
papers == <<karbonFiles, documents, stored, expired, copies, scans, followed, hand, purge, asks, slips>>

(* An engagement without a work item of its own has one with no files.        *)
Areas == {"own", "client"} \union PriorItems
SomeOf(items, most) ==
  LET n == IF Cardinality(items) < most THEN Cardinality(items) ELSE most
  IN  {q \in [1 .. n -> items] : \A i, j \in 1 .. n : q[i] = q[j] => i = j}
Asked == {"own", "client"} \union {found[i] : i \in DOMAIN found}

Bytes(f) == IF twins THEN "same" ELSE f
HasText(f) == twins \/ f \notin Textless
NoRow == 0
NoCopy == 0
Slip == slips < MaxSlips /\ slips' = slips + 1

Row(id) == CHOOSE d \in documents : d.id = id
RowsOf(f) == {d \in documents : d.paper = f}

(* @@unique([engagementId, fileHash, kind]).                                 *)
Clashes(id, bytes, kind) == \E d \in documents : d.id # id /\ d.bytes = bytes /\ d.kind = kind
Attach(f, bytes, kind, confirmed, copy) ==
  documents' = documents \union
    {[id |-> Cardinality(documents) + 1, paper |-> f, bytes |-> bytes, kind |-> kind,
      confirmed |-> confirmed, copy |-> copy]}
Amend(id, f(_)) == documents' = {IF d.id = id THEN f(d) ELSE d : d \in documents}

(* DocumentStore.put, which stamps the retention.                            *)
Put == copies < MaxCopies /\ copies' = copies + 1 /\ stored' = stored \union {copies + 1}
NoPut == UNCHANGED <<stored, copies>>

-----------------------------------------------------------------------------
(* SCAN_CLIENT_DOCUMENTS.  `whole` is that nothing failed and no limit cut    *)
(* the list; `lost` holds what was accepted and could not be stored.         *)
Rest == [row |-> "none", tries |-> 0, at |-> "", scopes |-> <<>>, batch |-> {}, considered |-> 0,
         whole |-> FALSE, lost |-> {}, file |-> NoPaper, on |-> NoRow, verdict |-> "", copy |-> NoCopy]
ScanAt(s, place) == scans[s].row = "running" /\ scans[s].at = place
Becomes(s, run) == scans' = [scans EXCEPT ![s] = run]
ScanReads == UNCHANGED <<karbonFiles, documents, stored, expired, copies, followed, hand, purge, asks>>

(* enqueueClientDocumentScan: each press has a key of its own, so that one    *)
(* scan may overlap another.                                                 *)
AskScan(s) ==
  /\ asks < MaxAsks /\ asks' = asks + 1
  /\ scans[s].row = "none" /\ \A x \in Scans : x < s => scans[x].row # "none"
  /\ Becomes(s, [Rest EXCEPT !.row = "pending"])
  /\ UNCHANGED <<karbonFiles, documents, stored, expired, copies, followed, hand, purge, slips>>

(* scopesFor: the engagement's own work item, as many of last year's as were  *)
(* asked for, then the client itself.  Where there are more, nothing says so. *)
StartScan(s) ==
  /\ scans[s].row = "pending"
  /\ LET run == [Rest EXCEPT !.row = "running", !.tries = scans[s].tries + 1, !.at = "scope"]
     IN  \/ /\ Becomes(s, [run EXCEPT !.scopes = <<"own">> \o found \o <<"client">>, !.whole = TRUE])
            /\ UNCHANGED slips
         \/ Slip /\ Becomes(s, [run EXCEPT !.scopes = <<"own", "client">>])
  /\ ScanReads

(* As if what could not be read were not there.                              *)
Unsaid(complete) == complete

Missed(complete) == FALSE

(* Of the files that can be read at all, the most relevant first, as far as   *)
(* there is room: any of them, here.                                         *)
Takes(listing, room) ==
  IF Cardinality(listing) =< room THEN {listing} ELSE {t \in SUBSET listing : Cardinality(t) = room}

ReadScope(s) ==
  /\ ScanAt(s, "scope") /\ scans[s].scopes # <<>> /\ scans[s].batch = {}
  /\ LET run == scans[s]
         room == ScanLimit - run.considered
         listing == filed[Head(run.scopes)] \intersect Readable
     IN  IF room = 0 THEN Becomes(s, [run EXCEPT !.scopes = <<>>, !.whole = FALSE])
         ELSE \E take \in Takes(listing, room) :
                Becomes(s, [run EXCEPT !.scopes = Tail(@), !.batch = take,
                                       !.considered = @ + Cardinality(take),
                                       !.whole = @ /\ take = listing])
  /\ ScanReads /\ UNCHANGED slips

(* The listing fails, or one download does.                                  *)
ScopeFails(s) ==
  /\ ScanAt(s, "scope") /\ Slip
  /\ \/ /\ scans[s].scopes # <<>> /\ scans[s].batch = {}
        /\ Becomes(s, [scans[s] EXCEPT !.scopes = Tail(@), !.whole = Missed(@)])
     \/ \E f \in scans[s].batch : Becomes(s, [scans[s] EXCEPT !.batch = @ \ {f}, !.whole = Missed(@)])
  /\ ScanReads

(* No text comes out of a file; or it is refused; or accepted, and its bytes   *)
(* are put.  Only the scan's counters tell the first two apart: neither makes *)
(* it less complete.  A row is found by its Karbon key, any one of several.   *)
Judge(s) ==
  /\ ScanAt(s, "scope")
  /\ \E f \in scans[s].batch, verdict \in {"unreadable", "refused", "accepted"} :
       LET rest == [scans[s] EXCEPT !.batch = @ \ {f}]
           next == [rest EXCEPT !.at = "record", !.file = f, !.verdict = verdict]
           rows == IF RowsOf(f) = {} THEN {NoRow} ELSE {d.id : d \in RowsOf(f)}
       IN  /\ HasText(f) <=> verdict # "unreadable"
           /\ \/ /\ verdict # "accepted" /\ NoPut /\ UNCHANGED slips
                 /\ \E id \in rows : Becomes(s, [next EXCEPT !.on = id])
              \/ /\ verdict = "accepted" /\ Put /\ UNCHANGED slips
                 /\ \E id \in rows : Becomes(s, [next EXCEPT !.on = id, !.copy = copies + 1])
              \/ verdict = "accepted" /\ Slip /\ NoPut /\ Becomes(s, [rest EXCEPT !.lost = @ \union {f}])
  /\ UNCHANGED <<karbonFiles, documents, expired, followed, hand, purge, asks>>

ScanEnds(s, row) ==
  Becomes(s, [Rest EXCEPT !.row = row, !.tries = scans[s].tries,
                          !.whole = row = "succeeded" /\ scans[s].whole, !.lost = scans[s].lost])
ScanFailed(s) == ScanEnds(s, IF scans[s].tries < MaxTries THEN "pending" ELSE "dead")
Recorded(s) ==
  Becomes(s, [scans[s] EXCEPT !.at = "scope", !.file = NoPaper, !.on = NoRow, !.verdict = "", !.copy = NoCopy])

(* recordRefused leaves alone what somebody accepted, as the row said it when *)
(* it was found; read here when it is written, for what a person accepts has  *)
(* no other kind than the scan gave it.                                      *)
Refused(d, kind) == IF d.confirmed = "no" THEN [d EXCEPT !.kind = kind] ELSE d
Accepted(d, kind, copy) ==
  [d EXCEPT !.kind = kind, !.bytes = Bytes(d.paper), !.copy = copy,
            !.confirmed = IF @ = "no" THEN "app" ELSE @]
KindOf(verdict) == IF verdict = "unreadable" THEN UnknownKind ELSE TextKind
After(d, run) ==
  IF run.verdict = "accepted" THEN Accepted(d, TextKind, run.copy) ELSE Refused(d, KindOf(run.verdict))

(* storeAccepted and recordRefused.  The index may refuse the row.           *)
Record(s) ==
  /\ ScanAt(s, "record")
  /\ LET run == scans[s]
         kind == KindOf(run.verdict)
         taken == IF run.on = NoRow THEN Clashes(NoRow, Bytes(run.file), kind)
                  ELSE LET d == After(Row(run.on), run) IN Clashes(d.id, d.bytes, d.kind)
     IN  IF taken THEN ScanFailed(s) /\ UNCHANGED documents
         ELSE /\ Recorded(s)
              /\ IF run.on # NoRow THEN Amend(run.on, LAMBDA d : After(d, run))
                 ELSE Attach(run.file, Bytes(run.file), kind,
                             IF run.verdict = "accepted" THEN "app" ELSE "no", run.copy)
  /\ UNCHANGED <<karbonFiles, stored, expired, copies, followed, hand, purge, asks, slips>>

(* choosePriorYear confirms one of the files it read, or none; the row of the *)
(* scan says how much was read.  The model does not keep which those were, so *)
(* it may confirm any that has text.                                         *)
FinishScan(s) ==
  /\ ScanAt(s, "scope") /\ scans[s].scopes = <<>> /\ scans[s].batch = {}
  /\ \E f \in {g \in Readable : HasText(g)} \union {NoPaper} :
       documents' = {IF d.paper = f /\ f # NoPaper /\ d.confirmed = "no" THEN [d EXCEPT !.confirmed = "app"]
                     ELSE d : d \in documents}
  /\ Becomes(s, [scans[s] EXCEPT !.at = "follow"])
  /\ UNCHANGED <<karbonFiles, stored, expired, copies, followed, hand, purge, asks, slips>>

(* As if there were something to prepare from only when all was read.         *)
WhenWhole(s) == scans[s].whole

FollowUp(s) == TRUE

(* enqueuePreparation, forced: under a key of its own.                       *)
QueueFollowUp(s) ==
  /\ ScanAt(s, "follow") /\ ScanEnds(s, "succeeded")
  /\ followed' = IF FollowUp(s) THEN followed \union {s} ELSE followed
  /\ UNCHANGED <<karbonFiles, documents, stored, expired, copies, hand, purge, asks, slips>>

ScanDies(s) == scans[s].row = "running" /\ Slip /\ ScanFailed(s) /\ ScanReads

ScanGoesOn(s) == StartScan(s) \/ ReadScope(s) \/ Judge(s) \/ Record(s) \/ FinishScan(s) \/ QueueFollowUp(s)
Scanning == \E s \in Scans : ScanGoesOn(s)

-----------------------------------------------------------------------------
(* uploadSourceDocument, and importKarbonDocument, which fetches a catalogued *)
(* file first; both end in SourceDocumentService.upload.                     *)
NoPage == [at |-> "idle"]
HandOnly == UNCHANGED <<karbonFiles, expired, scans, followed, purge>>

AskUpload ==
  /\ hand = NoPage /\ asks < MaxAsks /\ asks' = asks + 1 /\ Put
  /\ \E f \in Readable, k \in Kinds, imported \in BOOLEAN :
       hand' = [at |-> "find", paper |-> IF imported THEN f ELSE NoPaper, bytes |-> Bytes(f),
                kind |-> k, copy |-> copies + 1]
  /\ UNCHANGED <<documents, slips>> /\ HandOnly

(* As if the copy to discard were the one attached before.                   *)
DiscardOther(own, other) == other

Dropped(own, other) == own

(* The same bytes are attached already: the fresh copy is discarded.         *)
FindTwin ==
  /\ hand.at = "find"
  /\ LET same == {d \in documents : d.bytes = hand.bytes /\ d.kind = hand.kind}
     IN  IF same = {} THEN hand' = [hand EXCEPT !.at = "attach"] /\ UNCHANGED stored
         ELSE \E d \in same : stored' = stored \ {Dropped(hand.copy, d.copy)} /\ hand' = NoPage
  /\ UNCHANGED <<documents, copies, asks, slips>> /\ HandOnly

(* Its contents may not bear out what it is said to be: then nobody has       *)
(* confirmed it.  Somebody may have attached the same meanwhile.              *)
AttachByHand ==
  /\ hand.at = "attach"
  /\ hand' = NoPage
  /\ IF Clashes(NoRow, hand.bytes, hand.kind) THEN UNCHANGED documents
     ELSE \E confirmed \in {"no", "user"} : Attach(hand.paper, hand.bytes, hand.kind, confirmed, hand.copy)
  /\ UNCHANGED <<stored, copies, asks, slips>> /\ HandOnly

(* useSourceDocumentCandidate.                                               *)
UseCandidate ==
  /\ asks < MaxAsks /\ asks' = asks + 1
  /\ \E d \in documents : /\ d.confirmed = "no" /\ d.paper # NoPaper
                          /\ Amend(d.id, LAMBDA r : [r EXCEPT !.confirmed = "user"])
  /\ UNCHANGED <<hand, stored, copies, slips>> /\ HandOnly

HandDies == hand.at \in {"find", "attach"} /\ Slip /\ hand' = NoPage /\ UNCHANGED <<documents, stored, copies, asks>> /\ HandOnly

Attaching == AskUpload \/ FindTwin \/ AttachByHand \/ UseCandidate \/ HandDies

-----------------------------------------------------------------------------
(* PURGE_TEMPORARY_FILES.  What was stored first expires first.              *)
Expire ==
  /\ asks < MaxAsks /\ asks' = asks + 1
  /\ \E c \in 1 .. copies : expired = 1 .. c - 1 /\ expired' = 1 .. c
  /\ UNCHANGED <<karbonFiles, documents, stored, copies, scans, followed, hand, purge, slips>>

Resting == [at |-> "asleep"]
PurgeOnly == UNCHANGED <<karbonFiles, expired, copies, scans, followed, hand, asks>>

(* As if what is gone already needed no sweeping.                            *)
StillStored(d) == d.copy \in expired /\ d.copy \in stored

Selected(d) == d.copy \in expired

(* A pass that finds nothing changes nothing, and is left out.               *)
SelectExpired ==
  /\ purge.at = "asleep" /\ (expired \intersect stored # {} \/ \E d \in documents : Selected(d))
  /\ purge' = [at |-> "delete", rows |-> {<<d.id, d.copy>> : d \in {e \in documents : Selected(e)}}]
  /\ UNCHANGED <<documents, stored, slips>> /\ PurgeOnly

(* A delete that fails is passed over, and the reference forgotten as well.   *)
DeleteBytes ==
  /\ purge.at = "delete"
  /\ \E r \in purge.rows :
       /\ \/ stored' = stored \ {r[2]} /\ UNCHANGED slips
          \/ Slip /\ UNCHANGED stored
       /\ purge' = [at |-> "clear", rows |-> purge.rows \ {r}, row |-> r[1]]
  /\ UNCHANGED documents /\ PurgeOnly

(* By its id: a copy a scan has put there meanwhile is forgotten as well.     *)
ClearReference ==
  /\ purge.at = "clear"
  /\ Amend(purge.row, LAMBDA d : [d EXCEPT !.copy = NoCopy])
  /\ purge' = [at |-> "delete", rows |-> purge.rows]
  /\ UNCHANGED <<stored, slips>> /\ PurgeOnly

(* purgeExpired: the bytes no row points at any more, too.                   *)
DropExpired ==
  /\ purge.at = "delete" /\ purge.rows = {}
  /\ stored' = stored \ expired /\ purge' = Resting
  /\ UNCHANGED <<documents, slips>> /\ PurgeOnly

PurgeDies == purge # Resting /\ Slip /\ purge' = Resting /\ UNCHANGED <<documents, stored>> /\ PurgeOnly

Purging == SelectExpired \/ DeleteBytes \/ ClearReference \/ DropExpired

-----------------------------------------------------------------------------
PapersInit ==
  /\ twins \in BOOLEAN /\ filed \in Filings /\ found \in SomeOf(PriorItems, ItemLimit)
  /\ documents = {} /\ stored = {} /\ expired = {} /\ copies = 0
  /\ scans = [s \in Scans |-> Rest] /\ followed = {}
  /\ hand = NoPage /\ purge = Resting /\ asks = 0 /\ slips = 0

PapersNext ==
  \/ Scanning
  \/ \E s \in Scans : AskScan(s) \/ ScopeFails(s) \/ ScanDies(s)
  \/ Attaching \/ Expire \/ Purging \/ PurgeDies

-----------------------------------------------------------------------------
(* "A document missing here has not been shown to be missing from Karbon" is  *)
(* what an incomplete scan says.  What a complete one has shown: wherever it  *)
(* asked (the engagement's own item, those of last year's Karbon returned,    *)
(* the client itself) every file named .docx or .pdf has a row, but for those *)
(* it accepted and could not store, which the code counts as accepted.  It    *)
(* has not shown that each could be read: a file without text has its row,    *)
(* and the scan stays complete, contrary to the head of the source file.      *)
CompleteMeansSeen ==
  \A s \in Scans : scans[s].row = "succeeded" /\ scans[s].whole =>
    \A a \in Asked : \A f \in (filed[a] \intersect Readable) \ scans[s].lost : RowsOf(f) # {}

(* A working copy whose retention is not over stays readable as long as a row *)
(* points at it, whoever attaches the same bytes again and whatever a purge   *)
(* and a scan do to its row meanwhile.                                       *)
KeptWhileNeeded ==
  \A d \in documents : d.copy = NoCopy \/ d.copy \in expired \/ d.copy \in stored

(* What has expired goes in the end, and no row is left pointing at it: not    *)
(* by a purge that died between the bytes and the reference, nor by a delete  *)
(* that failed, nor by a scan or a person who recorded a copy after its       *)
(* retention was over.                                                       *)
RetentionEnds == []<>(\A c \in expired : c \notin stored /\ \A d \in documents : d.copy # c)

(* "Preparation follows whatever the scan found, including nothing", however  *)
(* often its worker dies.  (Where the same bytes have two rows, or come to    *)
(* have them, the index refuses the scan's on every attempt.)                *)
Doubled == twins \/ \E d \in documents : d.paper = NoPaper \/ \E e \in RowsOf(d.paper) : e # d
ScanIsFollowed ==
  []<>(\A s \in Scans : scans[s].row # "none" => s \in followed \/ Doubled)
=============================================================================
