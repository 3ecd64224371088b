------------------------------ MODULE KarbonClient ------------------------------
(***************************************************************************)
(* Karbon through its REST client (packages/integrations/src/karbon/       *)
(* client.ts): a client's library read area by area into the catalogue     *)
(* (packages/services/src/karbon-library-service.ts), and a draft          *)
(* published on its work item (karbon-notification.ts).  Every request may *)
(* be throttled, lost or refused; a worker may die between two of them and *)
(* the job starts over.                                                    *)
(***************************************************************************)
EXTENDS Naturals, Sequences, FiniteSets, SequencesExt

CONSTANTS
  People,      \* contacts of the client
  WorkItems,   \* work items it may ever have
  OwnArea,     \* the client's own document area
  ItemLimit,   \* maxWorkItems
  MaxPages,    \* MAX_SEARCH_PAGES, of one work item here
  MaxRequests, \* maxRetries: attempts a request is given
  MaxTrouble,  \* bound: answers that are not one, and deaths
  MaxMoves     \* bound: work items that come or go

ASSUME KarbonClientAssumption ==
  /\ IsFiniteSet(People) /\ OwnArea \notin People \union WorkItems
  /\ ItemLimit \in Nat /\ MaxPages \in Nat
  /\ MaxRequests \in Nat \ {0} /\ MaxTrouble \in Nat /\ MaxMoves \in Nat

VARIABLES
  record,     \* what the client's key names in Karbon
  items,      \* its work items, in the order a search lists them
  place,      \* the area one document of the client's is filed in
  dropped,    \* a work item was taken away since the last sync began
  catalogue,  \* whether karbon_client_document has a row for it
  recorded,   \* karbon_library_sync.complete of the syncs that finished
  posted,     \* how often each part of a draft arrived on the work item
  honoured,   \* Karbon answers a repeated Idempotency-Key with the first answer
  call,       \* the job's place, and what it read
  trouble, moves

client == <<record, items, place, dropped, catalogue, recorded, posted, honoured, call, trouble, moves>>
elsewhere == <<record, items, place, honoured>>

Parts == {"docx", "pdf", "note"}
Quiet == [at |-> "quiet", try |-> 1]
ToPublish == [Quiet EXCEPT !.at = "docx"]
Reading == {"organization", "contact", "areas", "search", "item_areas"}
Asking == Reading \union Parts

NothingRead == [at |-> "organization", try |-> 1, left |-> <<>>, contacts |-> {}, listed |-> <<>>,
                skip |-> 0, found |-> FALSE, failures |-> {}]

-----------------------------------------------------------------------------
(* Karbon, where people go on working; a search sees the list as it is.      *)
ItemComes ==
  /\ moves < MaxMoves /\ moves' = moves + 1
  /\ \E w \in WorkItems \ ToSet(items) : items' = <<w>> \o items
  /\ UNCHANGED <<record, place, dropped, catalogue, recorded, posted, honoured, call, trouble>>

ItemGoes ==
  /\ moves < MaxMoves /\ moves' = moves + 1 /\ dropped' = TRUE
  /\ \E i \in DOMAIN items : items[i] # place /\ items' = RemoveAt(items, i)
  /\ UNCHANGED <<record, place, catalogue, recorded, posted, honoured, call, trouble>>

-----------------------------------------------------------------------------
(* request: a retryable status, a timeout or an answer that is no JSON is    *)
(* tried again; a refusal, or the last attempt, is the caller's failure.     *)
AtOnce(stage) == [stage EXCEPT !.try = 1]

TryAgain ==
  /\ call.at \in Asking /\ call.try < MaxRequests /\ trouble < MaxTrouble
  /\ trouble' = trouble + 1 /\ call' = [call EXCEPT !.try = @ + 1]
  /\ UNCHANGED elsewhere /\ UNCHANGED <<dropped, catalogue, recorded, posted, moves>>

Gives(after) ==
  /\ call' = AtOnce(after)
  /\ UNCHANGED elsewhere /\ UNCHANGED <<dropped, catalogue, recorded, posted, trouble, moves>>

Fails(after) ==
  /\ trouble < MaxTrouble /\ trouble' = trouble + 1
  /\ call' = AtOnce(after)
  /\ UNCHANGED elsewhere /\ UNCHANGED <<dropped, catalogue, recorded, posted, moves>>

(* The worker dies, or the call throws; the job is run again from its start. *)
DieOrThrow ==
  /\ call.at \notin {"quiet", "synced", "published"} /\ trouble < MaxTrouble /\ trouble' = trouble + 1
  /\ call' = IF call.at \in Parts THEN ToPublish ELSE NothingRead
  /\ dropped' = FALSE
  /\ UNCHANGED elsewhere /\ UNCHANGED <<catalogue, recorded, posted, moves>>

-----------------------------------------------------------------------------
(* listClientLibrary.  getClient: an organization, else a contact, else      *)
(* nobody, which is no failure.                                              *)
BeginSync ==
  /\ call = Quiet /\ call' = NothingRead /\ dropped' = FALSE
  /\ UNCHANGED elsewhere /\ UNCHANGED <<catalogue, recorded, posted, trouble, moves>>

AreasOf(contacts) == <<OwnArea>> \o SetToSeq(contacts)

ReadOrganization ==
  /\ call.at = "organization"
  /\ Gives(IF record = "Organization"
           THEN [call EXCEPT !.at = "areas", !.contacts = People, !.left = AreasOf(People)]
           ELSE [call EXCEPT !.at = "contact"])

ReadContact ==
  /\ call.at = "contact" /\ Gives([call EXCEPT !.at = "areas", !.left = AreasOf({})])

(* As if a record that could not be read were a client nobody answers for.   *)
Forgotten(failures, scope) == IF scope = "record" THEN failures ELSE failures \union {scope}

Failure(failures, scope) == failures \union {scope}

RecordFails ==
  /\ call.at \in {"organization", "contact"}
  /\ Fails([call EXCEPT !.at = "areas", !.left = AreasOf({}), !.failures = Failure(@, "record")])

(* collect: one area after the other; what one list had is kept by the file's *)
(* key, and an area that cannot be read is recorded and passed over.          *)
AfterArea(c, stage) == [c EXCEPT !.left = Tail(@), !.at = IF Len(c.left) = 1 THEN stage ELSE @]
StageAfter == IF call.at = "areas" THEN "search" ELSE "cataloguing"

ListArea ==
  /\ call.at \in {"areas", "item_areas"}
  /\ Gives(AfterArea([call EXCEPT !.found = @ \/ Head(call.left) = place], StageAfter))

AreaFails ==
  /\ call.at \in {"areas", "item_areas"}
  /\ Fails(AfterArea([call EXCEPT !.failures = Failure(@, Head(call.left))], StageAfter))

(* searchWorkItems: page after page from the offset nextLink names, as far   *)
(* as the limit; pages that never end are an error, and so is one that fails: *)
(* nothing of the search is kept.                                            *)
ItemsFrom(listed) ==
  [call EXCEPT !.left = listed, !.listed = listed,
               !.at = IF listed = <<>> THEN "cataloguing" ELSE "item_areas"]

SearchPage ==
  /\ call.at = "search"
  /\ LET page == IF call.skip < Len(items) THEN <<items[call.skip + 1]>> ELSE <<>>
         listed == call.listed \o page
         more == call.skip + 1 < Len(items)
     IN  Gives(CASE Len(listed) = ItemLimit \/ page = <<>> \/ ~more -> ItemsFrom(listed)
                 [] Len(listed) # ItemLimit /\ more /\ call.skip + 1 < MaxPages ->
                      [call EXCEPT !.skip = @ + 1, !.listed = listed]
                 [] OTHER -> [ItemsFrom(<<>>) EXCEPT !.failures = Failure(@, "items")])

SearchFails ==
  /\ call.at = "search"
  /\ Fails([ItemsFrom(<<>>) EXCEPT !.failures = Failure(@, "items")])

(* KarbonLibraryService.sync: the documents, then the sync's own row.        *)
Catalogue ==
  /\ call.at = "cataloguing"
  /\ catalogue' = (catalogue \/ call.found) /\ call' = [call EXCEPT !.at = "finishing"]
  /\ UNCHANGED elsewhere /\ UNCHANGED <<dropped, recorded, posted, trouble, moves>>

FinishSync ==
  /\ call.at = "finishing"
  /\ recorded' = IF call.failures = {} THEN "complete" ELSE "incomplete"
  /\ call' = [call EXCEPT !.at = "synced"]
  /\ UNCHANGED elsewhere /\ UNCHANGED <<dropped, catalogue, posted, trouble, moves>>

-----------------------------------------------------------------------------
(* publishDraft: the Word file, the PDF, a note.  The name of an attempt is  *)
(* what it posts, of which version, where; not which attempt it is.          *)
(* As if every attempt had a key of its own.                                 *)
Unrecognised(part) == FALSE

Recognised(part) == honoured /\ posted[part] > 0

Arrives(part) == posted' = IF Recognised(part) THEN posted ELSE [posted EXCEPT ![part] = @ + 1]

AfterPart == [docx |-> "pdf", pdf |-> "note", note |-> "published"]

Post ==
  /\ call.at \in Parts /\ Arrives(call.at)
  /\ call' = [call EXCEPT !.at = AfterPart[call.at], !.try = 1]
  /\ UNCHANGED elsewhere /\ UNCHANGED <<dropped, catalogue, recorded, trouble, moves>>

(* It arrived, and the answer did not.                                       *)
PostIsLost ==
  /\ call.at \in Parts /\ Arrives(call.at) /\ trouble < MaxTrouble /\ trouble' = trouble + 1
  /\ call' = IF call.try < MaxRequests THEN [call EXCEPT !.try = @ + 1] ELSE ToPublish
  /\ UNCHANGED elsewhere /\ UNCHANGED <<dropped, catalogue, recorded, moves>>

-----------------------------------------------------------------------------
ClientInit ==
  /\ record \in {"Organization", "Contact", "ClientGroup"}
  /\ items \in {s \in SeqOf(WorkItems, 2) : IsInjective(s)}
  /\ place \in {OwnArea} \union ToSet(items) \union (IF record = "Organization" THEN People ELSE {})
  /\ dropped = FALSE /\ catalogue = FALSE /\ recorded = "never"
  /\ posted = [p \in Parts |-> 0] /\ trouble = 0 /\ moves = 0
  \* a behaviour is about the one job or the other
  /\ \/ call = Quiet /\ honoured = TRUE
     \/ call = ToPublish /\ honoured \in BOOLEAN /\ items = <<>> /\ place = OwnArea

SyncingLibrary ==
  \/ BeginSync \/ ReadOrganization \/ ReadContact \/ RecordFails \/ ListArea \/ AreaFails
  \/ SearchPage \/ SearchFails \/ Catalogue \/ FinishSync

Posting == Post \/ PostIsLost

ClientNext ==
  ItemComes \/ ItemGoes \/ TryAgain \/ DieOrThrow \/ SyncingLibrary \/ Posting

-----------------------------------------------------------------------------
(* karbon_library_sync: "91 documents from a complete read and 91 from a     *)
(* read that lost two work items to a timeout are different answers".  A     *)
(* sync recorded as complete catalogued what was filed, wherever it was, and *)
(* whatever was added meanwhile; but for a work item taken away under the    *)
(* paging, and the ones beyond the limit, which are passed over in silence.  *)
Cut == Len(call.listed) = ItemLimit
LibraryIsHonest ==
  call.at = "synced" /\ recorded = "complete" /\ ~dropped /\ ~Cut => catalogue

(* karbonUploadIdempotencyKey: "retrying an upload" does not file a draft    *)
(* twice.  Where Karbon honours the key, each part arrives once, however     *)
(* often its answer is lost and the job starts over, and a job that ends has *)
(* posted them all.                                                          *)
PublishedOnce ==
  \A p \in Parts : /\ honoured => posted[p] =< 1
                   /\ call.at = "published" => posted[p] > 0
=============================================================================
