# Verification of the engagement workflow

TLA+ specifications of the engagement-letter system, kept beside its code. They
model what the code does, statement by statement where two requests can meet
between statements, and say what is checked of it (TLC, small instances) and
what is proved of it (TLAPS, every value of the constants). `PROJECT.json` maps
every definition to the lines it stands for, and lists the runs, the hazards
they aim at, the mutations that each property catches, the findings and the
theorems.

    tlc -workers 2 -config SigningSafety.cfg MCSigning.tla    # one run
    tlapm Signing_proofs.tla                                  # the proofs of one module

## 1. The system

Two kinds of process share one Postgres database. **Web** processes (Next.js)
run server actions for staff and receive webhooks; **worker** processes claim
jobs from the table `background_job`. Any number of replicas of each may run.
Karbon (practice management), Adobe Sign, Microsoft Graph and LibreOffice are
called over HTTP or as child processes; each call can fail or time out, and a
process can end between any two statements. The centre of the data is the
*engagement*, whose `status` moves through one transition table.

| Part | State | Operations | Talks to |
|---|---|---|---|
| Job queue (`services/jobs/queue.ts`) | `background_job` rows: status, key, attempt, lock, `runAt` | enqueue, enqueueRerunnable, claim, succeed, fail, retry, reclaimStuckJobs, purgeSucceededJobs | every service that defers work; the worker |
| Worker (`apps/worker`) | slots in flight | dispatch loop, runHandler, maintenance, polls | queue, all handlers |
| Status table (`workflows/engagement-state-machine.ts`) and trigger | none | `canTransition` | workflow service, Postgres trigger |
| Workflow service | `engagement.status`, workflow events | `transition` | everything that moves an engagement |
| Preparation | source documents, extracted fields, confirmations | locate, scan, extract, prepare, reconcile | queue, Karbon, extraction |
| Generation | document versions | evaluateGate, generate | queue, renderer, workflow |
| Review and approval | approvals, wording exceptions, comments | startReview, requestChanges, approveDocument, markReadyToSend | workflow |
| Signing (`signing-service.ts`) | `adobe_agreement`, `adobe_event`, version status | sendForSignature, processWebhook, applyAgreementState, returnSignedDocumentsToKarbon | Adobe, Karbon, queue, workflow |
| External signature | evidence rows | record, fileToKarbon | workflow, Karbon |
| Cover letter and delivery | cover-letter packages, sources, deliveries | trigger gate, generate, detectStaleSources, approve, deliver | queue, workflow, Karbon |
| Bulk rollout, engagement creation | engagements, rollout runs | preview, run, create, propose, rollForward | queue |
| Karbon triggers, webhook, work status | triggers, last pushed status | poll, webhook, sync | Karbon, queue |
| Notifications | notification rows, email attempts | notify, drain | Graph |
| Client import, directory, scan | clients, contacts, findings | run, scan | Karbon |
| Templates | template versions | uploadDraft, activate, discardDraft | generation |
| Pricing, dates | rules | pure calculation | preparation |
| Rendering, extraction, storage, identity | files, sessions | conversions, checks | — |

What is hard about it: two callers between a SELECT and an INSERT; a job whose
worker was killed, or is only slow; outcomes written by id from a snapshot;
provider calls that succeed without their answer arriving; webhooks that are
lost, repeated or late, beside a poll that reports the same thing; status moves
that commit apart from the rows they describe; and pages that show a state that
is gone. The hazards, each with the line where it bites and the properties aimed
at it, are listed in `PROJECT.json`. What makes each part correct:

- *Queue*: no job lost; no job run twice at once; every job settles.
- *Workflow*: the status only ever moves along the table, however stale the
  reads it is moved from; an engagement does not stay parked.
- *Preparation*: decisions stand; what the sources disagree on is asked; the
  last answer counts.
- *Review and generation*: what goes out was approved by somebody else than its
  author and stays what was approved; a reviewer has a draft to read.
- *Signing*: no second open agreement for one letter; a version goes out once,
  and signed as it was read; nothing reads signed that is not; a signature is
  noticed and filed.
- *Cover letter*: started by whichever condition comes last, one live letter per
  selection, filed only when approved by somebody else.
- *Creation, rollout, import*: an item rolls once, an engagement gets one first
  draft, every client arrives, and what was made does not stay empty.
- *Karbon, Adobe and the documents*: a synchronisation or a scan that says it saw
  everything did, as far as it was to look; stored copies last as long as their
  retention, and no longer; nothing is published twice; Test Mode reaches every adapter.
- *Notices and statuses*: each is delivered, or given up after its attempts.
- *Rules*: fees, deadlines, printed values and the choice of last year's letter
  agree with independent definitions at their boundaries.

## 2. The modules

| Module | Models | Checked by |
|---|---|---|
| `JobQueue` | `jobs/queue.ts`, the worker's slots, maintenance, the Retry button | `queue_*`, proofs |
| `JobLedger` | abstract: what the queue promises | refinement |
| `EngagementStates` | the transition table | used by seven modules |
| `Drafting` | the handlers from the first document to a draft under review, and the sweep | `drafting`, proofs |
| `Preparation` | `preparation-service.ts`, settle, the decisions of people | `preparation`, proofs |
| `Review` | versions, wording exceptions, approval, both ways of signing | `review`, proofs |
| `ApprovalRegister` | abstract: made, approved by another, gone | refinement |
| `Signing` | `signing-service.ts`, webhooks, poll, filing, with Adobe | `signing_*`, proofs |
| `Signers`, `Rendering` | signers, the copy for signature, what Adobe is given | `front_office`, `FrontOffice_proofs` |
| `CoverLetter` | cover letters from their triggers to delivery | `cover_letter`, proofs |
| `Intake` | creation by hand and by Karbon triggers, deletion | `intake`, proofs |
| `Rollout` | the annual rollout | `front_office`, proofs |
| `ClientFile` | client import, directory, contacts | `front_office`, proofs |
| `KarbonClient` | the REST client under the library sync and a publication | `front_office`, proofs |
| `Connections` | connections, the two switches, `resolveProviders` | `front_office`, proofs |
| `Rules` (`Calendar`, `Fees`, `Values`, `Evidence`, `Extraction`) | deadlines, fees, printed values, last year's letter, what a document is and what is merged from several | `front_office`, `unread_letters`, proofs |
| `SourceDocuments` | scan, uploads, retention | `back_office`, proofs |
| `Outbox` | notices and their e-mail, work statuses | `back_office` |
| `Publishing` | template versions, administrators | `back_office`, proofs |
| `FrontOffice`, `BackOffice` | compositions of the above, one *desk* per behaviour | — |
| `MCJobQueue`, `MCSigning`, `MCReview`, `MCCoverLetter`, `MCBackOffice` | instances and symmetry | — |
| `JobQueue_proofs`, `Drafting_proofs`, `Preparation_proofs`, `Review_proofs`, `Signing_proofs`, `CoverLetter_proofs` | theorems about one module each | TLAPS |
| `FrontOffice_proofs` | theorems about the parts at its desks | TLAPS |
| `BackOffice_proofs` | theorems about its desks and about `Intake` | TLAPS |

The modules meet in the rows they share. A job is one row of `JobQueue`
everywhere: `Drafting`, `CoverLetter`, `Intake`, `Rollout`, `SourceDocuments`
and the filing job of `Signing` keep what that module shows of it (one worker
at a time, a key that answers for its job, retries up to `maxAttempts`, the
purge). The status is written through `WorkflowService.transition`, two steps in
`Drafting` and one elsewhere: between its read and its write only the status may
change, and the trigger judges the status it finds. `Drafting`, `Review`,
`Signing` and `CoverLetter` are one engagement's way through the table, each
taking it where the one before leaves it.

`FrontOffice` and `BackOffice` put parts that share no written row side by side.
`desk`, chosen at Init, says which part a behaviour is about, so their state
spaces add up instead of multiplying: the interleaving of two such parts shows
nothing that each alone does not. The desks are questions of their own, grouped
for the convenience of running them.

### JobQueue

One action is one SQL statement (or one step of the worker between two of
them). `EnqueueFind`, `EnqueueCreate` and `EnqueueRaced` are the SELECT, the
INSERT, and the INSERT that meets the unique index; `EnqueueAgain` is
`enqueueRerunnable` falling through to its second key (`Reruns` names the keys
it may build). `Claim` is the `FOR UPDATE SKIP LOCKED` statement; `tryOf` is the
attempt number the worker keeps from it, from which `Fail` decides.
`HandlerReturns` and `HandlerThrows` end a handler, `Succeed`, `SucceedThrows`,
`Fail`, `FailThrows` and `Surface` are the rest of `runHandler`, each by id only
as in the code. `Crash` ends a worker with all its slots. A reclaim pass is two
statements, `ReclaimBury` and `ReclaimRelease`, which use the list `stuck` that
was read before. `PurgeSucceeded` deletes old rows and frees their keys.

Clocks are the set `aged`: rows whose `runAt` has come, whose lock is older than
fifteen minutes or whose success is older than the retention, according to
their status. `TimePasses` puts a row there. `SlowHandlers` says whether a lock
may age while its handler still runs, `StalePages` whether Retry may meet a row
that is no longer `DEAD_LETTER`. Priorities, job types, payloads and the length
of back-offs are left out. `finished` is a history variable: the jobs some
handler ran to the end of.

### JobLedger

The promise: a job is opened, taken by at most one slot, finished or buried,
reopened only from the dead, and gone only when done. `JobQueue` refines it
(`phaseBar`, `heldBar`; property `KeepsLedger`).

### EngagementStates

`Successors` and `canTransition`, the 29 statuses and their transitions as the
TypeScript table has them, which is also what the migrations seed for the
trigger.

### Drafting

`handlers.ts` from EXTRACT_SOURCE_DOCUMENT to UPLOAD_DRAFT, one engagement. A
job is a kind and a number; `job` and `tries` are its row, `at` the place of its
run. `ReadStatus` and `WriteStatus` are the two halves of `transition`, with the
check of the table at the first and the trigger at the second; `Moving` and
`Moved` are the statements around it. `Start`, `Return`, `Fail` (retryable or
permanent) and `Die` are the worker's. `Prepare`, `AskStatus`, `Autostart` are
PREPARE_ENGAGEMENT and the autostart of the generation; `Extract`,
`QueuePreparation`, `FinishScan` the extraction and scan jobs; `Admit`,
`Render`, `QueueUpload`, `Publish` generation and upload. `SelectParked`,
`CountLive`, `FindLastFailure` are the sweep, one statement each. `Choose`,
`Attach`, `PressGenerate`, `PressScan`, `ResolveBlockers`, `Retry`,
`StartReview`, `RequestChanges` are people. `HalfHourPasses` stands for
`updatedAt`. Document contents and extracted values are `Preparation`'s; the
gate's blockers are one Boolean, `gateOpen`.

### Preparation

`prepare` statement by statement, over one row of each kind: a signer, one token
two sources may disagree on (`conflicts`), one dated row waiting for a fact, one
fee. `known` is what a run has read and not used; `Stop` ends a run anywhere.
Buttons run the same code in their request (`Requests`). `Settle` is what the
job does with rows in no doubt. People correct the client, answer the fact, edit
and confirm the signer and the date, resolve conflicts, override and approve the
fee, each with its read and its later write. History are `kept` (what was decided
while nothing ran), `alone` (the run nothing interfered with) and `overlapped`
(two have run at once).
Service selections and the removal of a signer are left out (removal is in
`Signers`).

### Review and ApprovalRegister

Versions of one letter. A generation (`StartGeneration`, `Collect`, `Number`,
`CreateVersion`, `SupersedePrevious`, `AnnounceDraft`) reads the approved wording
exceptions, then numbers, inserts and supersedes, each apart. People act by
steps: `StartReview`/`TakeUp`, `RequestChanges`/`SendBack`,
`CheckApproval`/`CommitApproval`/`AnnounceApproval`, `MarkReadyToSend`,
`CheckSend`, `CountAttempts`, `AnnounceSending`, `Reserve`, `SendOut` or
`FailToSend`, `AnnounceSent`; `CheckExternal`/`RecordExternal`/`AnnounceSigned`.
An agreement is named by its key, a version and the number of the attempt:
`Reserve` is the upsert by key, with which a second sender who counted the same
rows goes on, while another key is refused by the index as long as a row is live.
`About` is the version the page was rendered for, which may be old. `clear` is
everything else the gates ask for. `ApprovalRegister` is the promise: a version
is made by an author, approved by somebody else, and goes out only approved.

### CoverLetter

A package is named by its selection of final documents, as its key is made of
their fingerprint. `FileSigned`, `AskStatus`, `Weigh`, `QueueLetter` are the two
autostarts; `PassGate`, `Enter`, `ReadSources`, `OpenPackage`, `Render`,
`ClosePackage`, `AnnounceLetter` generation; `FindStale`, `MarkStale`, `Reopen` the
check of the sources, which the gates repeat; `CheckLetter`, `CommitLetter`,
`AnnounceApproval`, `CheckReady`, `MarkReady`, `AnnounceReady`, `QueueDelivery`,
`ReadNarrative`, `Unapprove` the pages; `FetchPackage`, `FileLetter`,
`RecordDelivery`, `AnnounceDelivery` delivery. `MayBe` is the index
`cover_letter_one_live`. Nothing under `src/` marks a document as final and
included; the integration tests write both flags, and so does `Attach`.

### Intake

One client. `engagements` are rows with where they came from; `roll` is the
rollover job of an item and a trigger, which reads (`FindItem`, `FindRolled`,
`FindPrevious`, `FindExisting`), inserts against the unique (client, type, year)
(`CreateRolled`), and queues the scan and the preparation that fill what it made.
`AskCreate`/`Create` and `AskDelete`/`FindEvidence`/`Delete` are people's requests,
`PurgeRollover` the purge that frees a key.

### Rollout, ClientFile, KarbonClient, Connections

`Rollout`: evaluate again, queue the chosen items one by one, expand each item
into its generation; a batch is a preview, whose page may be submitted twice.
`ClientFile`: an import reads Karbon page by page, mirrors each client's row by
its Karbon key, backfills and adds contacts; it is retried from the start, may
overlap another, and forms save what they showed. `KarbonClient`: every request
is tried again as `request` does (`TryAgain`, `Gives`, `Fails`), and the areas of
a client are listed one after another while work items come and go; a publication
is an upload, a comment and their idempotency keys. `Connections`: saving,
checking, clearing and authorising a connection and moving a switch read first
and write later; `Resolve` reads the environment, the settings and the row one
after the other. A blank Karbon host is its production default.

### Rendering and Signers

`Rendering` is a body as a sequence of blocks with their marks, and the operators
that trim it, reword it, tick it, tag it for signature, fill its tokens and
validate it, over two letters reduced to one block of each kind. `Signers`
composes them: people name, correct, confirm and remove signers by steps, a
generation reads and stores, an approval and the copy for signature follow, and a
send passes its gate, reads the signers again and hands Adobe the participant
sets. Narrative edits, headers, highlights, page counts and CC recipients are
left out; an address is usable or missing.

### Rules

Pure code as operators: `Fees` (rule resolution, every method, rounding),
`Calendar` and the rule engine in `Rules`, `Values` (which source of a field is
printed, and what the readiness check says of it), `Evidence` (scoring, automatic
acceptance and the choice of last year's letter), `Extraction` (which kind of
document a text is, by weighted phrases, with the name of the file asked only
among equals; which patterns are run over it; and how findings about one field
from several documents become a value or a conflict). `asked` enumerates the inputs
the program can store; `answer` is what it computes, and the fee row may be typed
over afterwards. The properties are stated by other means than the code's: a
month end as the day after which the month changes, a count of business days as
the cardinality of a set, an amount as an inequality. The pricing rules are a
constant: any the service agrees to store (`Storable`) in the proofs, a sample of
every level and method (`RulesOnFile`) in the runs.

### SourceDocuments, Outbox, Publishing

`SourceDocuments`: scans read one scope after another (the engagement's own work
item, as many of last year's as Karbon is asked for, the client), of each the
files named .docx or .pdf as far as there is room, and record file by file what
they made of it: no text came out of it, or it was refused, or accepted and
stored. People upload, import and accept candidates; a purge selects, deletes
the bytes, or fails to, and clears the reference. `filed` and `found` are
Karbon's answers, `twins` says that all files have the same bytes. `Outbox`:
`LookUp`/`Tell` are `notify`, the drain takes the oldest notices, sends and
records; the push compares, calls Karbon and records. `Publishing`: an upload
reads the newest version, looks for an identical one, numbers and inserts;
activating and discarding check and then write; taking away a role counts the
other administrators first.

### Signing

One engagement with one document version, which has been approved. The key of
the n-th attempt stands for `adobeAgreementIdempotencyKey`, whose other parts
(client, type, year, version) are fixed here, so an attempt number is a key.

*Sender* (`at`): `PassGate` (evaluateSendGate), `Count` (the count of agreement
rows), `Deduplicate`/`AskAdobe`/`Adopt` (a row or an agreement under the key
exists), `StartSending`, `Reserve` (the upsert of the CREATED row, outside the
try), `CreateAgreement`, `LoseAnswer` (the POST reached Adobe and timed out; the
client posts again), `CreateFails`, `Record` (the transaction over row and
version), `MarkSent`, and the catch: `MarkFailed`, `Restore`. `rejected` is a
call that ended in an error. `SenderCrash` ends it anywhere. The unique index
of the migration is `IndexAllows`.

*Adobe*: `Issue`, `AdobeMoves` (a signer signs, declines, ...), and the webhooks
`pending`, each delivered again until it is answered 200 or is lost.

*Readers* are the webhook handlers and the poll. `Deliver` records the event
(its own committed statement), `Duplicate` answers a recorded one;
`ReadAgreement`, `ApplyToRow`, `ApplyToEngagement` and `Conclude` are
`applyAgreementState` between its statements, then the enqueue of the filing
job. `ReaderFails` is an exception or the end of the process at any of them; a
webhook is then pending still, and a poll's pass is over.

*Filing* (`job`): `Upload`, `RecordFiling`, `MarkVersionSigned`, `Complete` are
`RETRIEVE_SIGNED_DOCUMENTS`; it is held by the queue, which module `JobQueue`
models, as one job that is retried or dead-lettered (`FilingFails`), retried by
an administrator (`RetryFiling`) and purged (`PurgeFiling`). `karbon` is what
the job resolves Karbon to: connected, the mock provider, or no target.

*People*: `MarkReadyToSend` and `RequestChanges`, in whatever status the table
lets them.

Simplifications: `WorkflowService.transition` is one step, its read and its
commit together (module `Drafting` takes them apart). Adobe is the
real provider; the mock's rows are not modelled. One pass of the poll runs at a
time. Signers' rows, names, hashes, audit rows and notices are left out. A
second document version and an external signature are module `Review`, the
signers module `Signers`; so READY_TO_SEND -> SIGNED does not happen here.

## 3. The runs

Bounds are named in the `.cfg` files. Every run finishes within five minutes on
two cores; the largest has 4.4 million distinct states.

| Run | Question | Instance and why it is enough |
|---|---|---|
| `queue_hazards` | `NothingLost`: does anything get lost with every hazard on? | 2 workers, 2 rows, 2 attempts, a rerunnable key and its successor, a stale page, slow handlers: a late run, its successor and a reclaim meet on one row |
| `queue_exclusive` | `ExclusiveJobs`, `KeepsLedger`, `Settles`: with prompt handlers, is the queue a lease that keeps the ledger, and does every job settle? | 2 racing callers, 2 workers, 2 rows with different keys, 2 attempts: a race needs two, a reclaim between attempts needs two |
| `drafting` | `ReviewHasDraft`, `Unparked` | 1 document, 3 drafts, 2 attempts, 1 press, 1 fault, 2 jobs at once: two generations, or one and the sweep or a person, meet between the halves of a transition; a crash is followed by a retry |
| `preparation` | `DecisionsStand`, `DisagreementAsked`, `LastAnswerCounts` | 1 job, 1 request, 3 runs, 2 presses, 2 conflict rows: two runs overlap, a decision falls between them, and a third run follows |
| `review` | `WordingApprovedByAnother`, `ApprovedStays`, `KeepsRegister` | 2 users, 1 generator, 1 exception, 2 versions, 4 presses: an author, another, and a stale page on the first version while the second is made |
| `signing_hazards` | `SignedOnlyIfCompleted` with two senders and every failure | 2 senders on one key (1 attempt), 2 agreements, lost answers, refused calls, failed statements, crashes; the poll reads |
| `signing_safety` | `OneLiveAgreement`, `SentWhileApproved`, `SignatureNoticed`, `SignedGetsFiled`: one sender at a time and no lost answer | 2 attempts and 2 agreements, one webhook handler and the poll, crashes, lost webhooks, failing filings: a second attempt after a crash is where a second letter would come from |
| `cover_letter` | `FiledWasApproved`, `OneLiveLetter`, `LastOneStarts` | 2 users, a selection that lacks a document and one that does not, 2 versions, 3 presses, 1 fault: both autostarts, an approval and a change of sources race |
| `intake` | `RolledOnce`, `RolledIsPrepared` | 1 item, 2 triggers, 2 types, 2 engagements, 1 form, 2 attempts, 1 mishap: two rollovers of one item race each other, a hand creation or a deletion |
| `front_office` | one property per desk, four for the rules | below |
| `back_office` | `NoTwins`; `NoticesAreSettled`, `StatusIsFollowed`; `CompleteMeansSeen`, `KeptWhileNeeded`, `ScanIsFollowed`, `RetentionEnds` | below |
| `unread_letters` | refutes `UnreadIsAlone` | the questions about one field |

Desks of `front_office`: *rules* (`FeeByTheBook`, `DeadlineByTheRule`,
`NothingUnreadIsReady`, `ChosenOnEvidence`): up to 3 pricing rules, previous fees
and overrides around the rounding and the threshold, the days from November 2027
to December 2028 (a leap February, Easter, a year end), every combination of a
field's sources, up to 3 documents, texts of up to 3 phrases under names with up
to two hints, up to 3 findings of 2 scores and 2 kinds or 4 that are alike in
both; *wiring* (`TestModeHolds`): 2 administrators,
3 requests, one job resolved between them; *karbon* (`LibraryIsHonest`,
`PublishedOnce`): one contact, three work items of which one comes or goes, pages
of one, 2 attempts for the client's 3, 2 troubles; *file* (`EverybodyArrives`): a
client to import and one excluded, 2 imports, an editor; *rollout*
(`OneDraftEach`): 2 letters, 2 batches, 2 requests, a purge and a crash; *signers*
(`SignedAsRead`): a joint T1 and a T2 letter, 2 requests, 2 corrections, 2 drafts.

Desks of `back_office`: *office*: 2 administrators, 2 files, 2 requests in flight
of 4, 3 versions; *mail* and *karbon*: 2 recipients, 2 tellers, 2 notices, 2
attempts for the code's 4, a drain of one; 2 engagements, 2 statuses, 3 changes, 2
faults; *papers*: 3 files, alike or not, of which one has no text and one is
neither .docx nor .pdf; 2 of last year's items, of which one is asked for; 2
listings, one of a file under the item alone, one of more than there is room for;
2 overlapping scans of at most 2 files, 2 stored copies, 2 requests, one slip. 4
attempts for the code's 5 are enough: the one slip and the refusals by the index
of two copies leave one.

Shortening a retry count keeps what matters, one failed attempt followed by
another and the last. `CHECK_DEADLOCK FALSE` throughout: with all work settled
and no presses left under the bound, the system rests.

`SignedGetsFiled` accepts a dead-lettered job as an end, because an
administrator sees it; `SignatureNoticed` speaks of agreements the database has
a row for, because the poll knows no others. `Unparked` needs fewer faults than
attempts, since a bury by the reclaim surfaces nothing. `NoTwins` speaks of
versions made while none was deleted, `DisagreementAsked` of all open rows only
where no two preparations have run at once, `RolledOnce` of items one route
leads to, `ScanIsFollowed` of files that are not doubles: what happens outside
these is in the next part.

### Where the code differs from what is said of it

`unread_letters` is the run of a finding: `check` looks at `extracted_field.value`
alone, so a fee is held back as unread although the pricing engine owns what is
printed, and a year-end Karbon has only as a date is not seen, where the comment
(engagement-readiness.ts:403-409) says the letter must be the only source.

The following were met while modelling and are behaviours of the models, not
properties of runs.

*Queue.*
- A reclaim goes by the age of the lock (queue.ts:304), so a handler that is
  only slow runs beside its successor; its late `fail` then writes PENDING over
  a row whose attempts are used up, which nothing claims, reclaims or shows a
  Retry button for. `queue_exclusive` and the lease theorems assume handlers
  shorter than their lock.
- A worker killed on a job's last attempt is buried by the reclaim
  (queue.ts:358), which does not move the engagement to NEEDS_ATTENTION,
  although index.ts:90 says that it is surfaced.
- A Retry from an old page resets a job that is running.

*Drafting and preparation.*
- SOURCE_DOCUMENT_REVIEW_REQUIRED to GENERATING is not in the table, so a
  generation started automatically from there dead-letters
  (generation-autostart.ts:46-50 expects otherwise).
- The key of a generation has no attempt in it: pressed again after a failure,
  the button answers that a draft is already being generated and nothing starts
  (actions.ts:154; the runbook, line 101, expects a start). Two generations can
  render at once; the sweep counts live jobs and acts later.
- `putDate` leaves a date the application settled while `confirmDateFact`
  answers "Recorded. The dependent deadlines have been recalculated." A
  preparation discards a fee somebody typed and its approval (contrary to
  actions.ts:868); this is why `DecisionsStand` leaves fees out. Overlapping
  preparations can delete an open conflict, write a stale blocked date, or each
  open a row about one field (preparation-service.ts:627-696 looks and then
  creates); a later one refreshes the first row it finds, and the other goes on
  asking about values no source gives any more.
- Confirming a signer and approving a fee write by id after their check
  (participant-service.ts:228-246, pricing-service.ts:281-316), so they may land
  on a row a preparation has rewritten meanwhile, and approve what nobody saw.
- `seedServiceSelections` says that isSelected starts from the template's
  default; it carries last year's answer.

*Review.*
- An external signature may be recorded beside a live Adobe agreement
  (guards.ts:298 and docs/signing-without-acrobat-sign.md:68 say it may not).
- A stale approve page turns a SUPERSEDED version into an APPROVED one; an older
  approved version is never superseded; a crash between the insert and the
  supersession leaves the previous version live. Wording that was approved and
  then rejected may stay in a draft that can still be approved.
- `approveDocument` commits before a transition that may be refused;
  NEEDS_ATTENTION to READY_TO_SEND goes round APPROVED
  (engagement-state-machine.ts:51-52). The gates hold all the same:
  `KeepsRegister`.

*Signing.*
- The Adobe client repeats `POST /agreements` after a timeout without asking
  whether the first one landed (client.ts:316; the runbook, line 83, says one
  key cannot make two). Two concurrent sends compute one key and can both create
  an agreement. `OneLiveAgreement` fails with two senders or a lost answer; its
  run and theorem assume neither.
- Every failed or crashed attempt changes the key, because its row is counted,
  so with one sender the question to Adobe never finds anything and the index is
  the only protection.
- An error between SENDING_FOR_SIGNATURE and the `try` (signing-service.ts:270),
  such as the index refusing a row because a crash left a CREATED one, is not
  undone (runbook:82 says that it is).
- The version of an expired letter stays SENT_FOR_SIGNATURE, so the re-send that
  the runbook (118) describes is refused by the gate (signing-service.ts:132).
- An event is recorded before it is processed (signing-service.ts:557), so the
  redelivery a 500 asks for (route.ts:47) is answered as a duplicate.
- A letter signed while Karbon was the mock is not filed when Karbon is
  connected (signing-service.ts:428 against :718): the poll attempts COMPLETE to
  SIGNED, throws, and its pass ends, for later agreements too.

*Signers and rendering.*
- READY_TO_SEND is editable, so signers may change between the gate and the
  second read (signing-service.ts:161): an unconfirmed address or another roster
  can go out, contrary to participant-service.ts:24-31. `SignedAsRead` is about
  what is not changed in between.
- Confirming writes by id after reading, so it may confirm an address typed
  meanwhile; it does not ask for the status. `ParticipantService.outstanding`
  has no caller.
- DUPLICATE_SIGNATURE_FIELD is validated on the draft, which never carries tags;
  the copy for signature is not validated. A range for internal use that is not
  found stays in the letter, and only the forbidden text catches it. A reworded
  paragraph loses its checkbox.
- "The change applies to this document version only"
  (approval-service.ts:286-288), but every later version has it too, and
  approving one after the draft was rendered does not ask for another.

*Cover letter and delivery.*
- `markReadyForDelivery` writes READY_FOR_DELIVERY and its transition is then
  refused, since nothing moves an engagement to COVER_LETTER_IN_REVIEW; the
  delivery is never queued (contrary to actions.ts:686). Delivery is modelled
  from the row the service leaves.
- A narrative edited after the approval makes the package STALE with no way out;
  editing a REVIEW_REQUIRED one says "Regenerate", which the gate refuses; a
  save may turn a DELIVERED package stale. A generation retried after a crash in
  COVER_LETTER_GENERATING dead-letters.
- Delivery does not ask for staleness again; a file name that is taken is
  skipped and the package still DELIVERED; its job names no engagement, so its
  dead letter surfaces nowhere; unconnected, it says "will be retried" and
  succeeds.

*Rules and values.*
- Where no rule applies the stored previous fee is empty, so a later override
  needs no approval (contrary to pricing-service.ts:231-234); a previous fee of
  0 leaves any rise unflagged; a rise is judged when rounded to four decimals of
  a per cent, so that $39,999.99 to $44,000.00 is not above 10%.
- A date rule with branches only returns its starting date when none matches, an
  unlisted fact counts as false, a fixed day past the month's end runs over, and
  `addMonths` does not keep a month end.
- The letter takes whichever conflict row the database returns last, the
  readiness check the newest decision (effective-values.ts:20-23 says they
  cannot drift). Fee tokens read from last year's letter block readiness for
  ever; a value typed after a conflict was decided loses to the decision; scans
  add CROSS_DOCUMENT conflicts without looking for an equal one.
- In the scoring of a document, absent facts raise the score, bonus signals
  count for nothing, and for T2 and T3 the own-name signal is the legal name
  again.
- `betterGroup` breaks its last tie by the spelling that was read first
  (document-merge.ts:99), so where two values are alike in score, number and
  kind and one of them is spelled in two ways, the order of the documents
  decides, although document-merge.ts:71-78 says that the same set of findings
  resolves the same way on every run. `MergedFairly` leaves out exactly these.

*Connections and Karbon.*
- Two saves at once lose one rotation; a check in flight writes its verdict
  after a rotation; saving over credentials that cannot be decrypted drops the
  others; completing Adobe's authorisation may bring back cleared credentials.
- `setTestMode` writes two settings apart, so a crash leaves sending armed for
  when Test Mode goes off; a job resolves its adapters once and keeps them when
  Test Mode is switched on. `TestModeHolds` is about the moment of resolution.
- `maxWorkItems` cuts the list in silence with `complete` true; so does a client
  group whose record answers 404. Paging by offset misses a row when the list
  shifts. A 200 that is not JSON is tried again even for a POST. That Karbon
  honours Idempotency-Key is assumed. The throttle lets through twice its number
  in one minute. A sync keeps rows that are no longer listed.

*Creation, rollout, import, documents, notices.*
- Two triggers of an item without a title may roll it twice, and two types make
  one engagement each; a rollover racing a creation by hand dead-letters instead
  of converging; after a purge the poll makes a deleted engagement again, and a
  rollout a second draft (contrary to handlers.ts:1255-1259). A signature
  recorded between the check and the delete is destroyed.
- An import overwrites a value typed between its read and its write ("It never
  overwrites"); names are checked before they are inserted; a form saves the
  whole row it showed.
- The same bytes under two Karbon ids make every retry of a scan throw, and the
  preparation it should queue is not.
- `complete` is said to be false whenever "one would not open"
  (client-document-scan.ts:44-46). A file no text came out of is counted as
  unreadable (230-243), and handlers.ts:409 tells people that it could not be
  opened, but `complete` stays true (337); so it does where an accepted file
  could not be stored. Files not named .docx or .pdf (205-206) and last year's
  items beyond 25 (407) are passed over, and `complete` stays true as well.
  `CompleteMeansSeen` promises no more than this leaves.
- A purge racing a scan may clear a reference stored meanwhile, and deletes bytes
  of live versions past retention; a delete that fails is passed over
  (handlers.ts:1374-1376) and the reference cleared, and only the sweep of
  expired bytes gets rid of them. Uploading again a file whose bytes were purged
  is answered "already attached", while the extraction asks to upload it again.
- Two administrators can revoke each other; two activations leave two ACTIVE
  versions; a discard can delete a version activated meanwhile. Two `notify`
  calls leave two notices; a message sent and not yet marked is sent again. A
  push accepted by Karbon and not recorded, with the status returning, leaves
  Karbon wrong until the next change, and `take: 50` without an order can starve
  an engagement.

## 4. Fairness

*Queue.* Handlers end, because each of their calls has a timeout (HTTP clients
20-45 s, PDF conversion 120 s): `WF` on `Outcome`. Time passes: `WF` on
`TimePasses`. Every worker runs maintenance every fifteen minutes: `WF` on
`ReclaimBury`, `SF` on `ReclaimRelease`, which a crash may interrupt but not
every time. A claimable row is claimed: `SF` on `Claim`, since the claim takes
the highest priority and then the oldest `runAt`, and rows of higher priority
run out. Nobody is assumed to enqueue, retry, purge or crash.

*Signing.* A request that was received and a job that was claimed run on (`WF`
per sender, reader and filing job); maintenance enqueues the poll under a key
of the hour (`WF` on `PollStarts`, `PollTakes`); outages end (`OutageEnds`,
after which `MayFail` is false) — without this nothing could be promised, as a
poll that always fails never reports. No webhook is assumed to arrive, and
nobody to sign, press a button, or connect Karbon.

*Drafting.* What `JobQueue` shows of a job, that it is claimed and settles:
`WF` on `Start` and `Work`; each half of a transition that has begun; and the
hourly sweep over engagements untouched for half an hour (`WF` on
`HalfHourPasses`, `SweepOnce`). Nobody is assumed to press anything. Faults are
bounded below the number of attempts.

*BackOffice, Intake.* `WF` on the recurring mail and push jobs and on a scan
once asked for, on the nightly purge and on the worker that runs rollovers.
Failures are bounded, people and Karbon are not fair.

`Preparation`, `Review`, `CoverLetter` and `FrontOffice` promise nothing about
the end, and state no fairness.

## 5. What is proved

All theorems hold for every value of the constants that satisfies the named
assumptions of the module that declares them (`QueueAssumption`,
`PreparationAssumption`, `KarbonClientAssumption` and so on), which ask only
that bounds are natural numbers, that sets of different things do not overlap,
that null values differ from real ones, that a subset (the excluded clients, the
files that can be read) is one, that no document scores above 1, and that people
with areas of their own, last year's items and triggers are finitely many. The
modules about one component prove `TypeCorrect` first; those about the two
offices prove for each desk what its invariant needs, and that a step of another
desk leaves it alone.

`JobQueue_proofs`. `TypeCorrect`: an inductive invariant as it stands.
`KeysUnique`: with the types, inductive through the guard of the INSERT.
`NoWorkLost` is proved with every hazard on; its invariant adds that a slot that
has returned, and a row that has succeeded or is gone, is of a finished job.
`LeaseHeld`, `WaitingRowsAreLive`, `SuccessIsFinal` and `LedgerKept` assume
`~SlowHandlers` and `~StalePages`: the lease invariant says that a slot that
holds a job agrees with its row on status, worker and attempt, and that nothing
in a reclaim's list or behind a page is such a row. The refinement follows step
by step from it.

`Signing_proofs`. `TypeCorrect`. `SignatureIsReal` holds with every failure and
any number of senders. `SignedOnlyIfCompleted` alone is not inductive: a reader
may act on what it read long ago. `RealInv` adds that each trace of a completion
(what a reader saw, a job) is of an agreement that is completed, and that what
was not issued has no state; since Adobe takes no completion back, old
reports are still true.

`NoSecondLetter` and `SentOnce` assume `OneSender`: one request sending at a
time, no lost answer, no failing statement. Crashes anywhere, refused calls,
re-sends, people pressing buttons and reports in any order remain. `OnceInv`
says that until the version goes out no report can have been applied, the rows
are numbered in order, one row at most is CREATED, and what Adobe has issued was
issued under it; so a second reservation is refused, and the one statement that
moves the row on takes the version out of APPROVED, which the gate then refuses.

`Drafting_proofs`. `ReviewersHaveADraft` rests on `DraftInv`: a process that is
about to announce a draft or to put it before a reviewer has rendered one, and
no version is ever taken away; `Workers` adds which jobs can be at which place.

`Review_proofs`. `WordingInv`: an exception that is approved has another author,
and what a generation has collected or a version holds is approved; since a
rejection never takes the approver away, this lasts. `ApprovalIsKept` says two
things: a version approved or sent remains one that is approved or sent, since
every write of a status asks for it; and whatever becomes of its status, the
author and the wording of a version that is made never change (`TextStands`,
from `TextsKept`), as only `CreateVersion` writes them, under a number not yet
given. `RegisterInv` (a version has an author exactly when it is made; its
approver is not the author; what is on its way out has an approval) gives the
refinement of `ApprovalRegister`, action by action.

`CoverLetter_proofs`. `OneLetterLives` is inductive through the index. For
`OthersApprovedTheFiled`, `HandInv` says what an actor at each place has in hand,
`Keeps` that rows, authors and approvals stay and that only a commit approves, and
`FiledInv` that whoever is about to commit is not the author, so that every
approved letter, the one a delivery has fetched and the one filed were approved
by somebody else.

For `TheLastStartsIt`, `LastInv` speaks of behaviours in which no process has
died and no generation was queued yet. Until then nothing goes on but the filing
and the asking; and once the engagement has left SIGNED and a selection is there,
somebody is at a step of the autostart and has not finished. It is what the two
autostarts owe each other: each reads the other's half only after its own is
written.

`Preparation_proofs`. `Inv` has five parts. `Typed` and the range of the history
variable; `Apart`, which says that nobody plans what to do with a conflict before
reading it; `KeptInv`: while a decision that was there when nothing ran stands, the
row it is in is as it was, and no process that is about to write the row has
found it free; `AloneInv`: a run that nothing interfered with has read what the
sources say, and at each place has written, asked or dated what follows from
that. `DecisionsStand` is not inductive by itself, since a run that began before
the decision may write after it: this is why the theorem is about decisions made
while no preparation ran. `DisagreementIsAsked` says that nothing else is asked
as long as no two preparations have overlapped; `overlapped` is true from the
moment two run, so the proof shows that it takes this to leave a question open
that no source asks.

`FrontOffice_proofs` takes one desk at a time; a behaviour stays at the desk it
began at, and a step there leaves the other desks' variables alone. *Wiring*:
`JobInv` keeps what the job found of Test Mode together with what it was given.
*Rollout*: `RolloutInv` counts: the drafts made for an engagement and the
generation that is pending are no more than the purges and the row under its one
key. *Karbon*: `ClientInv` says, for every place of the sync, where a document
that was filed must be by now: found, in an area still to be listed, or on a page
still to come; and for a publication, that the parts before the one at hand are
posted, once. It is here that the proof needs that only finitely many people
have areas of their own, and that items leave the list only where the run notes
it. *File*: `FileInv` says that what an import reported is here, or still to come
from the same import; clients and contacts are never taken away (`Grown`), so
what one import found another may have made. *Signers*: in `SignersInv`, the draft
and the copy of a version are one body, trimmed, reworded and ticked once and
filled with two sets of values that differ in the signature fields only
(`FilledAlike`); the fields of the copy are numbered as Adobe numbers the sets,
because both come from one list in which every signer stands once
(`RankedLists`, `HoldersAre`); filling a token brings back nothing that the
trimming removed; and what the gate of the send read of the version stays true of
it whatever becomes of its status. A roster that changed after the gate is the
exception `SignedAsRead` makes, and the proof shows there is no other. *Rules*:
`EnquiryInv` says that a question stays one that can be asked and that an answer
has the three properties; what is in it is calculation. The reducer of the pricing
rules is a recursive function over the rows: `TheReducer` shows that such a
function exists for every number of rows and `TheBestStands` that it keeps the
rule standing above all before it, each by an induction over the set of the
places already covered (`Upwards`, from the well-foundedness of the naturals),
so the standing rule is found in whatever order the rows come.
`AmountsAre` bounds the rounding and turns the judgement of a rise, a quotient
rounded half up, into an inequality between whole numbers (`HalfUpAbove`), for
every amount and every threshold. A printed value that only last year's letter
gives is what the check of the same rows finds too (`OnlyLastYear`,
`LastYearShows`); where a conflict was decided, the decision vouches for it
whichever row the letter read. `RulesAssumption` asks no more than that a null is
not a number, a rule or a text, and that the rules on file are storable.
*The calendar*, on which `DeadlinesAreByTheRule` rests, begins with `Months` and
`YearsPass` (where each month of a year begins, and that a year is 365 days at
least), from which `DayFits` and `DateIs` show that every date is put together
from a year, a month and a day in exactly one way, so that `YearOf`, `MonthOf` and
`DayOf` find it; `AddMonthsIs` and `EndOfMonthIs` then say what a clamped month is.
For business days, `HolidaysAre` places each holiday of a year within its own
weeks (Good Friday between 13 March and 24 April),
`TwoAtMost` shows that no week holds more than two, `WeeksWork` that any seven days
have three business days, and `EnoughDays` that the rounds the model allows
`addBusinessDays` are always enough: the bound on its loop is none. The loop
itself is a recursive function whose invariant (`BusinessDaysAre`) is that what
remains is what was asked less the business days passed. `StepsLeadThere` takes
the eight rules one by one. The days are those from 1 March of year 0 on.
*Documents and what they say*: `EvidenceInv` says that an answer is what the
functions of the scan make of the question; three lemmas say that this is what
the evidence says. `TheLetterIsFound`: a score is a fraction rounded to four
places whose weights add up to 27 at most (`AFewKeys`), so no rounding carries a
document across 0.7 or 0.9, or a lead across 0.1 (`NoneIsCrossed`), and at 0.9
nothing of weight three is missing (`PointsAre`). `ReadRightly` goes by the
weightiest rule that fits (`ClassifiedAs`). `MergedRightly`: of the two things
findings can say one comes before the other (`OneSideWins`), and has the best
score (`BestIsKept`); a permutation leaves all that is counted of a group as it
was (`StandingShuffled`), so the same side wins (`SameSideWins`) and the same
value of it is kept (`OrderDoesNotMatter`), unless one value came in two
spellings: then which was read first may decide. The number of documents, phrases
and findings is any number, and a score any up to 1.

`BackOffice_proofs`. *Office*: while no version was discarded the rows are
numbered without gaps, no two have the same bytes, and whoever is about to insert
under a number has compared every row below it (`OfficeInv`); a discarded row
ends the promise, since it gives its number back. *Papers*:
`ScansOk` says that while a scan thinks its listing is whole, the scopes it was
given are all there are, and each .docx or .pdf of one it has left behind is in
the batch, at hand, lost or recorded; `CopiesOk`
that every reference points at bytes that are stored or whose retention is over,
and that what a purge has selected is expired. *Intake*: `IntakeInv` says that no
two live engagements have the same type and year, that what a rollover made has
the type of a trigger its item reached and the year of its title, and that a job
past its look at an item of a single trigger has found nothing made. For items
with a year in the title and triggers of one type, uniqueness comes from the
index; for the others, from there being one key and one job.

Every safety invariant the runs check is proved. Model-checked only are the
liveness properties (`Settles`, `SignatureNoticed`, `SignedGetsFiled`,
`Unparked`, `NoticesAreSettled`, `StatusIsFollowed`, `ScanIsFollowed`,
`RetentionEnds`, `RolledIsPrepared`), since fairness is out of the prover's
reach.

## 6. Not modelled

- *Extraction of text*: reading a PDF, and the extractor that calls a model
  (`ai.ts`, which nothing constructs). Which phrases a text has is chosen freely;
  what a document shows is chosen freely in `Evidence`, `Values` and
  `Preparation`.
- *Web pages*: some thirty actions are actions of the models, with what a stale
  page shows; the others are forms over one service call, or read only.
- *Forms, service selections, editing of rules, narrative text, headers and
  styles of documents*: rows or text written by one statement from a form.
- *Identity, sessions, audit*: single guards, and an append-only table.
- *The e-mail client and the throttle*: one call that may fail in `Outbox`; a pace
  that changes no outcome. Real Karbon, Adobe and Microsoft Graph are the
  environment of the models.
- *A poll pass over several agreements*, where one refused transition ends the
  pass for all: `Signing` has one engagement.
- *Priorities and back-offs of the queue, dispatch pace, replicas' clocks*:
  every order they could produce is possible in the models.

What could come next: the poll over several engagements; the refinement of one
abstract letter by `Review`, `Signing` and `CoverLetter` together; the
service selections.
