------------------------------ MODULE Signing ------------------------------
(***************************************************************************)
(* One approved engagement letter on its way through Adobe Sign            *)
(* (packages/services/src/signing-service.ts): the people who press Send,  *)
(* the agreements at Adobe, the webhooks and the hourly poll that report   *)
(* on them, and the job that files the signed letter into Karbon.          *)
(*                                                                         *)
(* One action is one database statement or one call of a provider, so any  *)
(* two requests interleave between them.  The key of the n-th attempt      *)
(* stands for adobeAgreementIdempotencyKey: client, type, year and version *)
(* are fixed here.  Signers' rows, titles, hashes and notices are left out.*)
(***************************************************************************)
EXTENDS Naturals, FiniteSets, EngagementStates

CONSTANTS
  Senders,     \* requests of the sendForSignature action that may be in flight
  Handlers,    \* webhook requests that may be in flight
  Poll,        \* the SYNC_ADOBE_STATUS job, which runs one pass at a time
  Agreements,  \* ids Adobe may issue
  MaxAttempts, \* bound: signing attempts (rows of adobe_agreement)
  Failures,    \* what may go wrong until the outage ends
  Karbons,     \* how Karbon may be configured at first
  NoAgreement

FailureKinds == {"sender_crash", "lost_answer", "refused", "database",
                 "reader_fails", "webhook_lost", "filing_fails"}
KarbonModes == {"connected", "mock", "no_target"}

Attempts == 1 .. MaxAttempts
Readers == Handlers \union {Poll}

ASSUME SigningAssumption ==
  /\ MaxAttempts \in Nat \ {0}
  /\ Failures \subseteq FailureKinds
  /\ Karbons \subseteq KarbonModes
  /\ Poll \notin Handlers
  /\ NoAgreement \notin Agreements

VARIABLES
  status,       \* engagement.status
  version,      \* documentVersion.status
  rowStatus,    \* adobe_agreement.status of each attempt; "NONE" before the row exists
  rowAgreement, \* adobe_agreement.agreementId
  filed,        \* attempts whose signedPdfKarbonDocumentId is set
  madeFor,      \* at Adobe: the attempt in each agreement's externalId; 0 if not issued
  state,        \* at Adobe: the agreement's status
  at,           \* where each sender is inside sendForSignature
  attempt,      \* its signingAttempt, hence its idempotency key
  got,          \* the agreement id it was given or found
  doing,        \* where each reader is inside processWebhook or the poll's loop
  subject,      \* the agreement it is about
  about,        \* the state change its webhook announced; "NONE" for the poll
  seen,         \* the status it read back from Adobe
  todo,         \* agreements the current pass of the poll has still to read
  pending,      \* webhooks Adobe has yet to see answered with 200
  recorded,     \* adobe_event rows
  job,          \* RETRIEVE_SIGNED_DOCUMENTS of each agreement
  karbon,       \* what the providers resolve Karbon to
  calm          \* the outage is over: nothing fails any more

local == <<version, rowStatus, rowAgreement>>
adobe == <<madeFor, state>>
senders == <<at, attempt, got>>
readers == <<doing, subject, about, seen, todo>>
hooks == <<pending, recorded>>
filing == <<filed, job, karbon>>
vars == <<status, local, adobe, senders, readers, hooks, filing, calm>>

Live == {"CREATED", "OUT_FOR_SIGNATURE", "PARTIALLY_SIGNED"}
Rows == {n \in Attempts : rowStatus[n] # "NONE"}
RowsOf(a) == {n \in Attempts : rowAgreement[n] = a}
MayFail(kind) == kind \in Failures /\ ~calm

(* As it would be without the migration's index. *)
IndexAbsent(n, s) == TRUE

(* The index adobe_agreement_one_live_per_engagement lets row n take this status. *)
IndexAllows(n, s) == s \in Live => \A m \in Rows : m # n => rowStatus[m] \notin Live

(* WorkflowService.transition and the triggers behind it; READY_TO_SEND -> SIGNED *)
(* needs evidence of a signature obtained elsewhere, which there is none of here. *)
Accepts(to) ==
  \/ status = to
  \/ canTransition(status, to) /\ <<status, to>> # <<"READY_TO_SEND", "SIGNED">>

Init ==
  /\ status = "READY_TO_SEND" /\ version = "APPROVED"
  /\ rowStatus = [n \in Attempts |-> "NONE"]
  /\ rowAgreement = [n \in Attempts |-> NoAgreement]
  /\ filed = {}
  /\ madeFor = [a \in Agreements |-> 0]
  /\ state = [a \in Agreements |-> "NONE"]
  /\ at = [s \in Senders |-> "idle"]
  /\ attempt = [s \in Senders |-> 1]
  /\ got = [s \in Senders |-> NoAgreement]
  /\ doing = [r \in Readers |-> "idle"]
  /\ subject = [r \in Readers |-> NoAgreement]
  /\ about = [r \in Readers |-> "NONE"]
  /\ seen = [r \in Readers |-> "NONE"]
  /\ todo = {} /\ pending = {} /\ recorded = {}
  /\ job = [a \in Agreements |-> "none"]
  /\ karbon \in Karbons
  /\ calm = FALSE

(***************************************************************************)
(* sendForSignature.                                                       *)
(***************************************************************************)
Goto(s, place) == at' = [at EXCEPT ![s] = place]

(* The gate without hasApprovedPdf. *)
GateWithoutVersion == status = "READY_TO_SEND"

(* evaluateSendGate, as far as anything in this module changes its answer. *)
SendGate == status = "READY_TO_SEND" /\ version = "APPROVED"

PassGate(s) ==
  /\ at[s] \in {"idle", "rejected"}
  /\ SendGate
  /\ Goto(s, "gated")
  /\ UNCHANGED <<status, local, adobe, attempt, got, readers, hooks, filing, calm>>

(* signingAttempt: one more than the rows of the engagement, whatever their status. *)
NextAttempt == Cardinality(Rows) + 1

Count(s) ==
  /\ at[s] = "gated"
  /\ NextAttempt <= MaxAttempts
  /\ attempt' = [attempt EXCEPT ![s] = NextAttempt]
  /\ Goto(s, "counted")
  /\ UNCHANGED <<status, local, adobe, got, readers, hooks, filing, calm>>

(* The key already produced an agreement: it is returned unchanged. *)
Deduplicate(s) ==
  /\ at[s] = "counted"
  /\ rowAgreement[attempt[s]] # NoAgreement
  /\ Goto(s, "idle")
  /\ UNCHANGED <<status, local, adobe, attempt, got, readers, hooks, filing, calm>>

(* findByExternalId: Adobe is asked whether it holds an agreement under the key. *)
AskAdobe(s) ==
  /\ at[s] = "counted"
  /\ rowAgreement[attempt[s]] = NoAgreement
  /\ \/ \E a \in Agreements :
          /\ madeFor[a] = attempt[s]
          /\ got' = [got EXCEPT ![s] = a]
          /\ Goto(s, "found")
     \/ /\ \A a \in Agreements : madeFor[a] # attempt[s]
        /\ Goto(s, "clear")
        /\ UNCHANGED got
  /\ UNCHANGED <<status, local, adobe, attempt, readers, hooks, filing, calm>>

(* It does: the row is written and the call returns, no status moved.  Two rows may *)
(* not carry one agreementId, and only one may be live.                            *)
Adopt(s) ==
  LET n == attempt[s]
      new == n \notin Rows
      allowed == RowsOf(got[s]) \subseteq {n} /\ (new => IndexAllows(n, "OUT_FOR_SIGNATURE"))
  IN /\ at[s] = "found"
     /\ \/ /\ allowed
           /\ rowStatus' = IF new THEN [rowStatus EXCEPT ![n] = "OUT_FOR_SIGNATURE"] ELSE rowStatus
           /\ rowAgreement' = [rowAgreement EXCEPT ![n] = got[s]]
           /\ Goto(s, "idle")
        \/ ~allowed /\ Goto(s, "rejected") /\ UNCHANGED <<rowStatus, rowAgreement>>
     /\ UNCHANGED <<status, version, adobe, attempt, got, readers, hooks, filing, calm>>

StartSending(s) ==
  /\ at[s] = "clear"
  /\ \/ Accepts("SENDING_FOR_SIGNATURE") /\ status' = "SENDING_FOR_SIGNATURE" /\ Goto(s, "sending")
     \/ ~Accepts("SENDING_FOR_SIGNATURE") /\ Goto(s, "rejected") /\ UNCHANGED status
  /\ UNCHANGED <<local, adobe, attempt, got, readers, hooks, filing, calm>>

(* store.get and the upsert of the CREATED row, both outside the try. *)
Reserve(s) ==
  LET n == attempt[s]
      allowed == n \in Rows \/ IndexAllows(n, "CREATED")
  IN /\ at[s] = "sending"
     /\ \/ /\ allowed
           /\ rowStatus' = IF n \in Rows THEN rowStatus ELSE [rowStatus EXCEPT ![n] = "CREATED"]
           /\ Goto(s, "reserved")
        \/ (~allowed \/ MayFail("database")) /\ Goto(s, "rejected") /\ UNCHANGED rowStatus
     /\ UNCHANGED <<status, version, rowAgreement, adobe, attempt, got, readers, hooks, filing, calm>>

(* Adobe issues an agreement under the sender's key.                                *)
Issue(s, a) ==
  /\ madeFor[a] = 0
  /\ madeFor' = [madeFor EXCEPT ![a] = attempt[s]]
  /\ state' = [state EXCEPT ![a] = "OUT_FOR_SIGNATURE"]

CreateAgreement(s) ==
  /\ at[s] = "reserved"
  /\ \E a \in Agreements : Issue(s, a) /\ got' = [got EXCEPT ![s] = a]
  /\ Goto(s, "created")
  /\ UNCHANGED <<status, local, attempt, readers, hooks, filing, calm>>

(* The POST reaches Adobe and its answer does not come back in time: the client *)
(* posts again, up to its third attempt.                                       *)
LoseAnswer(s) ==
  /\ at[s] = "reserved"
  /\ MayFail("lost_answer")
  /\ \E a \in Agreements : Issue(s, a)
  /\ UNCHANGED <<status, local, senders, readers, hooks, filing, calm>>

CreateFails(s) ==
  /\ at[s] = "reserved"
  /\ MayFail("lost_answer") \/ MayFail("refused")
  /\ Goto(s, "failed")
  /\ UNCHANGED <<status, local, adobe, attempt, got, readers, hooks, filing, calm>>

(* One transaction over the row and the version. *)
Record(s) ==
  LET n == attempt[s]
      allowed == IndexAllows(n, "OUT_FOR_SIGNATURE")
  IN /\ at[s] = "created"
     /\ \/ /\ allowed
           /\ rowStatus' = [rowStatus EXCEPT ![n] = "OUT_FOR_SIGNATURE"]
           /\ rowAgreement' = [rowAgreement EXCEPT ![n] = got[s]]
           /\ version' = "SENT_FOR_SIGNATURE"
           /\ Goto(s, "recorded")
        \/ (~allowed \/ MayFail("database")) /\ Goto(s, "failed") /\ UNCHANGED local
     /\ UNCHANGED <<status, adobe, attempt, got, readers, hooks, filing, calm>>

MarkSent(s) ==
  /\ at[s] = "recorded"
  /\ \/ Accepts("SENT_FOR_SIGNATURE") /\ status' = "SENT_FOR_SIGNATURE" /\ Goto(s, "idle")
     \/ ~Accepts("SENT_FOR_SIGNATURE") /\ Goto(s, "failed") /\ UNCHANGED status
  /\ UNCHANGED <<local, adobe, attempt, got, readers, hooks, filing, calm>>

(* The catch: the row is marked FAILED, then the engagement goes back. *)
MarkFailed(s) ==
  /\ at[s] = "failed"
  /\ rowStatus' = [rowStatus EXCEPT ![attempt[s]] = "FAILED"]
  /\ Goto(s, "undoing")
  /\ UNCHANGED <<status, version, rowAgreement, adobe, attempt, got, readers, hooks, filing, calm>>

Restore(s) ==
  /\ at[s] = "undoing"
  /\ status' = IF Accepts("READY_TO_SEND") THEN "READY_TO_SEND" ELSE status
  /\ Goto(s, "rejected")
  /\ UNCHANGED <<local, adobe, attempt, got, readers, hooks, filing, calm>>

SenderCrash(s) ==
  /\ at[s] \notin {"idle", "rejected"}
  /\ MayFail("sender_crash")
  /\ Goto(s, "idle")
  /\ UNCHANGED <<status, local, adobe, attempt, got, readers, hooks, filing, calm>>

(***************************************************************************)
(* People: the "Authorise for sending" button is offered in every status,  *)
(* and a reviewer may still ask for changes (approval-service.ts); an      *)
(* approved version keeps its status when they do.                         *)
(***************************************************************************)
MarkReadyToSend ==
  /\ status # "READY_TO_SEND" /\ Accepts("READY_TO_SEND")
  /\ status' = "READY_TO_SEND"
  /\ UNCHANGED <<local, adobe, senders, readers, hooks, filing, calm>>

RequestChanges ==
  /\ status # "CHANGES_REQUESTED" /\ Accepts("CHANGES_REQUESTED")
  /\ status' = "CHANGES_REQUESTED"
  /\ UNCHANGED <<local, adobe, senders, readers, hooks, filing, calm>>

(***************************************************************************)
(* Adobe and its webhooks, delivered at least once until answered 200.     *)
(***************************************************************************)
Progress(from) ==
  CASE from = "OUT_FOR_SIGNATURE" ->
         {"PARTIALLY_SIGNED", "COMPLETED", "DECLINED", "EXPIRED", "CANCELLED"}
    [] from = "PARTIALLY_SIGNED" -> {"COMPLETED", "DECLINED", "EXPIRED", "CANCELLED"}
    [] OTHER -> {}

AdobeMoves(a) ==
  \E s \in Progress(state[a]) :
    /\ state' = [state EXCEPT ![a] = s]
    /\ pending' = pending \union {<<a, s>>}
    /\ UNCHANGED <<status, local, madeFor, senders, readers, recorded, filing, calm>>

WebhookLost(e) ==
  /\ e \in pending
  /\ MayFail("webhook_lost")
  /\ pending' = pending \ {e}
  /\ UNCHANGED <<status, local, adobe, senders, readers, recorded, filing, calm>>

(***************************************************************************)
(* processWebhook, and the loop of SYNC_ADOBE_STATUS.                      *)
(***************************************************************************)
(* The unique providerEventId: a first delivery is recorded before it is acted on ... *)
Deliver(h, e) ==
  /\ doing[h] = "idle"
  /\ e \in pending \ recorded
  /\ recorded' = recorded \union {e}
  /\ doing' = [doing EXCEPT ![h] = "reading"]
  /\ subject' = [subject EXCEPT ![h] = e[1]]
  /\ about' = [about EXCEPT ![h] = e[2]]
  /\ UNCHANGED <<status, local, adobe, senders, seen, todo, pending, filing, calm>>

(* ... and any further delivery is answered as a duplicate. *)
Duplicate(e) ==
  /\ e \in pending \cap recorded
  /\ pending' = pending \ {e}
  /\ UNCHANGED <<status, local, adobe, senders, readers, recorded, filing, calm>>

(* The first half of the poll's query, which was once all of it. *)
InFlightRows == {n \in Rows : rowAgreement[n] # NoAgreement /\ rowStatus[n] \in Live}

(* The rows a pass of the poll asks Adobe about: also those signed but not filed. *)
PolledRows == InFlightRows \union
  {n \in Rows : rowAgreement[n] # NoAgreement /\ rowStatus[n] = "COMPLETED" /\ n \notin filed}

PollStarts ==
  /\ doing[Poll] = "idle" /\ todo = {}
  /\ PolledRows # {}
  /\ todo' = {rowAgreement[n] : n \in PolledRows}
  /\ UNCHANGED <<status, local, adobe, senders, doing, subject, about, seen, hooks, filing, calm>>

PollTakes ==
  /\ doing[Poll] = "idle"
  /\ \E a \in todo :
       /\ subject' = [subject EXCEPT ![Poll] = a]
       /\ todo' = todo \ {a}
  /\ doing' = [doing EXCEPT ![Poll] = "reading"]
  /\ UNCHANGED <<status, local, adobe, senders, about, seen, hooks, filing, calm>>

Release(r) ==
  /\ doing' = [doing EXCEPT ![r] = "idle"]
  /\ subject' = [subject EXCEPT ![r] = NoAgreement]
  /\ about' = [about EXCEPT ![r] = "NONE"]
  /\ seen' = [seen EXCEPT ![r] = "NONE"]

(* Something threw.  A webhook is answered 500, so Adobe keeps it pending; the poll's *)
(* whole pass is over.                                                               *)
Throw(r) == Release(r) /\ todo' = IF r = Poll THEN {} ELSE todo

ReadAgreement(r) ==
  /\ doing[r] = "reading"
  /\ seen' = [seen EXCEPT ![r] = state[subject[r]]]
  /\ doing' = [doing EXCEPT ![r] = "read"]
  /\ UNCHANGED <<status, local, adobe, senders, subject, about, todo, hooks, filing, calm>>

(* applyAgreementState writes what was read, whatever the row says by now ... *)
ApplyToRow(r) ==
  LET known == RowsOf(subject[r])
      allowed == known # {} /\ \A n \in known : IndexAllows(n, seen[r])
  IN /\ doing[r] = "read"
     /\ \/ /\ allowed
           /\ rowStatus' = [n \in Attempts |-> IF n \in known THEN seen[r] ELSE rowStatus[n]]
           /\ doing' = [doing EXCEPT ![r] = "applied"]
           /\ UNCHANGED <<subject, about, seen, todo>>
        \/ ~allowed /\ Throw(r) /\ UNCHANGED rowStatus
     /\ UNCHANGED <<status, version, rowAgreement, adobe, senders, hooks, filing, calm>>

(* As if the first of several signatures were the last. *)
SignedOnFirstSignature(s) ==
  CASE s \in {"PARTIALLY_SIGNED", "COMPLETED"} -> "SIGNED"
    [] s = "DECLINED" -> "DECLINED"
    [] s = "EXPIRED" -> "EXPIRED"
    [] s = "CANCELLED" -> "NEEDS_ATTENTION"
    [] OTHER -> status

(* mapAgreementStatusToEngagementStatus; a state it maps to nothing leaves the status. *)
EngagementStatusFor(s) ==
  CASE s = "PARTIALLY_SIGNED" -> "PARTIALLY_SIGNED"
    [] s = "COMPLETED" -> "SIGNED"
    [] s = "DECLINED" -> "DECLINED"
    [] s = "EXPIRED" -> "EXPIRED"
    [] s = "CANCELLED" -> "NEEDS_ATTENTION"
    [] OTHER -> status

(* ... and then moves the engagement, if the table lets it. *)
ApplyToEngagement(r) ==
  LET next == EngagementStatusFor(seen[r])
  IN /\ doing[r] = "applied"
     /\ \/ /\ Accepts(next)
           /\ status' = next
           /\ doing' = [doing EXCEPT ![r] = "moved"]
           /\ UNCHANGED <<subject, about, seen, todo>>
        \/ ~Accepts(next) /\ Throw(r) /\ UNCHANGED status
     /\ UNCHANGED <<local, adobe, senders, hooks, filing, calm>>

(* A signed letter is fetched: enqueue under the key signed_<agreement>, then the end. *)
Conclude(r) ==
  /\ doing[r] = "moved"
  /\ job' = IF seen[r] = "COMPLETED" /\ job[subject[r]] = "none"
              THEN [job EXCEPT ![subject[r]] = "queued"] ELSE job
  /\ Release(r)
  /\ pending' = IF r = Poll THEN pending ELSE pending \ {<<subject[r], about[r]>>}
  /\ UNCHANGED <<status, local, adobe, senders, todo, recorded, filed, karbon, calm>>

(* A call of Adobe or of the database throws, or the process ends, anywhere on the way. *)
ReaderFails(r) ==
  /\ doing[r] # "idle"
  /\ MayFail("reader_fails")
  /\ Throw(r)
  /\ UNCHANGED <<status, local, adobe, senders, hooks, filing, calm>>

(***************************************************************************)
(* RETRIEVE_SIGNED_DOCUMENTS.  The queue runs it once at a time and again  *)
(* until it succeeds or is dead-lettered (module JobQueue).                *)
(***************************************************************************)
(* The uploads, with the Karbon the job resolved at its start. *)
Upload(a) ==
  /\ job[a] = "queued"
  /\ job' = [job EXCEPT ![a] =
       CASE RowsOf(a) = {} -> "dead"
         [] karbon = "no_target" -> "returned"
         [] karbon = "mock" -> "mocked"
         [] OTHER -> "uploaded"]
  /\ UNCHANGED <<status, local, adobe, senders, readers, hooks, filed, karbon, calm>>

RecordFiling(a) ==
  /\ job[a] \in {"uploaded", "mocked"}
  /\ filed' = IF job[a] = "uploaded" THEN filed \union RowsOf(a) ELSE filed \ RowsOf(a)
  /\ job' = [job EXCEPT ![a] = "kept"]
  /\ UNCHANGED <<status, local, adobe, senders, readers, hooks, karbon, calm>>

MarkVersionSigned(a) ==
  /\ job[a] = "kept"
  /\ version' = "SIGNED"
  /\ job' = [job EXCEPT ![a] = "returned"]
  /\ UNCHANGED <<status, rowStatus, rowAgreement, adobe, senders, readers, hooks, filed, karbon, calm>>

Complete(a) ==
  /\ job[a] = "returned"
  /\ status' = IF status = "SIGNED" THEN "COMPLETE" ELSE status
  /\ job' = [job EXCEPT ![a] = "succeeded"]
  /\ UNCHANGED <<local, adobe, senders, readers, hooks, filed, karbon, calm>>

FilingFails(a) ==
  /\ job[a] \in {"queued", "uploaded", "mocked", "kept", "returned"}
  /\ MayFail("filing_fails")
  /\ \E outcome \in {"queued", "dead"} : job' = [job EXCEPT ![a] = outcome]
  /\ UNCHANGED <<status, local, adobe, senders, readers, hooks, filed, karbon, calm>>

RetryFiling(a) ==
  /\ job[a] = "dead"
  /\ job' = [job EXCEPT ![a] = "queued"]
  /\ UNCHANGED <<status, local, adobe, senders, readers, hooks, filed, karbon, calm>>

(* The succeeded job's row is deleted after JOB_RETENTION_DAYS, its key with it. *)
PurgeFiling(a) ==
  /\ job[a] = "succeeded"
  /\ job' = [job EXCEPT ![a] = "none"]
  /\ UNCHANGED <<status, local, adobe, senders, readers, hooks, filed, karbon, calm>>

ConnectKarbon ==
  /\ karbon # "connected"
  /\ karbon' = "connected"
  /\ UNCHANGED <<status, local, adobe, senders, readers, hooks, filed, job, calm>>

OutageEnds ==
  /\ ~calm
  /\ calm' = TRUE
  /\ UNCHANGED <<status, local, adobe, senders, readers, hooks, filing>>

Send(s) ==
  \/ Count(s) \/ Deduplicate(s) \/ AskAdobe(s) \/ Adopt(s)
  \/ StartSending(s) \/ Reserve(s) \/ CreateAgreement(s) \/ CreateFails(s)
  \/ Record(s) \/ MarkSent(s) \/ MarkFailed(s) \/ Restore(s)

Observe(r) == ReadAgreement(r) \/ ApplyToRow(r) \/ ApplyToEngagement(r) \/ Conclude(r)

File(a) == Upload(a) \/ RecordFiling(a) \/ MarkVersionSigned(a) \/ Complete(a)

Next ==
  \/ \E s \in Senders : PassGate(s) \/ Send(s) \/ LoseAnswer(s) \/ SenderCrash(s)
  \/ MarkReadyToSend \/ RequestChanges
  \/ \E a \in Agreements : AdobeMoves(a)
  \/ \E e \in pending : WebhookLost(e) \/ Duplicate(e) \/ \E h \in Handlers : Deliver(h, e)
  \/ PollStarts \/ PollTakes
  \/ \E r \in Readers : Observe(r) \/ ReaderFails(r)
  \/ \E a \in Agreements : File(a) \/ FilingFails(a) \/ RetryFiling(a) \/ PurgeFiling(a)
  \/ ConnectKarbon \/ OutageEnds

(***************************************************************************)
(* Fairness.  A request that was received and a job that was claimed run   *)
(* on, maintenance enqueues the poll every hour, the queue brings a job    *)
(* back until it is settled, and outages end.  Nobody has to press a       *)
(* button, sign, connect Karbon or deliver a webhook.                      *)
(***************************************************************************)
Fairness ==
  /\ \A s \in Senders : WF_vars(Send(s))
  /\ \A r \in Readers : WF_vars(Observe(r))
  /\ WF_vars(PollStarts) /\ WF_vars(PollTakes)
  /\ \A a \in Agreements : WF_vars(File(a))
  /\ WF_vars(OutageEnds)

Spec == Init /\ [][Next]_vars
FairSpec == Spec /\ Fairness

-----------------------------------------------------------------------------
AdobeStates == {"NONE", "OUT_FOR_SIGNATURE", "PARTIALLY_SIGNED", "COMPLETED",
                "DECLINED", "EXPIRED", "CANCELLED"}
RowStatuses == AdobeStates \union {"CREATED", "FAILED"}
Jobs == {"none", "queued", "uploaded", "mocked", "kept", "returned", "succeeded", "dead"}
Events == Agreements \X AdobeStates

(* Every variable has its type: the attempts counted stay within the key's range, *)
(* and a reader that is at work knows which agreement it is about.                *)
TypeOK ==
  /\ status \in EngagementStatuses
  /\ version \in {"APPROVED", "SENT_FOR_SIGNATURE", "SIGNED"}
  /\ rowStatus \in [Attempts -> RowStatuses]
  /\ rowAgreement \in [Attempts -> Agreements \union {NoAgreement}]
  /\ filed \subseteq Attempts
  /\ madeFor \in [Agreements -> Attempts \union {0}]
  /\ state \in [Agreements -> AdobeStates]
  /\ at \in [Senders -> {"idle", "rejected", "gated", "counted", "found", "clear", "sending",
                         "reserved", "created", "recorded", "failed", "undoing"}]
  /\ attempt \in [Senders -> Attempts]
  /\ got \in [Senders -> Agreements \union {NoAgreement}]
  /\ doing \in [Readers -> {"idle", "reading", "read", "applied", "moved"}]
  /\ subject \in [Readers -> Agreements \union {NoAgreement}]
  /\ about \in [Readers -> AdobeStates]
  /\ seen \in [Readers -> AdobeStates]
  /\ \A r \in Readers : doing[r] # "idle" => subject[r] \in Agreements
  /\ todo \subseteq Agreements
  /\ pending \subseteq Events /\ recorded \subseteq Events
  /\ job \in [Agreements -> Jobs]
  /\ karbon \in KarbonModes /\ calm \in BOOLEAN

(* At Adobe, at most one agreement for this letter is open for signature: a retry *)
(* cannot send the client a second one (operations-runbook.md, Adobe Sign outage).*)
OneLiveAgreement ==
  \A a, b \in Agreements : state[a] \in Live /\ state[b] \in Live => a = b

(* The engagement reads as signed, or the version as signed, only when the client *)
(* really completed an agreement at Adobe, however stale or repeated the reports. *)
SignedOnlyIfCompleted ==
  status \in {"SIGNED", "COMPLETE"} \/ version = "SIGNED"
    => \E a \in Agreements : state[a] = "COMPLETED"

(* No agreement is created for a version that has already gone out: each approved *)
(* version is sent at most once, across crashes, failures and re-sends.          *)
SentWhileApproved ==
  [][\A a \in Agreements : madeFor[a] = 0 /\ madeFor'[a] # 0 => version = "APPROVED"]_vars

(* A signature on an agreement the database knows reaches an engagement that is out *)
(* for signature, though the webhook is lost or its handler dies half way: the poll *)
(* is the safety net.                                                              *)
SignatureNoticed ==
  \A a \in Agreements :
    (state[a] = "COMPLETED" /\ RowsOf(a) # {} /\ status \in {"SENT_FOR_SIGNATURE", "PARTIALLY_SIGNED"})
      ~> status \in {"SIGNED", "COMPLETE"}

(* SIGNED is never the end: the signed letter is filed and the engagement completed, *)
(* or an administrator has a dead-lettered job to look at.                          *)
SignedGetsFiled ==
  status = "SIGNED" ~>
    (status = "COMPLETE" /\ filed # {}) \/ \E a \in Agreements : job[a] = "dead"
=============================================================================
