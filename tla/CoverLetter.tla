---------------------------- MODULE CoverLetter ----------------------------
(***************************************************************************)
(* The completion cover letter of one engagement, from the filing of the   *)
(* signed engagement letter to the client's Karbon documents               *)
(* (packages/services/src/cover-letter-autostart.ts,                       *)
(* cover-letter-service.ts, cover-letter-narrative-service.ts,             *)
(* completion-delivery-service.ts).                                        *)
(*                                                                         *)
(* A package belongs to one selection of final documents: its idempotency  *)
(* key is made of their fingerprint, so a package is named by its          *)
(* selection here.  Selection 0 lacks a document the gate requires.        *)
(* Nothing under src/ marks a document as final and included; the          *)
(* integration tests write both flags, and so does Attach.                 *)
(*                                                                         *)
(* A transition is one step, as in module Review.  How a job is claimed    *)
(* and retried is module JobQueue: here a job is run by one process at a   *)
(* time and goes back to the queue when that process ends.                 *)
(***************************************************************************)
EXTENDS Naturals, EngagementStates

CONSTANTS
  MaxSelections, \* bound: selections of final documents
  Users,         \* people at the web pages
  System,        \* the author of what a job renders of its own accord
  MaxVersions,   \* bound: letters rendered
  MaxPresses,    \* bound: buttons people press, uploads included
  MaxFaults      \* bound: processes that end, or calls that fail, in between

Selections == 0 .. MaxSelections
Versions == 1 .. MaxVersions
People == {<<"person", u>> : u \in Users}
Authors == Users \union {System}
FilingJob == <<"file", 0>>
AutoJob(s) == <<"auto", s>>
DeliveryJob(k) == <<"deliver", k>>
Generators == {AutoJob(s) : s \in Selections} \union {<<"press", u>> : u \in Users}
Deliverers == {DeliveryJob(k) : k \in Selections}
Jobs == {FilingJob} \union Generators \union Deliverers
Actors == Jobs \union People

ASSUME CoverLetterAssumption ==
  /\ System \notin Users /\ MaxSelections \in Nat \ {0}
  /\ MaxVersions \in Nat /\ MaxPresses \in Nat /\ MaxFaults \in Nat

VARIABLES
  status,    \* engagement.status
  selection, \* the documents included in the package
  package,   \* cover_letter_package.status by selection; "NONE" if no row has the key
  version,   \* document_version: [package, status, author]; status = "NONE" if no row
  approvals, \* approval rows of type COVER_LETTER: version and person
  filed,     \* the letter in the client's Karbon documents; 0 if none
  job,       \* background_job.status; "none" if no row
  at,        \* where each actor is, and what it has in hand: [place, package, version, stale]
  presses,   \* buttons pressed
  faults     \* faults met

letters == <<package, version, approvals, filed>>
counts == <<presses, faults>>
vars == <<status, selection, letters, job, at, counts>>

Idle == [place |-> "idle", package |-> 0, version |-> 0, stale |-> {}]
NoVersion == [package |-> 0, status |-> "NONE", author |-> System]

(* The engagement letter is signed and its filing is queued. *)
Init ==
  /\ status = "SIGNED"
  /\ selection \in Selections
  /\ package = [k \in Selections |-> "NONE"]
  /\ version = [v \in Versions |-> NoVersion]
  /\ approvals = {} /\ filed = 0
  /\ job = [j \in Jobs |-> IF j = FilingJob THEN "pending" ELSE "none"]
  /\ at = [p \in Actors |-> Idle]
  /\ presses = 0 /\ faults = 0

Kind(p) == p[1]
At(p, place) == at[p].place = place
About(p) == at[p].package
Doing(p) == at[p].version
Goto(p, place) ==
  at' = [at EXCEPT ![p] = IF place \in {"idle", "returned", "threw"} THEN [Idle EXCEPT !.place = place]
                          ELSE [@ EXCEPT !.place = place]]
(* On to the next place with this in hand. *)
Take(p, place, k, v) == at' = [at EXCEPT ![p] = [Idle EXCEPT !.place = place, !.package = k, !.version = v]]
Returned(p) == IF p \in Jobs THEN "returned" ELSE "idle"
Threw(p) == IF p \in Jobs THEN "threw" ELSE "idle"
(* JobQueue.enqueue: a row under the key, in any state, answers for the new one. *)
Enqueue(j) == job' = IF job[j] = "none" THEN [job EXCEPT ![j] = "pending"] ELSE job
Rows(k) == {v \in Versions : version[v].status # "NONE" /\ version[v].package = k}
Latest(S) == CHOOSE v \in S \union {0} : \A w \in S : w <= v

(* WorkflowService.transition: on to the next place, or it throws. *)
Move(p, to, next) ==
  \/ /\ status = to \/ canTransition(status, to)
     /\ status' = to /\ Goto(p, next)
  \/ /\ status # to /\ ~canTransition(status, to)
     /\ UNCHANGED status /\ Goto(p, Threw(p))

(* As if there were no such index. *)
MayAlwaysBe(k, to) == TRUE
(* The unique index cover_letter_one_live_per_target. *)
MayBe(k, to) == to = "STALE" \/ \A o \in Selections \ {k} : package[o] \in {"NONE", "STALE"}

(***************************************************************************)
(* The worker process (apps/worker/src/index.ts).                          *)
(***************************************************************************)
FirstPlace(j) ==
  CASE Kind(j) = "file" -> "filing" [] Kind(j) = "deliver" -> "fetching" [] OTHER -> "gating"

Start(j) ==
  /\ job[j] = "pending" /\ At(j, "idle")
  /\ job' = [job EXCEPT ![j] = "running"] /\ Goto(j, FirstPlace(j))
  /\ UNCHANGED <<status, selection, letters, counts>>

Return(j) ==
  /\ At(j, "returned")
  /\ job' = [job EXCEPT ![j] = "succeeded"] /\ Goto(j, "idle")
  /\ UNCHANGED <<status, selection, letters, counts>>

(* None of the errors thrown here is retryable.  A delivery job names no engagement. *)
Fail(j) ==
  /\ At(j, "threw")
  /\ job' = [job EXCEPT ![j] = "dead_letter"]
  /\ Goto(j, IF j \in Deliverers THEN "idle" ELSE "surfacing")
  /\ UNCHANGED <<status, selection, letters, counts>>

Surface(j) ==
  /\ At(j, "surfacing") /\ Move(j, "NEEDS_ATTENTION", "idle")
  /\ UNCHANGED <<selection, letters, job, counts>>

(* The worker ends, or a call fails for now or for good; or a person's request ends. *)
Break(p) ==
  /\ ~At(p, "idle") /\ faults < MaxFaults /\ faults' = faults + 1
  /\ \/ Goto(p, "idle") /\ job' = IF p \in Jobs /\ job[p] = "running" THEN [job EXCEPT ![p] = "pending"] ELSE job
     \/ p \in Jobs /\ at[p].place \notin {"surfacing", "returned"} /\ Goto(p, "threw") /\ UNCHANGED job
  /\ UNCHANGED <<status, selection, letters, presses>>

(***************************************************************************)
(* maybeStartCoverLetter, after the filing job and after an upload.        *)
(***************************************************************************)
(* As if the cover letter were asked for on the other side only. *)
FileSignedOnly(j) ==
  /\ At(j, "filing")
  /\ IF status = "SIGNED" THEN Move(j, "COMPLETE", "returned") ELSE UNCHANGED status /\ Goto(j, "returned")
  /\ UNCHANGED <<selection, letters, job, counts>>
FileSigned(j) ==
  /\ At(j, "filing")
  /\ IF status = "SIGNED" THEN Move(j, "COMPLETE", "asking") ELSE UNCHANGED status /\ Goto(j, "asking")
  /\ UNCHANGED <<selection, letters, job, counts>>

(* The status and the gate are read one after the other ... *)
AskStatus(p) ==
  /\ At(p, "asking")
  /\ Goto(p, CASE status = "COMPLETE" -> "weighing"
               [] status = "READY_FOR_COVER_LETTER" -> "weighing_again"
               [] OTHER -> Returned(p))
  /\ UNCHANGED <<status, selection, letters, job, counts>>

Weigh(p) ==
  /\ at[p].place \in {"weighing", "weighing_again"}
  /\ Goto(p, IF selection = 0 THEN Returned(p)
             ELSE IF At(p, "weighing") THEN "readying" ELSE "queueing")
  /\ UNCHANGED <<status, selection, letters, job, counts>>

Ready(p) ==
  /\ At(p, "readying") /\ Move(p, "READY_FOR_COVER_LETTER", "queueing")
  /\ UNCHANGED <<selection, letters, job, counts>>

(* ... and the documents once more, for the key. *)
QueueLetter(p) ==
  /\ At(p, "queueing") /\ Goto(p, Returned(p))
  /\ Enqueue(AutoJob(selection))
  /\ UNCHANGED <<status, selection, letters, counts>>

(***************************************************************************)
(* GENERATE_COVER_LETTER: CoverLetterService.generate.                     *)
(***************************************************************************)
TriggerGate == status \in {"READY_FOR_COVER_LETTER", "COVER_LETTER_CHANGES_REQUESTED"} /\ selection # 0

PassGate(j) ==
  /\ At(j, "gating") /\ Goto(j, IF TriggerGate THEN "entering" ELSE "threw")
  /\ UNCHANGED <<status, selection, letters, job, counts>>

Enter(j) ==
  /\ At(j, "entering") /\ Move(j, "COVER_LETTER_GENERATING", "reading")
  /\ UNCHANGED <<selection, letters, job, counts>>

ReadSources(j) ==
  /\ At(j, "reading") /\ Take(j, "opening", selection, 0)
  /\ UNCHANGED <<status, selection, letters, job, counts>>

OpenPackage(j) ==
  /\ At(j, "opening")
  /\ IF MayBe(About(j), "GENERATING")
       THEN package' = [package EXCEPT ![About(j)] = "GENERATING"] /\ Goto(j, "rendering")
       ELSE UNCHANGED package /\ Goto(j, "threw")
  /\ UNCHANGED <<status, selection, version, approvals, filed, job, counts>>

(* The number is found after everything is rendered; a letter no person asked for has no author. *)
Render(j) ==
  LET next == Latest({v \in Versions : version[v].status # "NONE"}) + 1
  IN /\ At(j, "rendering") /\ next \in Versions
     /\ version' = [version EXCEPT ![next] =
          [package |-> About(j), status |-> "DRAFT", author |-> IF Kind(j) = "press" THEN j[2] ELSE System]]
     /\ Goto(j, "rendered")
     /\ UNCHANGED <<status, selection, package, approvals, filed, job, counts>>

ClosePackage(j) ==
  /\ At(j, "rendered")
  /\ IF MayBe(About(j), "REVIEW_REQUIRED")
       THEN package' = [package EXCEPT ![About(j)] = "REVIEW_REQUIRED"] /\ Goto(j, "announcing")
       ELSE UNCHANGED package /\ Goto(j, "threw")
  /\ UNCHANGED <<status, selection, version, approvals, filed, job, counts>>

AnnounceLetter(j) ==
  /\ At(j, "announcing") /\ Move(j, "COVER_LETTER_REVIEW_REQUIRED", "returned")
  /\ UNCHANGED <<selection, letters, job, counts>>

(***************************************************************************)
(* CoverLetterService.approve, detectStaleSources first.                   *)
(***************************************************************************)
FindStale(p) ==
  LET stale == {k \in Selections \ {selection} : package[k] \notin {"NONE", "STALE"}}
  IN /\ At(p, "detecting")
     /\ at' = [at EXCEPT ![p].place = IF stale = {} THEN "checking" ELSE "marking", ![p].stale = stale]
     /\ UNCHANGED <<status, selection, letters, job, counts>>

(* One transaction per package. *)
MarkStale(p) ==
  /\ At(p, "marking")
  /\ \E k \in at[p].stale :
       /\ package' = [package EXCEPT ![k] = "STALE"]
       /\ version' = [v \in Versions |->
            IF v \in Rows(k) /\ version[v].status \in {"DRAFT", "APPROVED"}
              THEN [version[v] EXCEPT !.status = "STALE"] ELSE version[v]]
       /\ at' = [at EXCEPT ![p].place = IF at[p].stale = {k} THEN "reopening" ELSE "marking",
                           ![p].stale = @ \ {k}]
  /\ UNCHANGED <<status, selection, approvals, filed, job, counts>>

Reopen(p) ==
  /\ At(p, "reopening") /\ Move(p, "COVER_LETTER_CHANGES_REQUESTED", "checking")
  /\ UNCHANGED <<selection, letters, job, counts>>

(* As if separation of duties were left to the permission. *)
AnybodyMayApprove(p) == package[About(p)] # "STALE"
(* assertSeparationOfDuties and evaluateCoverLetterDeliveryGate. *)
MayApprove(p) == package[About(p)] # "STALE" /\ version[Doing(p)].author # p[2]

CheckLetter(p) ==
  /\ At(p, "checking") /\ Goto(p, IF MayApprove(p) THEN "committing" ELSE "idle")
  /\ UNCHANGED <<status, selection, letters, job, counts>>

CommitLetter(p) ==
  /\ At(p, "committing")
  /\ IF MayBe(About(p), "APPROVED")
       THEN /\ package' = [package EXCEPT ![About(p)] = "APPROVED"]
            /\ version' = [version EXCEPT ![Doing(p)].status = "APPROVED"]
            /\ approvals' = approvals \union {<<Doing(p), p[2]>>}
            /\ Goto(p, "approving")
       ELSE UNCHANGED <<package, version, approvals>> /\ Goto(p, "idle")
  /\ UNCHANGED <<status, selection, filed, job, counts>>

AnnounceApproval(p) ==
  /\ At(p, "approving") /\ Move(p, "COVER_LETTER_APPROVED", "idle")
  /\ UNCHANGED <<selection, letters, job, counts>>

(***************************************************************************)
(* markReadyForDelivery, and the action that calls it.                     *)
(***************************************************************************)
CheckReady(p) ==
  /\ At(p, "asking_ready") /\ Goto(p, IF package[About(p)] = "APPROVED" THEN "marking_ready" ELSE "idle")
  /\ UNCHANGED <<status, selection, letters, job, counts>>

MarkReady(p) ==
  /\ At(p, "marking_ready")
  /\ IF MayBe(About(p), "READY_FOR_DELIVERY")
       THEN package' = [package EXCEPT ![About(p)] = "READY_FOR_DELIVERY"] /\ Goto(p, "announcing_ready")
       ELSE UNCHANGED package /\ Goto(p, "idle")
  /\ UNCHANGED <<status, selection, version, approvals, filed, job, counts>>

AnnounceReady(p) ==
  /\ At(p, "announcing_ready") /\ Move(p, "READY_FOR_DELIVERY", "queueing_delivery")
  /\ UNCHANGED <<selection, letters, job, counts>>

QueueDelivery(p) ==
  /\ At(p, "queueing_delivery") /\ Goto(p, "idle")
  /\ Enqueue(DeliveryJob(About(p)))
  /\ UNCHANGED <<status, selection, letters, counts>>

(***************************************************************************)
(* CoverLetterNarrativeService.save and restoreOriginal.  The text itself  *)
(* reaches no property; what the package was when it was read decides.     *)
(***************************************************************************)
ReadNarrative(p) ==
  /\ At(p, "rewriting")
  /\ Goto(p, IF package[About(p)] \in {"APPROVED", "READY_FOR_DELIVERY"} THEN "unapproving" ELSE "idle")
  /\ UNCHANGED <<status, selection, letters, job, counts>>

Unapprove(p) ==
  /\ At(p, "unapproving") /\ Goto(p, "idle")
  /\ package' = [package EXCEPT ![About(p)] = "STALE"]
  /\ UNCHANGED <<status, selection, version, approvals, filed, job, counts>>

(***************************************************************************)
(* DELIVER_COMPLETION_PACKAGE: CompletionDeliveryService.deliver.          *)
(***************************************************************************)
LatestApproved(k) == Latest({v \in Rows(k) : version[v].status = "APPROVED"})

(* Test Mode, or no connection to Karbon: the job succeeds and nothing is filed. *)
FetchPackage(j) ==
  LET k == j[2] v == LatestApproved(k)
  IN /\ At(j, "fetching")
     /\ \/ /\ package[k] = "READY_FOR_DELIVERY" /\ v # 0
           /\ Take(j, "filing_letter", k, v)
        \/ /\ package[k] # "DELIVERED" /\ (package[k] # "READY_FOR_DELIVERY" \/ v = 0)
           /\ Goto(j, "threw")
        \/ /\ package[k] \in {"DELIVERED", "READY_FOR_DELIVERY"}
           /\ Goto(j, "returned")
     /\ UNCHANGED <<status, selection, letters, job, counts>>

(* A file of that name in the client's documents stands. *)
FileLetter(j) ==
  /\ At(j, "filing_letter") /\ Goto(j, "recording")
  /\ filed' = IF filed = 0 THEN Doing(j) ELSE filed
  /\ UNCHANGED <<status, selection, package, version, approvals, job, counts>>

RecordDelivery(j) ==
  /\ At(j, "recording")
  /\ IF MayBe(j[2], "DELIVERED")
       THEN package' = [package EXCEPT ![j[2]] = "DELIVERED"] /\ Goto(j, "delivered")
       ELSE UNCHANGED package /\ Goto(j, "threw")
  /\ UNCHANGED <<status, selection, version, approvals, filed, job, counts>>

AnnounceDelivery(j) ==
  /\ At(j, "delivered") /\ Move(j, "DELIVERED", "returned")
  /\ UNCHANGED <<selection, letters, job, counts>>

(***************************************************************************)
(* People at the web pages, which may be old.                              *)
(***************************************************************************)
Press(p) == At(p, "idle") /\ presses < MaxPresses /\ presses' = presses + 1

(* An upload stores the document, and then asks whether the letter may start. *)
Attach(p) ==
  /\ Press(p) /\ Goto(p, "asking")
  /\ selection' \in Selections \ {selection}
  /\ UNCHANGED <<status, letters, job, faults>>

(* generateCoverLetter: the key holds the time of the press. *)
PressGenerate(p) ==
  LET j == <<"press", p[2]>>
  IN /\ Press(p) /\ TriggerGate /\ job[j] = "none"
     /\ job' = [job EXCEPT ![j] = "pending"]
     /\ UNCHANGED <<status, selection, letters, at, faults>>

OpenLetter(p) ==
  /\ Press(p)
  /\ \E k \in Selections :
       \E v \in Rows(k), place \in {"detecting", "asking_ready", "rewriting"} :
         Take(p, place, k, v)
  /\ UNCHANGED <<status, selection, letters, job, faults>>

(* JobQueue.retry. *)
Retry(p) ==
  /\ Press(p)
  /\ \E j \in Jobs : job[j] = "dead_letter" /\ job' = [job EXCEPT ![j] = "pending"]
  /\ UNCHANGED <<status, selection, letters, at, faults>>

(***************************************************************************)
(* The specification.                                                      *)
(***************************************************************************)
Beginning(p) == AskStatus(p) \/ Weigh(p) \/ Ready(p) \/ QueueLetter(p)
Running(j) == Start(j) \/ Return(j) \/ Fail(j) \/ Surface(j)
Generating(j) ==
  PassGate(j) \/ Enter(j) \/ ReadSources(j) \/ OpenPackage(j) \/ Render(j) \/ ClosePackage(j) \/ AnnounceLetter(j)
Delivering(j) == FetchPackage(j) \/ FileLetter(j) \/ RecordDelivery(j) \/ AnnounceDelivery(j)
Approving(p) ==
  FindStale(p) \/ MarkStale(p) \/ Reopen(p) \/ CheckLetter(p) \/ CommitLetter(p) \/ AnnounceApproval(p)
MarkingReady(p) == CheckReady(p) \/ MarkReady(p) \/ AnnounceReady(p) \/ QueueDelivery(p)
Rewriting(p) == ReadNarrative(p) \/ Unapprove(p)
Pressing(p) == Attach(p) \/ PressGenerate(p) \/ OpenLetter(p) \/ Retry(p)

Next ==
  \/ \E p \in Actors : Break(p)
  \/ \E p \in People \union {FilingJob} : Beginning(p)
  \/ FileSigned(FilingJob)
  \/ \E j \in Jobs : Running(j)
  \/ \E j \in Generators : Generating(j)
  \/ \E j \in Deliverers : Delivering(j)
  \/ \E p \in People : Approving(p) \/ MarkingReady(p) \/ Rewriting(p) \/ Pressing(p)

Spec == Init /\ [][Next]_vars

-----------------------------------------------------------------------------
Places ==
  {"idle", "returned", "threw", "surfacing", "filing", "asking", "weighing", "weighing_again",
   "readying", "queueing", "gating", "entering", "reading", "opening", "rendering", "rendered",
   "announcing", "detecting", "marking", "reopening", "checking", "committing", "approving",
   "asking_ready", "marking_ready", "announcing_ready", "queueing_delivery", "rewriting",
   "unapproving", "fetching", "filing_letter", "recording", "delivered"}
PackageStatuses ==
  {"NONE", "GENERATING", "REVIEW_REQUIRED", "STALE", "APPROVED", "READY_FOR_DELIVERY", "DELIVERED"}

(* Every variable holds a value of its kind. *)
TypeOK ==
  /\ status \in EngagementStatuses /\ selection \in Selections
  /\ package \in [Selections -> PackageStatuses]
  /\ version \in [Versions -> [package : Selections, status : {"NONE", "DRAFT", "APPROVED", "STALE"},
                               author : Authors]]
  /\ approvals \subseteq Versions \X Users
  /\ filed \in 0 .. MaxVersions
  /\ job \in [Jobs -> {"none", "pending", "running", "succeeded", "dead_letter"}]
  /\ at \in [Actors -> [place : Places, package : Selections, version : 0 .. MaxVersions,
                         stale : SUBSET Selections]]
  /\ presses \in 0 .. MaxPresses /\ faults \in 0 .. MaxFaults

(* What reaches the client's permanent file was approved, by a person who did not write it,
   whatever became of the letter while people and jobs read, rendered, marked and delivered it. *)
FiledWasApproved == filed # 0 => \E u \in Users : <<filed, u>> \in approvals /\ version[filed].author # u

(* Two generations that read different documents, or one that revives a stale package, never
   leave the engagement with two letters a person could approve. *)
OneLiveLetter == \A k, l \in Selections :
  package[k] \notin {"NONE", "STALE"} /\ package[l] \notin {"NONE", "STALE"} => k = l

Starting == {"asking", "weighing", "weighing_again", "readying", "queueing"}
(* "Whichever is last" starts the letter, though each side reads the status, the gate and the
   documents one after the other: when the letter is filed, the documents are in and every call
   has ended, a generation of the letter has been queued. *)
LastOneStarts ==
  (/\ status \in {"COMPLETE", "READY_FOR_COVER_LETTER"} /\ selection # 0 /\ faults = 0
   /\ job[FilingJob] \in {"succeeded", "dead_letter"}
   /\ \A p \in Actors : at[p].place \notin Starting) =>
    \E j \in Generators : job[j] # "none"
=============================================================================
