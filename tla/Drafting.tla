------------------------------ MODULE Drafting ------------------------------
(***************************************************************************)
(* One engagement from its creation to a draft somebody reviews            *)
(* (apps/worker/src/handlers.ts): the jobs that read documents, prepare,   *)
(* render and upload, the people who start them or overtake them, the      *)
(* hourly sweep of stalled engagements, and the status all of them move.   *)
(*                                                                         *)
(* A transition is two steps, its read and its write, so any two of them   *)
(* interleave.  A job is run by one worker at a time and again until it is *)
(* settled (module JobQueue).  What preparation writes is module           *)
(* Preparation; what becomes of a version is module Review.  An extraction *)
(* run again under an `_again_` key, and a forced preparation or scan,     *)
(* reuse one slot here.                                                    *)
(***************************************************************************)
EXTENDS Naturals, FiniteSets, EngagementStates

CONSTANTS
  MaxDocuments, \* bound: source documents
  MaxDrafts,    \* bound: versions rendered, and attempts in a generation's key
  MaxTries,     \* maxAttempts of a job
  MaxPresses,   \* bound: buttons people press
  MaxFaults,    \* bound: failures met
  Concurrency,  \* WORKER_CONCURRENCY of all the workers: jobs run at once
  Failures      \* what may go wrong

FailureKinds == {"retryable_error", "permanent_error", "worker_dies"}

Documents == 1 .. MaxDocuments
Attempts == 1 .. MaxDrafts

Jobs ==
  ({"prepare", "scan"} \X {0}) \union ({"extract", "after"} \X Documents)
    \union ({"generate", "upload"} \X Attempts)
Chooser == <<"chooser", 0>>
Reviewer == <<"reviewer", 0>>
Sweep == <<"sweep", 0>>
Processes == Jobs \union {Chooser, Reviewer, Sweep}

ASSUME DraftingAssumption ==
  /\ MaxDocuments \in Nat /\ MaxDrafts \in Nat \ {0}
  /\ MaxTries \in Nat \ {0} /\ MaxPresses \in Nat /\ MaxFaults \in Nat
  /\ Concurrency \in Nat \ {0}
  /\ Failures \subseteq FailureKinds

VARIABLES
  status,   \* engagement.status
  gateOpen, \* evaluateGenerationGate finds no blocker
  drafts,   \* document versions of the engagement
  made,     \* the version each generation job has rendered; 0 if none
  chosen,   \* source documents with confirmedAt
  read,     \* source documents whose text has been extracted
  job,      \* background_job.status by key; "none" if no row has the key
  tries,    \* background_job.attempt
  at,       \* where each process is
  writing,  \* the target of a transition it has checked and not yet written
  stalled,  \* the engagement has not been touched for half an hour
  presses,  \* buttons pressed
  faults    \* failures met so far

rows == <<drafts, made, chosen, read>>
queue == <<job, tries>>
counts == <<presses, faults>>
vars == <<status, gateOpen, rows, queue, at, writing, stalled, counts>>

Kind(p) == p[1]
Live(j) == job[j] \in {"pending", "running"}
(* Something of this kind goes wrong, within the bound. *)
Happens(kind) == kind \in Failures /\ faults < MaxFaults /\ faults' = faults + 1
Goto(p, place) == at' = [at EXCEPT ![p] = place]

(* JobQueue.enqueue: a row under the key, in any state, answers for the new one. *)
Enqueue(j) == job' = IF job[j] = "none" THEN [job EXCEPT ![j] = "pending"] ELSE job

(* JobQueue.enqueueRerunnable, and a key with the time in it: only a live row does. *)
EnqueueAgain(j) ==
  /\ job' = IF Live(j) THEN job ELSE [job EXCEPT ![j] = "pending"]
  /\ tries' = IF Live(j) THEN tries ELSE [tries EXCEPT ![j] = 0]

Init ==
  /\ status = "NOT_STARTED"
  /\ gateOpen \in BOOLEAN
  /\ drafts = 0 /\ made = [n \in Attempts |-> 0]
  /\ chosen = {} /\ read = {}
  /\ job = [j \in Jobs |-> IF j = <<"prepare", 0>> THEN "pending" ELSE "none"]
  /\ tries = [j \in Jobs |-> 0]
  /\ at = [p \in Processes |-> "idle"]
  /\ writing = [p \in Processes |-> "NONE"]
  /\ stalled = FALSE /\ presses = 0 /\ faults = 0

(***************************************************************************)
(* WorkflowService.transition, for every process.                          *)
(***************************************************************************)
Target(place) ==
  CASE place = "choosing" -> "EXTRACTING_DATA"
    [] place \in {"announcing", "returning"} -> "SOURCE_DOCUMENT_REVIEW_REQUIRED"
    [] place = "generating" -> "GENERATING"
    [] place = "regenerating" -> "REGENERATING"
    [] place = "drafted" -> "DRAFT_READY"
    [] place \in {"failing", "faltering"} -> "GENERATION_FAILED"
    [] place = "readied" -> "REVIEW_REQUIRED"
    [] place = "reviewing" -> "IN_REVIEW"
    [] place = "changing" -> "CHANGES_REQUESTED"
    [] OTHER -> "NEEDS_ATTENTION" \* "blocked", "unready", "surfacing", "burying"

Moving ==
  {"choosing", "announcing", "returning", "generating", "regenerating", "drafted", "failing",
   "faltering", "readied", "reviewing", "changing", "blocked", "unready", "surfacing", "burying"}

(* A handler that takes the status it finds for the work it stands for. *)
TakenForDone(place) ==
  CASE place = "announcing" -> "asking"
    [] place \in {"generating", "regenerating"} -> "drafted"
    [] place = "drafted" -> "handing"
    [] place = "failing" -> "threw"
    [] place = "faltering" -> "threw_retryable"
    [] place \in {"readied", "unready", "blocked"} -> "returned"
    [] OTHER -> "idle"

(* Where the process goes on once the status is what it asked for ... *)
Moved(place) ==
  CASE place = "announcing" -> "asking"
    [] place \in {"generating", "regenerating"} -> "admitting"
    [] place = "drafted" -> "handing"
    [] place = "failing" -> "threw"
    [] place = "faltering" -> "threw_retryable"
    [] place \in {"readied", "unready", "blocked"} -> "returned"
    [] OTHER -> "idle" \* "choosing", "returning", "reviewing", "changing", "surfacing", "burying"

(* ... and if it is refused: the error a handler throws is never retryable, the *)
(* failed generation's own included; the other callers end there.               *)
Refused(place) ==
  CASE place = "drafted" -> "failing"
    [] place \in {"announcing", "generating", "regenerating", "failing", "faltering",
                  "readied", "unready", "blocked"} -> "threw"
    [] OTHER -> "idle"

(* The read: the same status is a success, and assertTransition consults the table. *)
ReadStatus(p) ==
  LET to == Target(at[p])
  IN /\ at[p] \in Moving /\ writing[p] = "NONE"
     /\ \/ status = to /\ Goto(p, Moved(at[p])) /\ UNCHANGED writing
        \/ status # to /\ ~canTransition(status, to) /\ Goto(p, Refused(at[p])) /\ UNCHANGED writing
        \/ canTransition(status, to) /\ writing' = [writing EXCEPT ![p] = to] /\ UNCHANGED at
     /\ UNCHANGED <<status, gateOpen, rows, queue, stalled, counts>>

(* The trigger on the engagement table compares with the status that is there now. *)
TriggerAllows(to) == status = to \/ canTransition(status, to)

WriteStatus(p) ==
  LET to == writing[p]
  IN /\ to # "NONE"
     /\ writing' = [writing EXCEPT ![p] = "NONE"]
     /\ \/ TriggerAllows(to) /\ status' = to /\ stalled' = FALSE /\ Goto(p, Moved(at[p]))
        \/ ~TriggerAllows(to) /\ Goto(p, Refused(at[p])) /\ UNCHANGED <<status, stalled>>
     /\ UNCHANGED <<gateOpen, rows, queue, counts>>

(***************************************************************************)
(* The worker (apps/worker/src/index.ts, runHandler).                      *)
(***************************************************************************)
FirstPlace(kind) ==
  CASE kind \in {"prepare", "after"} -> "preparing"
    [] kind = "scan" -> "scanning"
    [] kind = "extract" -> "reading"
    [] kind = "generate" /\ status \in {"CHANGES_REQUESTED", "DRAFT_READY"} -> "regenerating"
    [] kind = "generate" -> "generating"
    [] kind = "upload" -> "publishing"

(* A job is settled or given back: what its handler held in memory is gone. *)
Settle(j, state, count) ==
  /\ job' = [job EXCEPT ![j] = state]
  /\ tries' = [tries EXCEPT ![j] = count]
  /\ made' = IF Kind(j) = "generate" THEN [made EXCEPT ![j[2]] = 0] ELSE made
  /\ UNCHANGED <<drafts, chosen, read>>

(* A generation is not begun when it might be the one version too many. *)
Start(j) ==
  /\ job[j] = "pending" /\ at[j] = "idle"
  /\ Cardinality({k \in Jobs : at[k] # "idle"}) < Concurrency
  /\ Kind(j) = "generate" => drafts
       + Cardinality({n \in Attempts : job[<<"generate", n>>] = "running" /\ made[n] = 0}) < MaxDrafts
  /\ job' = [job EXCEPT ![j] = "running"]
  /\ tries' = [tries EXCEPT ![j] = @ + 1]
  /\ Goto(j, FirstPlace(Kind(j)))
  /\ UNCHANGED <<status, gateOpen, rows, writing, stalled, counts>>

Return(j) ==
  /\ at[j] = "returned"
  /\ Settle(j, "succeeded", 0)
  /\ Goto(j, "idle")
  /\ UNCHANGED <<status, gateOpen, writing, stalled, counts>>

(* JobQueue.fail, after which a dead-lettered job is brought to somebody's notice. *)
Fail(j) ==
  LET again == at[j] = "threw_retryable" /\ tries[j] < MaxTries
  IN /\ at[j] \in {"threw", "threw_retryable"}
     /\ IF again THEN Settle(j, "pending", tries[j]) ELSE Settle(j, "dead", 0)
     /\ Goto(j, IF again THEN "idle" ELSE "surfacing")
     /\ UNCHANGED <<status, gateOpen, writing, stalled, counts>>

(* A call of a provider, of the converter or of the store throws. *)
Breaks(j) ==
  /\ at[j] \in {"preparing", "scanning", "reading", "rendering", "publishing"}
  /\ \/ Happens("retryable_error")
        /\ Goto(j, IF at[j] = "rendering" THEN "faltering" ELSE "threw_retryable")
     \/ Happens("permanent_error")
        /\ Goto(j, IF at[j] = "rendering" THEN "failing" ELSE "threw")
  /\ UNCHANGED <<status, gateOpen, rows, queue, writing, stalled, presses>>

Forget(j) == writing' = [writing EXCEPT ![j] = "NONE"]

(* The process ends; reclaimStuckJobs takes its job back, or buries it if that was  *)
(* its last attempt.  A dead-lettered one may so miss being brought to notice.      *)
Die(j) ==
  /\ at[j] # "idle"
  /\ Happens("worker_dies")
  /\ IF job[j] = "running"
       THEN Settle(j, IF tries[j] < MaxTries THEN "pending" ELSE "dead", tries[j])
       ELSE UNCHANGED <<rows, queue>>
  /\ Goto(j, "idle") /\ Forget(j)
  /\ UNCHANGED <<status, gateOpen, stalled, presses>>

(***************************************************************************)
(* PREPARE_ENGAGEMENT and maybeStartGeneration.                            *)
(***************************************************************************)
(* Only the preparation that follows an extraction may end EXTRACTING_DATA. *)
Announces(j) == Kind(j) = "after" /\ status = "EXTRACTING_DATA"

Startable == {"EXTRACTING_DATA", "SOURCE_DOCUMENT_REVIEW_REQUIRED"}

(* It may raise a conflict or find a fee to approve, which closes the gate. *)
Prepare(j) ==
  /\ at[j] = "preparing"
  /\ \E found \in {gateOpen, FALSE} : gateOpen' = found
  /\ Goto(j, IF Announces(j) THEN "announcing" ELSE
             IF status \in Startable THEN "counting" ELSE "returned")
  /\ UNCHANGED <<status, rows, queue, writing, stalled, counts>>

AskStatus(j) ==
  /\ at[j] = "asking"
  /\ Goto(j, IF status \in Startable THEN "counting" ELSE "returned")
  /\ UNCHANGED <<status, gateOpen, rows, queue, writing, stalled, counts>>

(* The key carries one more than the versions there are. *)
Autostart(j) ==
  LET next == <<"generate", drafts + 1>>
      starts == gateOpen /\ drafts < MaxDrafts
  IN /\ at[j] = "counting"
     /\ IF starts THEN Enqueue(next) ELSE UNCHANGED job
     /\ Goto(j, "returned")
     /\ UNCHANGED <<status, gateOpen, rows, tries, writing, stalled, counts>>

(***************************************************************************)
(* EXTRACT_DOCUMENT_TEXT and SCAN_CLIENT_DOCUMENTS.                        *)
(***************************************************************************)
(* A blocker parks the engagement; a document of no use ends the job there; *)
(* otherwise what was read is to be prepared from.                          *)
Extract(j) ==
  /\ at[j] = "reading"
  /\ \/ Goto(j, "blocked") /\ UNCHANGED read
     \/ Goto(j, "returned") /\ UNCHANGED read
     \/ Goto(j, "handing") /\ read' = read \union {j[2]}
  /\ UNCHANGED <<status, gateOpen, drafts, made, chosen, queue, writing, stalled, counts>>

(* The key is the file's hash: bytes prepared from before are not prepared from again. *)
QueuePreparation(j) ==
  /\ at[j] = "handing" /\ Kind(j) = "extract"
  /\ Enqueue(<<"after", j[2]>>)
  /\ Goto(j, "returned")
  /\ UNCHANGED <<status, gateOpen, rows, tries, writing, stalled, counts>>

PreparationStates ==
  {"NOT_STARTED", "LOCATING_SOURCE_DOCUMENTS", "SOURCE_DOCUMENT_REVIEW_REQUIRED",
   "EXTRACTING_DATA", "DRAFT_READY", "GENERATION_FAILED", "NEEDS_ATTENTION"}

FinishScan(j) ==
  /\ at[j] = "scanning"
  /\ IF status \in PreparationStates THEN EnqueueAgain(<<"prepare", 0>>) ELSE UNCHANGED <<job, tries>>
  /\ Goto(j, "returned")
  /\ UNCHANGED <<status, gateOpen, rows, writing, stalled, counts>>

(***************************************************************************)
(* GENERATE_ENGAGEMENT_LETTER and UPLOAD_TO_KARBON.                        *)
(***************************************************************************)
(* The gate of GenerationService.generate, before it renders. *)
Admit(j) ==
  /\ at[j] = "admitting"
  /\ Goto(j, IF gateOpen THEN "rendering" ELSE "failing")
  /\ UNCHANGED <<status, gateOpen, rows, queue, writing, stalled, counts>>

Render(j) ==
  /\ at[j] = "rendering" /\ drafts < MaxDrafts
  /\ drafts' = drafts + 1
  /\ made' = [made EXCEPT ![j[2]] = drafts + 1]
  /\ Goto(j, "drafted")
  /\ UNCHANGED <<status, gateOpen, chosen, read, queue, writing, stalled, counts>>

QueueUpload(j) ==
  /\ at[j] = "handing" /\ Kind(j) = "generate"
  /\ Enqueue(<<"upload", made[j[2]]>>)
  /\ Goto(j, "returned")
  /\ UNCHANGED <<status, gateOpen, rows, tries, writing, stalled, counts>>

(* publishDraft, and then engagementReadiness.check unless the engagement has moved on. *)
Publish(j) ==
  /\ at[j] = "publishing"
  /\ \/ status = "DRAFT_READY" /\ \E place \in {"readied", "unready"} : Goto(j, place)
     \/ status # "DRAFT_READY" /\ Goto(j, "returned")
  /\ UNCHANGED <<status, gateOpen, rows, queue, writing, stalled, counts>>

(***************************************************************************)
(* SWEEP_STUCK_ENGAGEMENTS, every hour.                                    *)
(***************************************************************************)
(* The sweep without the status a chosen document is read in. *)
ParkedLocating == status = "LOCATING_SOURCE_DOCUMENTS"
Parked == status \in {"LOCATING_SOURCE_DOCUMENTS", "EXTRACTING_DATA"}

HalfHourPasses ==
  /\ Parked /\ ~stalled
  /\ stalled' = TRUE
  /\ UNCHANGED <<status, gateOpen, rows, queue, at, writing, counts>>

SelectParked ==
  /\ at[Sweep] = "idle" /\ Parked /\ stalled
  /\ Goto(Sweep, "considering")
  /\ UNCHANGED <<status, gateOpen, rows, queue, writing, stalled, counts>>

(* Anything queued or running means patience. *)
AnyLive == \E j \in Jobs : Live(j)

CountLive ==
  /\ at[Sweep] = "considering"
  /\ Goto(Sweep, IF AnyLive THEN "idle" ELSE "looking")
  /\ UNCHANGED <<status, gateOpen, rows, queue, writing, stalled, counts>>

FindLastFailure ==
  /\ at[Sweep] = "looking"
  /\ Goto(Sweep, IF \E j \in Jobs : job[j] = "dead" THEN "burying" ELSE "returning")
  /\ UNCHANGED <<status, gateOpen, rows, queue, writing, stalled, counts>>

(***************************************************************************)
(* People, each of whose buttons is offered in every status.               *)
(***************************************************************************)
Press == presses < MaxPresses /\ presses' = presses + 1 /\ UNCHANGED faults

(* useSourceDocumentCandidate: the job is queued, then the status moved. *)
Choose(d) ==
  /\ Press
  /\ at[Chooser] = "idle" /\ d \notin chosen
  /\ chosen' = chosen \union {d}
  /\ EnqueueAgain(<<"extract", d>>)
  /\ Goto(Chooser, "choosing")
  /\ UNCHANGED <<status, gateOpen, drafts, made, read, writing, stalled>>

(* uploadSourceDocument: no status is touched. *)
Attach(d) ==
  /\ Press
  /\ Enqueue(<<"extract", d>>)
  /\ UNCHANGED <<status, gateOpen, rows, tries, at, writing, stalled>>

(* startGeneration: its key carries no attempt, which makes it the first. *)
PressGenerate ==
  /\ Press
  /\ gateOpen
  /\ Enqueue(<<"generate", 1>>)
  /\ UNCHANGED <<status, gateOpen, rows, tries, at, writing, stalled>>

ScanStates ==
  {"NOT_STARTED", "SOURCE_DOCUMENT_REVIEW_REQUIRED", "GENERATION_FAILED", "NEEDS_ATTENTION"}

PressScan ==
  /\ Press
  /\ status \in ScanStates
  /\ EnqueueAgain(<<"scan", 0>>)
  /\ UNCHANGED <<status, gateOpen, rows, at, writing, stalled>>

ResolveBlockers ==
  /\ Press
  /\ ~gateOpen /\ gateOpen' = TRUE
  /\ UNCHANGED <<status, rows, queue, at, writing, stalled>>

(* The dead-letter screen's Retry button. *)
Retry(j) ==
  /\ Press
  /\ job[j] = "dead" /\ at[j] = "idle"
  /\ job' = [job EXCEPT ![j] = "pending"]
  /\ tries' = [tries EXCEPT ![j] = 0]
  /\ UNCHANGED <<status, gateOpen, rows, at, writing, stalled>>

StartReview ==
  /\ at[Reviewer] = "idle" /\ Goto(Reviewer, "reviewing")
  /\ UNCHANGED <<status, gateOpen, rows, queue, writing, stalled, counts>>

RequestChanges ==
  /\ at[Reviewer] = "idle" /\ Goto(Reviewer, "changing")
  /\ UNCHANGED <<status, gateOpen, rows, queue, writing, stalled, counts>>

(* purgeSucceededJobs, after JOB_RETENTION_DAYS: the key is free again. *)
PurgeJob(j) ==
  /\ Press
  /\ job[j] = "succeeded"
  /\ job' = [job EXCEPT ![j] = "none"]
  /\ UNCHANGED <<status, gateOpen, rows, tries, at, writing, stalled>>

Transition(p) == ReadStatus(p) \/ WriteStatus(p)

Work(j) ==
  \/ Return(j) \/ Fail(j)
  \/ Prepare(j) \/ AskStatus(j) \/ Autostart(j)
  \/ Extract(j) \/ QueuePreparation(j) \/ FinishScan(j)
  \/ Admit(j) \/ Render(j) \/ QueueUpload(j)
  \/ Publish(j)

SweepOnce == SelectParked \/ CountLive \/ FindLastFailure

People ==
  \/ \E d \in Documents : Choose(d) \/ Attach(d)
  \/ PressGenerate \/ PressScan \/ ResolveBlockers \/ StartReview \/ RequestChanges
  \/ \E j \in Jobs : Retry(j)

Next ==
  \/ \E p \in Processes : Transition(p)
  \/ \E j \in Jobs : Start(j) \/ Work(j) \/ Breaks(j) \/ Die(j) \/ PurgeJob(j)
  \/ HalfHourPasses \/ SweepOnce
  \/ People

Fairness ==
  /\ \A p \in Processes : WF_vars(Transition(p))
  /\ \A j \in Jobs : WF_vars(Start(j)) /\ WF_vars(Work(j))
  /\ WF_vars(HalfHourPasses) /\ WF_vars(SweepOnce)

Spec == Init /\ [][Next]_vars
FairSpec == Spec /\ Fairness

-----------------------------------------------------------------------------
(* Every place a process can be at. *)
Places ==
  Moving \union
  {"idle", "returned", "threw", "threw_retryable", "preparing", "asking", "counting", "scanning",
   "reading", "handing", "admitting", "rendering", "publishing",
   "considering", "looking"}

(* Every variable has its type; a handler is at work only while its job runs, and a *)
(* process writes only the status the place it is at asks for.                      *)
TypeOK ==
  /\ status \in EngagementStatuses
  /\ gateOpen \in BOOLEAN /\ stalled \in BOOLEAN
  /\ drafts \in 0 .. MaxDrafts
  /\ made \in [Attempts -> 0 .. MaxDrafts]
  /\ chosen \subseteq Documents /\ read \subseteq Documents
  /\ job \in [Jobs -> {"none", "pending", "running", "succeeded", "dead"}]
  /\ tries \in [Jobs -> Nat]
  /\ at \in [Processes -> Places]
  /\ writing \in [Processes -> EngagementStatuses \union {"NONE"}]
  /\ presses \in 0 .. MaxPresses /\ faults \in 0 .. MaxFaults
  /\ \A j \in Jobs : at[j] \notin {"idle", "surfacing"} => job[j] = "running"
  /\ \A p \in Processes : writing[p] # "NONE" => at[p] \in Moving /\ writing[p] = Target(at[p])

(* An engagement that reads as having a draft, or waits for a reviewer, has a version *)
(* to read, though its jobs crash, are run again and overtake one another.            *)
ReviewHasDraft == status \in {"DRAFT_READY", "REVIEW_REQUIRED"} => drafts > 0

(* An engagement a job is working on never stays so: the job moves it, or it is      *)
(* brought to somebody's notice, or the sweep finds it.  That needs fewer faults than *)
(* attempts: a job killed on its last one is buried without a word, and the sweep    *)
(* looks at two of the statuses.                                                     *)
Working == status \in {"EXTRACTING_DATA", "GENERATING", "REGENERATING", "DRAFT_READY"}
Unparked == Working ~> ~Working \/ drafts = MaxDrafts
=============================================================================
