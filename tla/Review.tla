------------------------------- MODULE Review -------------------------------
(***************************************************************************)
(* What becomes of the versions of one engagement letter                   *)
(* (packages/services/src/approval-service.ts, generation-service.ts,      *)
(* external-signature-service.ts): rendered, superseded, reviewed, sent    *)
(* back, approved, authorised, and then sent to Adobe or recorded as       *)
(* signed on paper.  People act from pages that may be old, each action is *)
(* several statements, and any process may end between two of them.        *)
(*                                                                         *)
(* A transition is one step here.  Between its read and its write only     *)
(* the status may change, and the trigger judges the status it finds:      *)
(* either the read or the write is the moment the transition succeeds or   *)
(* is refused (module Drafting has both).  How an agreement fares at Adobe *)
(* is module Signing.                                                      *)
(***************************************************************************)
EXTENDS Naturals, FiniteSets, EngagementStates

CONSTANTS
  Users,       \* people who review, approve and send
  System,      \* the author of what a job renders of its own accord
  Generators,  \* generation jobs that may run side by side
  Exceptions,  \* wording exceptions somebody may submit
  MaxVersions, \* bound: versions rendered
  MaxPresses,  \* bound: buttons people press
  NoUser

Actors == Users \union Generators
Authors == Users \union {System}
Versions == 1 .. MaxVersions
Attempts == 1 .. MaxPresses
Keys == Versions \X Attempts

ASSUME ReviewAssumption ==
  /\ Users \intersect Generators = {}
  /\ System \notin Users /\ NoUser \notin Authors
  /\ MaxVersions \in Nat /\ MaxPresses \in Nat

VARIABLES
  status,    \* engagement.status
  version,   \* document_version: [status, author, wording]; status = "NONE" if no row
  approvals, \* approval rows of type FINAL_DOCUMENT: version and user
  exception, \* wording_exception: [author, approvedBy, rejected]
  clear,     \* no conflict, date or fee stands in the way of an approval
  agreement, \* adobe_agreement by idempotencyKey, version and attempt: its status; "NONE" if no row
  attempt,   \* the attempt each sender has counted
  external,  \* versions an external_signature row names
  at,        \* where each actor is
  doing,     \* the version an actor is about
  applied,   \* exceptions a generation has read
  gone,      \* history: versions that went to Adobe or were recorded as signed
  presses    \* buttons pressed

letters == <<version, approvals, exception>>
signatures == <<agreement, attempt, external, gone>>
process == <<at, doing, applied>>
vars == <<status, letters, clear, signatures, process, presses>>

NoVersion == [status |-> "NONE", author |-> NoUser, wording |-> {}]

Init ==
  /\ status = "EXTRACTING_DATA"
  /\ version = [v \in Versions |-> NoVersion]
  /\ approvals = {}
  /\ exception = [e \in Exceptions |-> [author |-> NoUser, approvedBy |-> NoUser, rejected |-> FALSE]]
  /\ clear \in BOOLEAN
  /\ agreement = [k \in Keys |-> "NONE"] /\ attempt = [u \in Users |-> 0]
  /\ external = {} /\ gone = {}
  /\ at = [p \in Actors |-> "idle"]
  /\ doing = [p \in Actors |-> 0]
  /\ applied = [g \in Generators |-> {}]
  /\ presses = 0

Made == {v \in Versions : version[v].status # "NONE"}
Latest == CHOOSE v \in Made \union {0} : \A w \in Made : w <= v
Goto(p, place) == at' = [at EXCEPT ![p] = place]
Restatus(S, from, to) ==
  version' = [v \in Versions |-> IF v \in S /\ version[v].status \in from
                                   THEN [version[v] EXCEPT !.status = to] ELSE version[v]]

(* WorkflowService.transition: on to the next place, or the action ends there. *)
MayMove(to) == status = to \/ canTransition(status, to)
Move(p, to, next) ==
  \/ MayMove(to) /\ status' = to /\ Goto(p, next)
  \/ ~MayMove(to) /\ UNCHANGED status /\ Goto(p, "idle")

(* A process ends, or a statement fails, between two statements. *)
Leave(p) ==
  /\ at[p] # "idle" /\ Goto(p, "idle")
  /\ UNCHANGED <<status, letters, clear, signatures, doing, applied, presses>>

(***************************************************************************)
(* GENERATE_ENGAGEMENT_LETTER and GenerationService.generate.              *)
(***************************************************************************)
StartGeneration(g) ==
  /\ at[g] = "idle" /\ Latest < MaxVersions
  /\ Move(g, IF status \in {"CHANGES_REQUESTED", "DRAFT_READY"} THEN "REGENERATING" ELSE "GENERATING",
          "collecting")
  /\ UNCHANGED <<letters, clear, signatures, doing, applied, presses>>

(* As if every exception submitted were applied. *)
AnyWording == {e \in Exceptions : exception[e].author # NoUser}
(* Approved wording exceptions are applied; unapproved ones never are. *)
ApprovedWording == {e \in Exceptions : exception[e].approvedBy # NoUser /\ ~exception[e].rejected}

Collect(g) ==
  /\ at[g] = "collecting" /\ Goto(g, "numbering")
  /\ applied' = [applied EXCEPT ![g] = ApprovedWording]
  /\ UNCHANGED <<status, letters, clear, signatures, doing, presses>>

(* The number follows the latest version's, found after everything is rendered. *)
Number(g) ==
  /\ at[g] = "numbering" /\ Goto(g, "creating")
  /\ doing' = [doing EXCEPT ![g] = Latest]
  /\ UNCHANGED <<status, letters, clear, signatures, applied, presses>>

(* The unique index on the number refuses the second of two. *)
CreateVersion(g) ==
  LET v == doing[g] + 1
  IN /\ at[g] = "creating" /\ v \in Versions
     /\ IF version[v].status = "NONE"
          THEN /\ \E a \in Authors :
                    version' = [version EXCEPT ![v] =
                      [status |-> "DRAFT", author |-> a, wording |-> applied[g]]]
               /\ Goto(g, "superseding")
          ELSE UNCHANGED version /\ Goto(g, "idle")
     /\ applied' = [applied EXCEPT ![g] = {}]
     /\ UNCHANGED <<status, approvals, exception, clear, signatures, doing, presses>>

Unapproved == {"DRAFT", "IN_REVIEW", "CHANGES_REQUESTED"}
(* As if the previous version were superseded without asking for its status. *)
SupersedeAny(g) == Restatus({doing[g]}, Unapproved \union {"APPROVED", "SENT_FOR_SIGNATURE"}, "SUPERSEDED")
Supersede(g) == Restatus({doing[g]}, Unapproved, "SUPERSEDED")

SupersedePrevious(g) ==
  /\ at[g] = "superseding" /\ Goto(g, "drafted")
  /\ Supersede(g)
  /\ doing' = [doing EXCEPT ![g] = 0]
  /\ UNCHANGED <<status, approvals, exception, clear, signatures, applied, presses>>

AnnounceDraft(g) ==
  /\ \/ at[g] = "drafted" /\ Move(g, "DRAFT_READY", "uploaded")
     \/ at[g] = "uploaded" /\ Move(g, "REVIEW_REQUIRED", "idle")
  /\ UNCHANGED <<letters, clear, signatures, doing, applied, presses>>

(***************************************************************************)
(* ApprovalService.                                                        *)
(***************************************************************************)
Press(u) == at[u] = "idle" /\ presses < MaxPresses /\ presses' = presses + 1
About(u, v) == doing' = [doing EXCEPT ![u] = v]

(* The engagement is moved, and then whatever is a draft by then. *)
StartReview(u) ==
  /\ Press(u)
  /\ Move(u, "IN_REVIEW", "taking_up")
  /\ UNCHANGED <<letters, clear, signatures, doing, applied>>

TakeUp(u) ==
  /\ at[u] = "taking_up" /\ Goto(u, "idle")
  /\ Restatus(Versions, {"DRAFT"}, "IN_REVIEW")
  /\ UNCHANGED <<status, approvals, exception, clear, signatures, doing, applied, presses>>

RequestChanges(u) ==
  /\ Press(u)
  /\ Restatus(Versions, {"DRAFT", "IN_REVIEW"}, "CHANGES_REQUESTED")
  /\ Goto(u, "sending_back")
  /\ UNCHANGED <<status, approvals, exception, clear, signatures, doing, applied>>

SendBack(u) ==
  /\ at[u] = "sending_back" /\ Move(u, "CHANGES_REQUESTED", "idle")
  /\ UNCHANGED <<letters, clear, signatures, doing, applied, presses>>

NothingPending == \A e \in Exceptions :
  exception[e].author # NoUser => exception[e].approvedBy # NoUser \/ exception[e].rejected

(* As if assertSeparationOfDuties were not called. *)
AnybodyMayApprove(u, v) == TRUE
(* Nobody approves the draft they themselves produced. *)
MayApprove(u, v) == version[v].author # u

(* approveDocument names a version of the page, whatever has become of it since. *)
CheckApproval(u, v) ==
  /\ Press(u)
  /\ v \in Made
  /\ MayApprove(u, v)
  /\ clear /\ NothingPending
  /\ Goto(u, "approving") /\ About(u, v)
  /\ UNCHANGED <<status, letters, clear, signatures, applied>>

CommitApproval(u) ==
  /\ at[u] = "approving" /\ Goto(u, "approved")
  /\ version' = [version EXCEPT ![doing[u]].status = "APPROVED"]
  /\ approvals' = approvals \union {<<doing[u], u>>}
  /\ UNCHANGED <<status, exception, clear, signatures, doing, applied, presses>>

AnnounceApproval(u) ==
  /\ at[u] = "approved" /\ Move(u, "APPROVED", "idle")
  /\ UNCHANGED <<letters, clear, signatures, doing, applied, presses>>

MarkReadyToSend(u) ==
  /\ Press(u)
  /\ Move(u, "READY_TO_SEND", "idle")
  /\ UNCHANGED <<letters, clear, signatures, doing, applied>>

SubmitException(u, e) ==
  /\ Press(u)
  /\ exception[e].author = NoUser
  /\ exception' = [exception EXCEPT ![e].author = u]
  /\ UNCHANGED <<status, version, approvals, clear, signatures, process>>

(* The author may never be the approver; a rejection is not looked at. *)
ApproveException(u, e) ==
  /\ Press(u)
  /\ exception[e].author \notin {NoUser, u}
  /\ exception' = [exception EXCEPT ![e].approvedBy = u]
  /\ UNCHANGED <<status, version, approvals, clear, signatures, process>>

(* Nor is an approval looked at here, nor who rejects. *)
RejectException(u, e) ==
  /\ Press(u)
  /\ exception[e].author # NoUser
  /\ exception' = [exception EXCEPT ![e].rejected = TRUE]
  /\ UNCHANGED <<status, version, approvals, clear, signatures, process>>


(***************************************************************************)
(* SigningService.sendForSignature, from its gate on, and                  *)
(* ExternalSignatureService.record.                                        *)
(***************************************************************************)
HasApproval(v) == \E u \in Users : <<v, u>> \in approvals

(* What the two gates have in common; their other checks may only refuse. *)
PassesGate(v) == status = "READY_TO_SEND" /\ version[v].status = "APPROVED" /\ HasApproval(v)

CheckSend(u, v) ==
  /\ Press(u)
  /\ PassesGate(v)
  /\ Goto(u, "counting") /\ About(u, v)
  /\ UNCHANGED <<status, letters, clear, signatures, applied>>

Reserved == {k \in Keys : agreement[k] # "NONE"}
Live == \E k \in Keys : agreement[k] \in {"CREATED", "OUT_FOR_SIGNATURE"}
LiveBeside(key) == \E k \in Keys \ {key} : agreement[k] \in {"CREATED", "OUT_FOR_SIGNATURE"}
Key(u) == <<doing[u], attempt[u]>>

(* The attempt follows the rows there are: two who count before either has a row share a *)
(* key.  One who then finds an agreement under it ends here (Leave).                     *)
CountAttempts(u) ==
  /\ at[u] = "counting" /\ Goto(u, "sending")
  /\ \E n \in Attempts : n = Cardinality(Reserved) + 1 /\ attempt' = [attempt EXCEPT ![u] = n]
  /\ UNCHANGED <<status, letters, clear, agreement, external, gone, doing, applied, presses>>

AnnounceSending(u) ==
  /\ at[u] = "sending" /\ Move(u, "SENDING_FOR_SIGNATURE", "reserving")
  /\ UNCHANGED <<letters, clear, signatures, doing, applied, presses>>

(* The upsert goes on with a row of its key as it is; adobe_agreement_one_live_per_engagement *)
(* refuses another while any row is live.                                                     *)
Reserve(u) ==
  /\ at[u] = "reserving"
  /\ \/ Key(u) \in Reserved /\ UNCHANGED agreement /\ Goto(u, "posting")
     \/ Key(u) \notin Reserved /\ Live /\ UNCHANGED agreement /\ Goto(u, "idle")
     \/ /\ Key(u) \notin Reserved /\ ~Live
        /\ agreement' = [agreement EXCEPT ![Key(u)] = "CREATED"] /\ Goto(u, "posting")
  /\ UNCHANGED <<status, letters, clear, attempt, external, gone, doing, applied, presses>>

(* Adobe creates the agreement, and one transaction records it; the index has its say again. *)
SendOut(u) ==
  /\ at[u] = "posting" /\ Goto(u, "sent")
  /\ ~LiveBeside(Key(u))
  /\ agreement' = [agreement EXCEPT ![Key(u)] = "OUT_FOR_SIGNATURE"]
  /\ version' = [version EXCEPT ![doing[u]].status = "SENT_FOR_SIGNATURE"]
  /\ gone' = gone \union {doing[u]}
  /\ UNCHANGED <<status, approvals, exception, clear, attempt, external, doing, applied, presses>>

(* Adobe refuses, or its agreement cannot be recorded, or announced: the row fails. *)
FailToSend(u) ==
  /\ \/ at[u] = "posting" /\ gone' \in {gone, gone \union {doing[u]}}
     \/ at[u] = "sent" /\ ~MayMove("SENT_FOR_SIGNATURE") /\ UNCHANGED gone
  /\ Goto(u, "restoring")
  /\ agreement' = [agreement EXCEPT ![Key(u)] = "FAILED"]
  /\ UNCHANGED <<status, letters, clear, attempt, external, doing, applied, presses>>

(* Sent; or the engagement is ready to send again, if it may be. *)
AnnounceSent(u) ==
  /\ \/ at[u] = "sent" /\ MayMove("SENT_FOR_SIGNATURE") /\ Move(u, "SENT_FOR_SIGNATURE", "idle")
     \/ at[u] = "restoring" /\ Move(u, "READY_TO_SEND", "idle")
  /\ UNCHANGED <<letters, clear, signatures, doing, applied, presses>>

(* A live agreement would contradict what is recorded. *)
CheckExternal(u, v) ==
  /\ Press(u)
  /\ PassesGate(v) /\ ~Live
  /\ Goto(u, "recording") /\ About(u, v)
  /\ UNCHANGED <<status, letters, clear, signatures, applied>>

RecordExternal(u) ==
  /\ at[u] = "recording" /\ Goto(u, "signing")
  /\ external' = external \union {doing[u]}
  /\ gone' = gone \union {doing[u]}
  /\ UNCHANGED <<status, letters, clear, agreement, attempt, doing, applied, presses>>

AnnounceSigned(u) ==
  /\ at[u] = "signing" /\ Move(u, "SIGNED", "idle")
  /\ UNCHANGED <<letters, clear, signatures, doing, applied, presses>>

(***************************************************************************)
(* Elsewhere: preparation raises and people clear blockers (Preparation),  *)
(* and anything that fails asks for attention.                             *)
(***************************************************************************)
BlockersChange ==
  /\ clear' = ~clear
  /\ UNCHANGED <<status, letters, signatures, process, presses>>

NeedsAttention ==
  /\ canTransition(status, "NEEDS_ATTENTION") /\ status' = "NEEDS_ATTENTION"
  /\ UNCHANGED <<letters, clear, signatures, process, presses>>

Generate(g) ==
  \/ StartGeneration(g) \/ Collect(g) \/ Number(g) \/ CreateVersion(g)
  \/ SupersedePrevious(g) \/ AnnounceDraft(g)

Act(u) ==
  \/ StartReview(u) \/ TakeUp(u) \/ RequestChanges(u) \/ SendBack(u)
  \/ CommitApproval(u) \/ AnnounceApproval(u) \/ MarkReadyToSend(u)
  \/ CountAttempts(u) \/ AnnounceSending(u) \/ Reserve(u) \/ SendOut(u) \/ FailToSend(u) \/ AnnounceSent(u)
  \/ RecordExternal(u) \/ AnnounceSigned(u)
  \/ \E v \in Versions : CheckApproval(u, v) \/ CheckSend(u, v) \/ CheckExternal(u, v)
  \/ \E e \in Exceptions : SubmitException(u, e) \/ ApproveException(u, e) \/ RejectException(u, e)

Next ==
  \/ \E g \in Generators : Generate(g)
  \/ \E u \in Users : Act(u)
  \/ \E p \in Actors : Leave(p)
  \/ BlockersChange \/ NeedsAttention

Spec == Init /\ [][Next]_vars

-----------------------------------------------------------------------------
GeneratorPlaces == {"idle", "collecting", "numbering", "creating", "superseding", "drafted", "uploaded"}
UserPlaces ==
  {"idle", "taking_up", "sending_back", "approving", "approved", "counting", "sending", "reserving",
   "posting", "sent", "restoring", "recording", "signing"}
VersionStatuses == Unapproved \union {"NONE", "APPROVED", "SUPERSEDED", "SENT_FOR_SIGNATURE"}

(* Every variable has its type; versions are numbered without a gap, a number that was   *)
(* read is a version's, and a reservation or an approval under way is about one there is. *)
TypeOK ==
  /\ status \in EngagementStatuses
  /\ version \in [Versions -> [status : VersionStatuses, author : Authors \union {NoUser},
                               wording : SUBSET Exceptions]]
  /\ approvals \subseteq Versions \X Users
  /\ exception \in [Exceptions -> [author : Users \union {NoUser}, approvedBy : Users \union {NoUser},
                                   rejected : BOOLEAN]]
  /\ clear \in BOOLEAN
  /\ agreement \in [Keys -> {"NONE", "CREATED", "OUT_FOR_SIGNATURE", "FAILED"}]
  /\ attempt \in [Users -> Attempts \union {0}]
  /\ external \subseteq Versions /\ gone \subseteq Versions
  /\ at \in [Actors -> GeneratorPlaces \union UserPlaces]
  /\ doing \in [Actors -> Versions \union {0}]
  /\ applied \in [Generators -> SUBSET Exceptions]
  /\ presses \in 0 .. MaxPresses
  /\ \A v \in Made : v = 1 \/ v - 1 \in Made
  /\ \A p \in Actors : doing[p] \in Made \union {0}
  /\ \A u \in Users : at[u] \notin {"idle", "taking_up", "sending_back"} => doing[u] \in Made
  /\ \A u \in Users : at[u] \in {"sending", "reserving", "posting", "sent", "restoring"} => attempt[u] \in Attempts

(* A version that was approved stays as it is whatever is generated, sent back or         *)
(* reviewed beside it: each of those writes asks again for the status of the rows it      *)
(* touches, however long ago they were read.                                              *)
ApprovedStays ==
  [][\A v \in Versions : version[v].status \in {"APPROVED", "SENT_FOR_SIGNATURE"}
       => version'[v].status \in {"APPROVED", "SENT_FOR_SIGNATURE"}]_vars

(* No version ever holds wording that only its author has agreed to, though exceptions are *)
(* approved and rejected while it is being rendered.                                       *)
WordingApprovedByAnother ==
  \A v \in Versions : \A e \in version[v].wording :
    exception[e].approvedBy \notin {NoUser, exception[e].author}

(* Everything this module does to the letters is what ApprovalRegister allows: a version is *)
(* made once, approved by somebody who did not produce it, and goes out only after that,    *)
(* by Adobe or on paper, though gates are passed long before what they let in is done.      *)
Register == INSTANCE ApprovalRegister WITH
  Letters <- Versions, Approvers <- Users, NoAuthor <- NoUser,
  author <- [v \in Versions |-> version[v].author], approved <- approvals
KeepsRegister == Register!Spec
=============================================================================
