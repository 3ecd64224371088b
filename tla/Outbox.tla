-------------------------------- MODULE Outbox --------------------------------
(***************************************************************************)
(* What leaves the system in the background: notices in the application    *)
(* and their e-mail (packages/services/src/notification-service.ts,        *)
(* notification-email-service.ts), and the Karbon work status kept in step *)
(* with an engagement's (karbon-work-status.ts).  Each drain and each push *)
(* is a recurring job; a worker may die at any await.                      *)
(***************************************************************************)
EXTENDS Naturals, Sequences, FiniteSets, SequencesExt

CONSTANTS
  Recipients,    \* people notices are for
  Tellers,       \* requests and jobs that raise one
  MaxNotices,    \* bound: notices ever written
  MaxAttempts,   \* MAX_EMAIL_ATTEMPTS
  DrainLimit,    \* notices one drain considers
  Engagements,
  Statuses,      \* statuses the map knows; an engagement may be in another
  Unmapped, NoStatus,
  MaxChanges,    \* bound: times a status or an account changes
  MaxFaults      \* bound: deaths of the worker and refusals by Karbon

ASSUME OutboxAssumption ==
  /\ MaxNotices \in Nat /\ MaxAttempts \in Nat \ {0} /\ DrainLimit \in Nat \ {0}
  /\ MaxChanges \in Nat /\ MaxFaults \in Nat /\ {Unmapped, NoStatus} \cap Statuses = {}

VARIABLES
  notices,   \* rows of notification, oldest first
  tellers,   \* what each caller of notify has read
  inactive,  \* recipients whose account is not active
  drain,     \* the e-mail job: the notices it still has to send
  status,    \* engagement.status, as far as the map tells them apart
  pushed,    \* engagement.karbonWorkStatusPushed
  karbon,    \* the work item's status in Karbon
  sync,      \* the push job: the engagements it still has to look at
  changes, faults

outbox == <<notices, tellers, inactive, drain, status, pushed, karbon, sync, changes, faults>>
mailing == <<notices, tellers, inactive, drain>>
pushing == <<status, pushed, karbon, sync>>

Asleep == [at |-> "asleep", left |-> <<>>]

-----------------------------------------------------------------------------
(* notify with deduplicate: who has it unread is looked up, then the rest    *)
(* are told.  Nothing keeps two callers from both finding nobody.            *)
Notice(r) == [for |-> r, read |-> FALSE, emailed |-> FALSE, attempts |-> 0]

Unread(r) == \E i \in DOMAIN notices : notices[i].for = r /\ ~notices[i].read

LookUp(w) ==
  /\ tellers[w] = {} /\ Len(notices) < MaxNotices
  /\ \E r \in Recipients : ~Unread(r) /\ tellers' = [tellers EXCEPT ![w] = {r}]
  /\ UNCHANGED <<notices, inactive, drain, changes, faults>> /\ UNCHANGED pushing

Tell(w) ==
  /\ tellers[w] # {}
  /\ tellers' = [tellers EXCEPT ![w] = {}]
  /\ notices' = IF Len(notices) < MaxNotices
                THEN notices \o SetToSeq({Notice(r) : r \in tellers[w]}) ELSE notices
  /\ UNCHANGED <<inactive, drain, changes, faults>> /\ UNCHANGED pushing

MarkRead ==
  /\ \E i \in DOMAIN notices : ~notices[i].read /\ notices' = [notices EXCEPT ![i].read = TRUE]
  /\ UNCHANGED <<tellers, inactive, drain, changes, faults>> /\ UNCHANGED pushing

(* Somebody leaves, or comes back. *)
AccountChanges ==
  /\ changes < MaxChanges /\ changes' = changes + 1
  /\ \E r \in Recipients :
       inactive' = IF r \in inactive THEN inactive \ {r} ELSE inactive \union {r}
  /\ UNCHANGED <<notices, tellers, drain, faults>> /\ UNCHANGED pushing

-----------------------------------------------------------------------------
(* drain: the oldest that wait, one at a time.  `left` holds positions and   *)
(* the account as it was read with them.                                     *)
Waiting ==
  SelectSeq([i \in DOMAIN notices |-> i],
            LAMBDA i : ~notices[i].emailed /\ notices[i].attempts < MaxAttempts)

StartDrain ==
  /\ drain.at = "asleep" /\ Waiting # <<>>
  /\ drain' = [at |-> "next",
               left |-> [i \in 1..(IF Len(Waiting) < DrainLimit THEN Len(Waiting) ELSE DrainLimit) |->
                           [notice |-> Waiting[i], gone |-> notices[Waiting[i]].for \in inactive]]]
  /\ UNCHANGED <<notices, tellers, inactive, changes, faults>> /\ UNCHANGED pushing

AfterNotice == IF Len(drain.left) = 1 THEN Asleep ELSE [at |-> "next", left |-> Tail(drain.left)]

SkipInactive ==
  /\ drain.at = "next" /\ Head(drain.left).gone
  /\ notices' = [notices EXCEPT ![Head(drain.left).notice].attempts = MaxAttempts]
  /\ drain' = AfterNotice
  /\ UNCHANGED <<tellers, inactive, changes, faults>> /\ UNCHANGED pushing

SendMail ==
  /\ drain.at = "next" /\ ~Head(drain.left).gone
  /\ \E outcome \in {"sent", "not_sent"} : drain' = [drain EXCEPT !.at = outcome]
  /\ UNCHANGED <<notices, tellers, inactive, changes, faults>> /\ UNCHANGED pushing

(* As if an attempt that failed were not counted. *)
UncountedFailure(notice, sent) ==
  IF sent THEN [notice EXCEPT !.emailed = TRUE, !.attempts = @ + 1] ELSE notice

Attempted(notice, sent) == [notice EXCEPT !.emailed = @ \/ sent, !.attempts = @ + 1]

RecordMail ==
  /\ drain.at \in {"sent", "not_sent"}
  /\ notices' = [notices EXCEPT ![Head(drain.left).notice] = Attempted(@, drain.at = "sent")]
  /\ drain' = AfterNotice
  /\ UNCHANGED <<tellers, inactive, changes, faults>> /\ UNCHANGED pushing

-----------------------------------------------------------------------------
(* sync: every engagement in a mapped status, in whatever order; what was    *)
(* read with it decides.                                                     *)
StatusMoves ==
  /\ changes < MaxChanges /\ changes' = changes + 1
  /\ \E e \in Engagements, s \in (Statuses \union {Unmapped}) :
       s # status[e] /\ status' = [status EXCEPT ![e] = s]
  /\ UNCHANGED <<pushed, karbon, sync, faults>> /\ UNCHANGED mailing

Candidates == {e \in Engagements : status[e] # Unmapped}

StartSync ==
  /\ sync.at = "asleep"
  /\ \E order \in SetToSeqs(Candidates) :
       /\ order # <<>>
       /\ sync' = [at |-> "next", left |-> [i \in DOMAIN order |->
                     [engagement |-> order[i], target |-> status[order[i]],
                      pushed |-> pushed[order[i]]]]]
  /\ UNCHANGED <<status, pushed, karbon, changes, faults>> /\ UNCHANGED mailing

AfterPush == IF Len(sync.left) = 1 THEN Asleep ELSE [at |-> "next", left |-> Tail(sync.left)]

(* As if a work item were only ever pushed once. *)
NeverPushed(row) == row.pushed = NoStatus

Due(row) == row.pushed # row.target

SkipCorrect ==
  /\ sync.at = "next" /\ ~Due(Head(sync.left))
  /\ sync' = AfterPush
  /\ UNCHANGED <<status, pushed, karbon, changes, faults>> /\ UNCHANGED mailing

(* updateWorkItemStatus, answered by Karbon. *)
Push ==
  /\ sync.at = "next" /\ Due(Head(sync.left))
  /\ karbon' = [karbon EXCEPT ![Head(sync.left).engagement] = Head(sync.left).target]
  /\ sync' = [sync EXCEPT !.at = "accepted"]
  /\ UNCHANGED <<status, pushed, changes, faults>> /\ UNCHANGED mailing

(* Karbon refuses it or is away: nothing is recorded. *)
PushFails ==
  /\ sync.at = "next" /\ Due(Head(sync.left)) /\ faults < MaxFaults
  /\ faults' = faults + 1 /\ sync' = AfterPush
  /\ UNCHANGED <<status, pushed, karbon, changes>> /\ UNCHANGED mailing

RecordPush ==
  /\ sync.at = "accepted"
  /\ pushed' = [pushed EXCEPT ![Head(sync.left).engagement] = Head(sync.left).target]
  /\ sync' = AfterPush
  /\ UNCHANGED <<status, karbon, changes, faults>> /\ UNCHANGED mailing

(* The worker dies in the middle of either job; the next pass starts afresh. *)
Die ==
  /\ faults < MaxFaults /\ faults' = faults + 1
  /\ \/ drain # Asleep /\ drain' = Asleep /\ UNCHANGED sync
     \/ sync # Asleep /\ sync' = Asleep /\ UNCHANGED drain
  /\ UNCHANGED <<notices, tellers, inactive, status, pushed, karbon, changes>>

-----------------------------------------------------------------------------
OutboxInit ==
  /\ notices = <<>> /\ tellers = [w \in Tellers |-> {}] /\ inactive = {} /\ drain = Asleep
  /\ status = [e \in Engagements |-> Unmapped]
  /\ pushed = [e \in Engagements |-> NoStatus] /\ karbon = [e \in Engagements |-> NoStatus]
  /\ sync = Asleep /\ changes = 0 /\ faults = 0

Noticing == MarkRead \/ AccountChanges \/ \E w \in Tellers : LookUp(w) \/ Tell(w)
Mailing == StartDrain \/ SkipInactive \/ SendMail \/ RecordMail
Syncing == StartSync \/ SkipCorrect \/ Push \/ PushFails \/ RecordPush

-----------------------------------------------------------------------------
Settled(i) ==
  /\ i \in DOMAIN notices
  /\ notices[i].emailed \/ notices[i].attempts = MaxAttempts

(* drain: a notice that was written is mailed or given up on, though a drain *)
(* takes only the oldest and those may fail every time, people come and go   *)
(* and the worker dies between sending and recording.                        *)
NoticesAreSettled ==
  \A i \in 1..MaxNotices : (i \in DOMAIN notices) ~> Settled(i)

(* sync: a mapped status an engagement stays in is recorded as pushed in the *)
(* end, whatever a pass read before the last change, and whichever pushes    *)
(* were refused or died ("A missed push is corrected on the next pass").     *)
StatusIsFollowed ==
  \A e \in Engagements, s \in Statuses : <>[](status[e] = s) => <>[](pushed[e] = s)
=============================================================================
