--------------------------- MODULE Review_proofs ---------------------------
(***************************************************************************)
(* What holds of module Review for every number of people, generations,    *)
(* versions, exceptions and buttons pressed.                               *)
(***************************************************************************)
EXTENDS Review, WellFoundedInduction, TLAPS

(* Every status this module ever writes is a status of the table. *)
LEMMA StatusesUsed ==
  {"EXTRACTING_DATA", "GENERATING", "REGENERATING", "DRAFT_READY", "REVIEW_REQUIRED", "IN_REVIEW",
   "CHANGES_REQUESTED", "APPROVED", "READY_TO_SEND", "SENDING_FOR_SIGNATURE",
   "SENT_FOR_SIGNATURE", "SIGNED", "NEEDS_ATTENTION"} \subseteq EngagementStatuses
  BY DEF EngagementStatuses, Open

(* There is a latest version, or none at all: a generation that looks for it gets a number. *)
LEMMA LatestExists ==
  /\ Latest \in Made \union {0}
  /\ \A w \in Made : w <= Latest
<1>. DEFINE Room == {MaxVersions - v : v \in Made \union {0}}
<1>1. MaxVersions \in Nat /\ Made \subseteq 1 .. MaxVersions
  BY ReviewAssumption DEF Made, Versions
<1>2. Room \subseteq Nat /\ Room # {}
  BY <1>1
<1>3. PICK least \in Room : \A r \in Room : ~(<<r, least>> \in OpToRel(<, Nat))
  BY <1>2, NatLessThanWellFounded, WFMin
<1>4. \A r \in Room : ~(r < least)
  BY <1>2, <1>3 DEF OpToRel
<1>5. PICK v \in Made \union {0} : least = MaxVersions - v
  BY <1>3
<1>6. \A w \in Made : w <= v
  <2>. SUFFICES ASSUME NEW w \in Made PROVE w <= v
    OBVIOUS
  <2>1. ~(MaxVersions - w < MaxVersions - v)
    BY <1>4, <1>5
  <2>. QED  BY <2>1, <1>1, <1>5
<1>. QED  BY <1>5, <1>6 DEF Latest

(* The tuples that UNCHANGED names. *)
USE DEF letters, signatures, process

(***************************************************************************)
(* Types.                                                                  *)
(***************************************************************************)
LEMMA TypeInit == Init => TypeOK
<1>. SUFFICES ASSUME Init PROVE TypeOK
  OBVIOUS
<1>1. /\ version \in [Versions -> [status : VersionStatuses, author : Authors \union {NoUser},
                                  wording : SUBSET Exceptions]]
      /\ Made = {}
  BY DEF Init, NoVersion, VersionStatuses, Made
<1>2. /\ status \in EngagementStatuses /\ presses \in 0 .. MaxPresses
      /\ at \in [Actors -> GeneratorPlaces \union UserPlaces]
      /\ \A u \in Users : at[u] = "idle"
  BY ReviewAssumption, StatusesUsed DEF Init, Actors, GeneratorPlaces
<1>. QED  BY <1>1, <1>2 DEF Init, TypeOK

(* A row keeps its author and its wording when its status changes, and is still a row. *)
LEMMA RestatusTypes ==
  ASSUME TypeOK, NEW S, NEW from, NEW to \in VersionStatuses \ {"NONE"}, "NONE" \notin from,
         Restatus(S, from, to)
  PROVE  /\ version' \in [Versions -> [status : VersionStatuses, author : Authors \union {NoUser},
                                       wording : SUBSET Exceptions]]
         /\ Made' = Made
         /\ \A v \in Versions : /\ version'[v].author = version[v].author
                                /\ version'[v].wording = version[v].wording
<1>1. \A v \in Versions :
        version'[v] = IF v \in S /\ version[v].status \in from
                        THEN [version[v] EXCEPT !.status = to] ELSE version[v]
  BY DEF Restatus
<1>2. \A v \in Versions : version[v] \in [status : VersionStatuses, author : Authors \union {NoUser},
                                          wording : SUBSET Exceptions]
  BY DEF TypeOK
<1>3. \A v \in Versions : /\ version'[v] \in [status : VersionStatuses, author : Authors \union {NoUser},
                                              wording : SUBSET Exceptions]
                          /\ version'[v].author = version[v].author
                          /\ version'[v].wording = version[v].wording
                          /\ (version'[v].status = "NONE") <=> (version[v].status = "NONE")
  BY <1>1, <1>2
<1>4. version' \in [Versions -> [status : VersionStatuses, author : Authors \union {NoUser},
                                 wording : SUBSET Exceptions]]
  BY <1>3 DEF Restatus
<1>. QED  BY <1>3, <1>4 DEF Made

(* The same of a single row. *)
LEMMA OneStatusTypes ==
  ASSUME TypeOK, NEW v \in Made, NEW to \in VersionStatuses \ {"NONE"},
         version' = [version EXCEPT ![v].status = to]
  PROVE  /\ version' \in [Versions -> [status : VersionStatuses, author : Authors \union {NoUser},
                                       wording : SUBSET Exceptions]]
         /\ Made' = Made
         /\ \A w \in Versions : /\ version'[w].author = version[w].author
                                /\ version'[w].wording = version[w].wording
<1>1. \A w \in Versions :
        version'[w] = IF w \in {v} /\ version[w].status \in {version[v].status}
                        THEN [version[w] EXCEPT !.status = to] ELSE version[w]
  BY DEF TypeOK
<1>2. Restatus({v}, {version[v].status}, to)
  BY <1>1 DEF Restatus, TypeOK
<1>. QED  BY <1>2, RestatusTypes DEF Made

(* A transition moves one process and leaves a status of the table; whoever is about a *)
(* version after it was so before, or is about none.                                   *)
LEMMA MoveTypes ==
  ASSUME TypeOK, NEW p \in Actors, NEW to \in EngagementStatuses,
         NEW next \in GeneratorPlaces \union UserPlaces, Move(p, to, next),
         p \in Users /\ next \notin {"idle", "taking_up", "sending_back"} =>
           doing[p] \in Made /\ attempt[p] \in Attempts,
         presses' \in 0 .. MaxPresses,
         UNCHANGED <<letters, clear, signatures, doing, applied>>
  PROVE  TypeOK'
<1>1. status' \in EngagementStatuses
  BY DEF TypeOK, Move
<1>2. PICK place \in {next, "idle"} : at' = [at EXCEPT ![p] = place]
  BY DEF Move, Goto
<1>3. at' \in [Actors -> GeneratorPlaces \union UserPlaces]
  BY <1>2 DEF TypeOK, GeneratorPlaces
<1>4. Made' = Made
  BY DEF Made
<1>5. \A u \in Users :
        /\ at'[u] \notin {"idle", "taking_up", "sending_back"} => doing[u] \in Made
        /\ at'[u] \in {"sending", "reserving", "posting", "sent", "restoring"} => attempt[u] \in Attempts
  BY <1>2 DEF TypeOK, Actors
<1>. QED  BY <1>1, <1>3, <1>4, <1>5 DEF TypeOK

(* A generation keeps every type: versions are numbered without a gap, since *)
(* the number that is given follows the latest.                              *)
LEMMA GenerateTypes ==
  ASSUME TypeOK, NEW g \in Generators, Generate(g)
  PROVE  TypeOK'
<1>. USE ReviewAssumption
<1>0. g \in Actors /\ g \notin Users
  BY DEF Actors
<1>1. CASE StartGeneration(g)
  <2>1. PICK to \in {"GENERATING", "REGENERATING"} : Move(g, to, "collecting")
    BY <1>1 DEF StartGeneration
  <2>2. "collecting" \in GeneratorPlaces /\ to \in EngagementStatuses
    BY StatusesUsed DEF GeneratorPlaces
  <2>3. presses' \in 0 .. MaxPresses /\ UNCHANGED <<letters, clear, signatures, doing, applied>>
    BY <1>1 DEF StartGeneration, TypeOK
  <2>. QED  BY <1>0, <2>1, <2>2, <2>3, MoveTypes
<1>2. CASE Collect(g)
  <2>1. ApprovedWording \subseteq Exceptions
    BY DEF ApprovedWording
  <2>. QED  BY <1>0, <1>2, <2>1 DEF Collect, Goto, TypeOK, Made, GeneratorPlaces
<1>3. CASE Number(g)
  <2>1. Latest \in Made \union {0} /\ Made \subseteq Versions
    BY LatestExists DEF Made
  <2>. QED  BY <1>0, <1>3, <2>1 DEF Number, Goto, TypeOK, Made, GeneratorPlaces
<1>4. CASE CreateVersion(g)
  <2>. DEFINE v == doing[g] + 1
  <2>1. PICK place \in {"superseding", "idle"} : at' = [at EXCEPT ![g] = place]
    BY <1>4 DEF CreateVersion, Goto
  <2>2. /\ at' \in [Actors -> GeneratorPlaces \union UserPlaces]
        /\ \A u \in Users : at'[u] = at[u]
    BY <1>0, <2>1 DEF TypeOK, Actors, GeneratorPlaces
  <2>3. applied' \in [Generators -> SUBSET Exceptions]
    BY <1>4 DEF CreateVersion, TypeOK
  <2>4. CASE version[v].status = "NONE"
    <3>1. PICK a \in Authors :
            version' = [version EXCEPT ![v] = [status |-> "DRAFT", author |-> a, wording |-> applied[g]]]
      BY <1>4, <2>4 DEF CreateVersion
    <3>2. version' \in [Versions -> [status : VersionStatuses, author : Authors \union {NoUser},
                                     wording : SUBSET Exceptions]]
      BY <3>1 DEF TypeOK, VersionStatuses, Unapproved
    <3>3. v \in Versions /\ Made' = Made \union {v}
      BY <1>4, <3>1 DEF CreateVersion, Made, TypeOK
    <3>4. doing[g] \in Made \union {0}
      BY <1>0 DEF TypeOK
    <3>5. v = 1 \/ v - 1 \in Made
      BY <3>4, ReviewAssumption DEF Versions, Made
    <3>. QED  BY <1>4, <2>2, <2>3, <3>2, <3>3, <3>5 DEF CreateVersion, TypeOK
  <2>5. CASE version[v].status # "NONE"
    BY <1>4, <2>2, <2>3, <2>5 DEF CreateVersion, TypeOK, Made
  <2>. QED  BY <2>4, <2>5
<1>5. CASE SupersedePrevious(g)
  <2>1. /\ version' \in [Versions -> [status : VersionStatuses, author : Authors \union {NoUser},
                                      wording : SUBSET Exceptions]]
        /\ Made' = Made
    BY <1>5, RestatusTypes DEF SupersedePrevious, Supersede, Unapproved, VersionStatuses
  <2>. QED  BY <1>0, <1>5, <2>1 DEF SupersedePrevious, Goto, TypeOK, GeneratorPlaces
<1>6. CASE AnnounceDraft(g)
  <2>1. PICK to \in {"DRAFT_READY", "REVIEW_REQUIRED"}, next \in {"uploaded", "idle"} : Move(g, to, next)
    BY <1>6 DEF AnnounceDraft
  <2>2. next \in GeneratorPlaces /\ to \in EngagementStatuses
    BY StatusesUsed DEF GeneratorPlaces
  <2>3. presses' \in 0 .. MaxPresses /\ UNCHANGED <<letters, clear, signatures, doing, applied>>
    BY <1>6 DEF AnnounceDraft, TypeOK
  <2>. QED  BY <1>0, <2>1, <2>2, <2>3, MoveTypes
<1>. QED  BY <1>1, <1>2, <1>3, <1>4, <1>5, <1>6 DEF Generate

(* Whatever somebody does with the versions, from a page of whatever age, keeps every type: *)
(* a version somebody is about stays a row whatever is written beside it.                   *)
LEMMA ReviewTypes ==
  ASSUME TypeOK, NEW u \in Users,
         \/ StartReview(u) \/ TakeUp(u) \/ RequestChanges(u) \/ SendBack(u)
         \/ \E v \in Versions : CheckApproval(u, v)
         \/ CommitApproval(u) \/ AnnounceApproval(u) \/ MarkReadyToSend(u)
  PROVE  TypeOK'
<1>0. u \in Actors
  BY DEF Actors
<1>1. ASSUME NEW to \in {"IN_REVIEW", "CHANGES_REQUESTED", "APPROVED", "READY_TO_SEND"},
             NEW next \in {"taking_up", "idle"}, Move(u, to, next), presses' \in 0 .. MaxPresses,
             UNCHANGED <<letters, clear, signatures, doing, applied>>
      PROVE  TypeOK'
  <2>1. next \in UserPlaces /\ to \in EngagementStatuses
    BY StatusesUsed DEF UserPlaces
  <2>. QED  BY <1>0, <1>1, <2>1, MoveTypes
<1>2. Press(u) => presses' \in 0 .. MaxPresses
  BY ReviewAssumption DEF Press, TypeOK
<1>3. CASE StartReview(u) \/ SendBack(u) \/ AnnounceApproval(u) \/ MarkReadyToSend(u)
  <2>1. presses' \in 0 .. MaxPresses
    BY <1>2, <1>3 DEF StartReview, SendBack, AnnounceApproval, MarkReadyToSend, TypeOK
  <2>. QED  BY <1>1, <1>3, <2>1 DEF StartReview, SendBack, AnnounceApproval, MarkReadyToSend
<1>4. CASE TakeUp(u) \/ RequestChanges(u)
  <2>1. PICK next \in {"idle", "sending_back"} : at' = [at EXCEPT ![u] = next]
    BY <1>4 DEF TakeUp, RequestChanges, Goto
  <2>2. presses' \in 0 .. MaxPresses
    BY <1>2, <1>4 DEF TakeUp, RequestChanges, TypeOK
  <2>3. /\ version' \in [Versions -> [status : VersionStatuses, author : Authors \union {NoUser},
                                      wording : SUBSET Exceptions]]
        /\ Made' = Made
    BY <1>4, RestatusTypes DEF TakeUp, RequestChanges, Unapproved, VersionStatuses
  <2>. QED  BY <1>0, <1>4, <2>1, <2>2, <2>3 DEF TakeUp, RequestChanges, TypeOK, UserPlaces
<1>5. ASSUME NEW v \in Versions, CheckApproval(u, v)
      PROVE  TypeOK'
  <2>1. v \in Made /\ presses' \in 0 .. MaxPresses
    BY <1>2, <1>5 DEF CheckApproval
  <2>. QED  BY <1>0, <1>5, <2>1 DEF CheckApproval, Goto, About, TypeOK, UserPlaces, Made
<1>6. CASE CommitApproval(u)
  <2>1. doing[u] \in Made
    BY <1>6 DEF CommitApproval, TypeOK
  <2>2. /\ version' \in [Versions -> [status : VersionStatuses, author : Authors \union {NoUser},
                                      wording : SUBSET Exceptions]]
        /\ Made' = Made
    BY <1>6, <2>1, OneStatusTypes DEF CommitApproval, VersionStatuses
  <2>. QED  BY <1>0, <1>6, <2>1, <2>2 DEF CommitApproval, Goto, TypeOK, UserPlaces, Made
<1>. QED  BY <1>3, <1>4, <1>5, <1>6

(* So does sending, or recording what was signed on paper. *)
LEMMA SendTypes ==
  ASSUME TypeOK, NEW u \in Users,
         \/ \E v \in Versions : CheckSend(u, v) \/ CheckExternal(u, v)
         \/ CountAttempts(u) \/ AnnounceSending(u) \/ Reserve(u) \/ SendOut(u) \/ FailToSend(u) \/ AnnounceSent(u)
         \/ RecordExternal(u) \/ AnnounceSigned(u)
  PROVE  TypeOK'
<1>0. u \in Actors
  BY DEF Actors
<1>1. ASSUME NEW v \in Versions, CheckSend(u, v) \/ CheckExternal(u, v)
      PROVE  TypeOK'
  <2>1. PICK place \in {"counting", "recording"} : at' = [at EXCEPT ![u] = place]
    BY <1>1 DEF CheckSend, CheckExternal, Goto
  <2>2. v \in Made /\ presses' \in 0 .. MaxPresses
    BY <1>1, ReviewAssumption DEF CheckSend, CheckExternal, PassesGate, Press, Made, TypeOK
  <2>3. /\ doing' = [doing EXCEPT ![u] = v]
        /\ UNCHANGED <<status, letters, clear, signatures, applied>>
    BY <1>1 DEF CheckSend, CheckExternal, About
  <2>4. Made' = Made
    BY <2>3 DEF Made
  <2>. QED  BY <1>0, <2>1, <2>2, <2>3, <2>4 DEF TypeOK, UserPlaces
<1>2. CASE AnnounceSending(u) \/ AnnounceSent(u) \/ AnnounceSigned(u)
  <2>1. PICK to \in {"SENDING_FOR_SIGNATURE", "SENT_FOR_SIGNATURE", "READY_TO_SEND", "SIGNED"},
             next \in {"reserving", "idle"} :
          Move(u, to, next) /\ (next = "reserving" => at[u] = "sending")
    BY <1>2 DEF AnnounceSending, AnnounceSent, AnnounceSigned
  <2>2. next \in UserPlaces /\ to \in EngagementStatuses
    BY StatusesUsed DEF UserPlaces
  <2>3. /\ presses' \in 0 .. MaxPresses /\ UNCHANGED <<letters, clear, signatures, doing, applied>>
        /\ doing[u] \in Made /\ (next = "reserving" => attempt[u] \in Attempts)
    BY <1>2, <2>1 DEF AnnounceSending, AnnounceSent, AnnounceSigned, TypeOK
  <2>. QED  BY <1>0, <2>1, <2>2, <2>3, MoveTypes
<1>3. CASE CountAttempts(u)
  <2>1. PICK n \in Attempts : attempt' = [attempt EXCEPT ![u] = n]
    BY <1>3 DEF CountAttempts
  <2>2. /\ attempt' \in [Users -> Attempts \union {0}] /\ attempt'[u] \in Attempts
        /\ \A w \in Users \ {u} : attempt'[w] = attempt[w]
    BY <2>1 DEF TypeOK
  <2>3. /\ at' = [at EXCEPT ![u] = "sending"] /\ doing[u] \in Made
        /\ UNCHANGED <<status, letters, clear, agreement, external, gone, doing, applied, presses>>
    BY <1>3 DEF CountAttempts, Goto, TypeOK
  <2>. QED  BY <1>0, <2>2, <2>3 DEF TypeOK, UserPlaces, Made
<1>4. CASE Reserve(u) \/ FailToSend(u) \/ RecordExternal(u)
  <2>1. PICK place \in {"idle", "posting", "restoring", "signing"} : at' = [at EXCEPT ![u] = place]
    BY <1>4 DEF Reserve, FailToSend, RecordExternal, Goto
  <2>2. doing[u] \in Made /\ Made \subseteq Versions
    BY <1>4 DEF Reserve, FailToSend, RecordExternal, TypeOK, Made
  <2>3. at' \in [Actors -> GeneratorPlaces \union UserPlaces]
    BY <1>0, <2>1 DEF TypeOK, UserPlaces
  <2>4. agreement' \in [Keys -> {"NONE", "CREATED", "OUT_FOR_SIGNATURE", "FAILED"}]
    BY <1>4 DEF Reserve, FailToSend, RecordExternal, TypeOK
  <2>5. \A w \in Users : at'[w] \in {"sending", "reserving", "posting", "sent", "restoring"} => attempt[w] \in Attempts
    BY <1>0, <1>4, <2>1 DEF Reserve, FailToSend, RecordExternal, Goto, TypeOK
  <2>6. \A w \in Users : at'[w] \notin {"idle", "taking_up", "sending_back"} => doing[w] \in Made
    BY <1>0, <2>1, <2>2 DEF TypeOK
  <2>7. /\ UNCHANGED <<status, letters, clear, attempt, doing, applied, presses>>
        /\ external' \subseteq Versions /\ gone' \subseteq Versions
    BY <1>4, <2>2 DEF Reserve, FailToSend, RecordExternal, TypeOK
  <2>. QED  BY <2>3, <2>4, <2>5, <2>6, <2>7 DEF TypeOK, Made
<1>5. CASE SendOut(u)
  <2>1. doing[u] \in Made
    BY <1>5 DEF SendOut, TypeOK
  <2>2. /\ version' \in [Versions -> [status : VersionStatuses, author : Authors \union {NoUser},
                                      wording : SUBSET Exceptions]]
        /\ Made' = Made
    BY <1>5, <2>1, OneStatusTypes DEF SendOut, VersionStatuses
  <2>3. agreement' \in [Keys -> {"NONE", "CREATED", "OUT_FOR_SIGNATURE", "FAILED"}]
    BY <1>5 DEF SendOut, TypeOK
  <2>4. /\ at' = [at EXCEPT ![u] = "sent"] /\ attempt[u] \in Attempts
        /\ gone' \subseteq Versions
        /\ UNCHANGED <<status, approvals, exception, clear, attempt, external, doing, applied, presses>>
    BY <1>5, <2>1 DEF SendOut, Goto, TypeOK, Made
  <2>. QED  BY <1>0, <2>1, <2>2, <2>3, <2>4 DEF TypeOK, UserPlaces
<1>. QED  BY <1>1, <1>2, <1>3, <1>4, <1>5

(* So does whatever somebody does with an exception. *)
Exceptional(u, e) == SubmitException(u, e) \/ ApproveException(u, e) \/ RejectException(u, e)

LEMMA ExceptionTypes ==
  ASSUME TypeOK, NEW u \in Users, NEW e \in Exceptions, Exceptional(u, e)
  PROVE  TypeOK'
<1>. DEFINE Row == [author : Users \union {NoUser}, approvedBy : Users \union {NoUser},
                    rejected : BOOLEAN]
<1>1. exception \in [Exceptions -> Row] /\ exception[e] \in Row
  BY DEF TypeOK
<1>2. PICK row \in Row : exception' = [exception EXCEPT ![e] = row]
  <2>1. CASE SubmitException(u, e)
    <3>1. [exception[e] EXCEPT !.author = u] \in Row
      BY <1>1
    <3>. QED  BY <2>1, <3>1 DEF SubmitException
  <2>2. CASE ApproveException(u, e)
    <3>1. [exception[e] EXCEPT !.approvedBy = u] \in Row
      BY <1>1
    <3>. QED  BY <2>2, <3>1 DEF ApproveException
  <2>3. CASE RejectException(u, e)
    <3>1. [exception[e] EXCEPT !.rejected = TRUE] \in Row
      BY <1>1
    <3>. QED  BY <2>3, <3>1 DEF RejectException
  <2>. QED  BY <2>1, <2>2, <2>3 DEF Exceptional
<1>3. exception' \in [Exceptions -> Row]
  BY <1>1, <1>2
<1>4. /\ presses' \in 0 .. MaxPresses
      /\ UNCHANGED <<status, version, approvals, clear, signatures, process>>
  BY ReviewAssumption
     DEF Exceptional, SubmitException, ApproveException, RejectException, Press, TypeOK
<1>. QED  BY <1>3, <1>4 DEF TypeOK, Made

(* BlockersChange, NeedsAttention and Leave touch no version. *)
LEMMA OutsideTypes ==
  ASSUME TypeOK, BlockersChange \/ NeedsAttention \/ \E p \in Actors : Leave(p)
  PROVE  TypeOK'
<1>1. CASE BlockersChange \/ NeedsAttention
  BY <1>1, StatusesUsed DEF BlockersChange, NeedsAttention, TypeOK, Made
<1>2. ASSUME NEW p \in Actors, Leave(p)
      PROVE  TypeOK'
  BY <1>2 DEF Leave, Goto, TypeOK, Made, GeneratorPlaces
<1>. QED  BY <1>1, <1>2

(* approvals, versions and statuses of every interleaving keep their types, a version *)
(* number that a process holds is that of a row, and numbers leave no gap.            *)
THEOREM TypeCorrect == Spec => []TypeOK
<1>1. TypeOK /\ [Next]_vars => TypeOK'
  <2>. SUFFICES ASSUME TypeOK, [Next]_vars PROVE TypeOK'
    OBVIOUS
  <2>1. CASE Next
    <3>1. ASSUME NEW u \in Users, Act(u) PROVE TypeOK'
      <4>1. ASSUME NEW e \in Exceptions, Exceptional(u, e) PROVE TypeOK'
        BY <4>1, ExceptionTypes
      <4>. QED  BY <3>1, <4>1, ReviewTypes, SendTypes DEF Act, Exceptional
    <3>. QED  BY <2>1, <3>1, GenerateTypes, OutsideTypes DEF Next
  <2>2. CASE UNCHANGED vars
    BY <2>2 DEF vars, TypeOK, Made
  <2>. QED  BY <2>1, <2>2
<1>. QED  BY <1>1, TypeInit, PTL DEF Spec

(***************************************************************************)
(* What a version says, and who approved it.                               *)
(***************************************************************************)
(* No step but CreateVersion makes a version, or writes its author or its wording. *)
LEMMA TextsKept ==
  ASSUME TypeOK, [Next]_vars, \A g \in Generators : ~CreateVersion(g)
  PROVE  /\ Made' = Made
         /\ \A v \in Versions : /\ version'[v].author = version[v].author
                                /\ version'[v].wording = version[v].wording
<1>. DEFINE Kept == /\ Made' = Made
                    /\ \A v \in Versions : /\ version'[v].author = version[v].author
                                           /\ version'[v].wording = version[v].wording
<1>1. UNCHANGED version => Kept
  BY DEF Made
<1>2. ASSUME NEW g \in Generators, Generate(g) PROVE Kept
  <2>1. CASE SupersedePrevious(g)
    BY <2>1, RestatusTypes DEF SupersedePrevious, Supersede, Unapproved, VersionStatuses
  <2>. QED  BY <1>1, <1>2, <2>1 DEF Generate, StartGeneration, Collect, Number, AnnounceDraft
<1>3. ASSUME NEW u \in Users, Act(u) PROVE Kept
  <2>1. CASE TakeUp(u) \/ RequestChanges(u)
    BY <2>1, RestatusTypes DEF TakeUp, RequestChanges, VersionStatuses, Unapproved
  <2>2. CASE CommitApproval(u) \/ SendOut(u)
    <3>1. doing[u] \in Made
      BY <2>2 DEF CommitApproval, SendOut, TypeOK
    <3>. QED  BY <2>2, <3>1, OneStatusTypes DEF CommitApproval, SendOut, VersionStatuses
  <2>3. CASE ~(TakeUp(u) \/ RequestChanges(u) \/ CommitApproval(u) \/ SendOut(u))
    <3>1. UNCHANGED version
      BY <1>3, <2>3
         DEF Act, StartReview, SendBack, AnnounceApproval, MarkReadyToSend, CountAttempts, AnnounceSending, Reserve,
             FailToSend, AnnounceSent, RecordExternal, AnnounceSigned, CheckApproval, CheckSend,
             CheckExternal, SubmitException, ApproveException, RejectException
    <3>. QED  BY <1>1, <3>1
  <2>. QED  BY <2>1, <2>2, <2>3
<1>4. (BlockersChange \/ NeedsAttention \/ \E p \in Actors : Leave(p)) => Kept
  BY <1>1 DEF BlockersChange, NeedsAttention, Leave
<1>5. UNCHANGED vars => Kept
  BY <1>1 DEF vars
<1>. QED  BY <1>2, <1>3, <1>4, <1>5 DEF Next

(* An exception that was approved was so by somebody other than its author, and versions, *)
(* and generations under way, hold approved exceptions only.                              *)
WordingInv ==
  /\ \A e \in Exceptions : exception[e].approvedBy # NoUser =>
       exception[e].author # NoUser /\ exception[e].approvedBy # exception[e].author
  /\ \A v \in Versions : \A e \in version[v].wording : exception[e].approvedBy # NoUser
  /\ \A g \in Generators : \A e \in applied[g] : exception[e].approvedBy # NoUser

LEMMA WordingStep ==
  ASSUME TypeOK, TypeOK', WordingInv, [Next]_vars
  PROVE  WordingInv'
<1>. USE ReviewAssumption
<1>1. ASSUME NEW g \in Generators, CreateVersion(g) PROVE WordingInv'
  <2>1. UNCHANGED exception /\ applied' = [applied EXCEPT ![g] = {}]
    BY <1>1 DEF CreateVersion
  <2>2. \A h \in Generators : applied'[h] \subseteq applied[h]
    BY <2>1 DEF TypeOK
  <2>3. \A v \in Versions : version'[v].wording \in {version[v].wording, applied[g]}
    <3>1. CASE UNCHANGED version
      BY <3>1
    <3>2. ASSUME NEW a \in Authors,
                 version' = [version EXCEPT ![doing[g] + 1] =
                   [status |-> "DRAFT", author |-> a, wording |-> applied[g]]]
          PROVE  \A v \in Versions : version'[v].wording \in {version[v].wording, applied[g]}
      BY <3>2 DEF TypeOK
    <3>. QED  BY <1>1, <3>1, <3>2 DEF CreateVersion
  <2>. QED  BY <2>1, <2>2, <2>3 DEF WordingInv
<1>2. ASSUME NEW g \in Generators, Collect(g) PROVE WordingInv'
  <2>1. /\ applied' = [applied EXCEPT ![g] = ApprovedWording]
        /\ UNCHANGED <<version, exception>>
    BY <1>2 DEF Collect
  <2>2. \A h \in Generators : \A e \in applied'[h] : exception[e].approvedBy # NoUser
    BY <2>1 DEF WordingInv, ApprovedWording, TypeOK
  <2>. QED  BY <2>1, <2>2 DEF WordingInv
<1>3. ASSUME NEW u \in Users, NEW e \in Exceptions, Exceptional(u, e) PROVE WordingInv'
  <2>1. UNCHANGED <<version, applied>>
    BY <1>3 DEF Exceptional, SubmitException, ApproveException, RejectException
  <2>2. \A x \in Exceptions \ {e} : exception'[x] = exception[x]
    BY <1>3 DEF Exceptional, SubmitException, ApproveException, RejectException, TypeOK
  <2>3. exception[e].approvedBy # NoUser => exception'[e].approvedBy # NoUser
    BY <1>3 DEF Exceptional, SubmitException, ApproveException, RejectException, TypeOK, Authors
  <2>4. exception'[e].approvedBy # NoUser =>
          exception'[e].author # NoUser /\ exception'[e].approvedBy # exception'[e].author
    BY <1>3 DEF Exceptional, SubmitException, ApproveException, RejectException, TypeOK, Authors,
                WordingInv
  <2>5. /\ \A v \in Versions : version[v].wording \subseteq Exceptions
        /\ \A g \in Generators : applied[g] \subseteq Exceptions
    BY DEF TypeOK
  <2>. QED  BY <2>1, <2>2, <2>3, <2>4, <2>5 DEF WordingInv
<1>4. CASE UNCHANGED <<exception, applied>> /\ \A g \in Generators : ~CreateVersion(g)
  BY <1>4, TextsKept DEF WordingInv
<1>5. CASE ~(\/ \E g \in Generators : CreateVersion(g) \/ Collect(g)
             \/ \E u \in Users, e \in Exceptions : Exceptional(u, e))
  <2>1. ASSUME NEW g \in Generators, Generate(g) PROVE UNCHANGED <<exception, applied>>
    BY <1>5, <2>1 DEF Generate, StartGeneration, Number, SupersedePrevious, AnnounceDraft
  <2>2. ASSUME NEW u \in Users, Act(u) PROVE UNCHANGED <<exception, applied>>
    BY <1>5, <2>2
       DEF Act, Exceptional, StartReview, TakeUp, RequestChanges, SendBack, CommitApproval,
           AnnounceApproval, MarkReadyToSend, CountAttempts, AnnounceSending, Reserve, SendOut, FailToSend,
           AnnounceSent, RecordExternal, AnnounceSigned, CheckApproval, CheckSend, CheckExternal
  <2>3. UNCHANGED <<exception, applied>>
    BY <2>1, <2>2 DEF Next, BlockersChange, NeedsAttention, Leave, vars
  <2>. QED  BY <1>4, <1>5, <2>3
<1>. QED  BY <1>1, <1>2, <1>3, <1>5

(* No letter holds wording only its author has agreed to, however exceptions are approved *)
(* and rejected beside the rendering.                                                     *)
THEOREM OthersAgreedToTheWording == Spec => []WordingApprovedByAnother
<1>1. Init => WordingInv
  BY DEF Init, WordingInv, NoVersion
<1>2. TypeOK /\ WordingInv => WordingApprovedByAnother
  BY DEF WordingInv, WordingApprovedByAnother, TypeOK
<1>. QED  BY <1>1, <1>2, WordingStep, TypeCorrect, PTL DEF Spec

(* A version that is approved or sent stays so, whatever its writer had read: supersession, *)
(* review and requests for changes leave approved rows out.  And whatever becomes of its    *)
(* status, a version once made keeps its author and its wording: of two generations that    *)
(* number theirs alike the index refuses the second.                                        *)
TextStands ==
  [][\A v \in Made : /\ version'[v].author = version[v].author
                     /\ version'[v].wording = version[v].wording]_vars

THEOREM ApprovalIsKept == Spec => ApprovedStays /\ TextStands
<1>. DEFINE Fit == {"APPROVED", "SENT_FOR_SIGNATURE"}
            Stays == \A v \in Versions : version[v].status \in Fit => version'[v].status \in Fit
<1>1. ASSUME TypeOK, [Next]_vars PROVE Stays
  <2>1. UNCHANGED version => Stays
    OBVIOUS
  <2>2. ASSUME NEW S, NEW from, NEW to, Restatus(S, from, to), from \intersect Fit = {} PROVE Stays
    BY <2>2 DEF Restatus
  <2>3. ASSUME NEW v \in Versions, NEW to \in Fit, version' = [version EXCEPT ![v].status = to]
        PROVE  Stays
    BY <2>3 DEF TypeOK
  <2>4. ASSUME NEW g \in Generators, Generate(g) PROVE Stays
    <3>1. CASE SupersedePrevious(g)
      BY <2>2, <3>1 DEF SupersedePrevious, Supersede, Unapproved
    <3>2. CASE CreateVersion(g)
      <4>1. ASSUME NEW row, version[doing[g] + 1].status = "NONE",
                   version' = [version EXCEPT ![doing[g] + 1] = row]
            PROVE  Stays
        BY <4>1 DEF TypeOK
      <4>. QED  BY <2>1, <3>2, <4>1 DEF CreateVersion
    <3>. QED  BY <2>1, <2>4, <3>1, <3>2 DEF Generate, StartGeneration, Collect, Number, AnnounceDraft
  <2>5. ASSUME NEW u \in Users, Act(u) PROVE Stays
    <3>1. CASE TakeUp(u)
      BY <2>2, <3>1 DEF TakeUp
    <3>2. CASE RequestChanges(u)
      BY <2>2, <3>2 DEF RequestChanges
    <3>3. CASE CommitApproval(u) \/ SendOut(u)
      <4>1. doing[u] \in Made /\ Made \subseteq Versions
        BY <1>1, <3>3 DEF CommitApproval, SendOut, TypeOK, Made
      <4>. QED  BY <2>3, <3>3, <4>1 DEF CommitApproval, SendOut
    <3>4. CASE ~(TakeUp(u) \/ RequestChanges(u) \/ CommitApproval(u) \/ SendOut(u))
      <4>1. UNCHANGED version
        BY <2>5, <3>4
           DEF Act, StartReview, SendBack, AnnounceApproval, MarkReadyToSend, CountAttempts, AnnounceSending,
               Reserve, FailToSend, AnnounceSent, RecordExternal, AnnounceSigned, CheckApproval,
               CheckSend, CheckExternal, SubmitException, ApproveException, RejectException
      <4>. QED  BY <2>1, <4>1
    <3>. QED  BY <3>1, <3>2, <3>3, <3>4
  <2>. QED  BY <1>1, <2>1, <2>4, <2>5 DEF Next, BlockersChange, NeedsAttention, Leave, vars
<1>. DEFINE Stands == \A v \in Made : /\ version'[v].author = version[v].author
                                      /\ version'[v].wording = version[v].wording
<1>2. ASSUME TypeOK, [Next]_vars PROVE Stands
  <2>1. ASSUME NEW g \in Generators, CreateVersion(g) PROVE Stands
    <3>1. CASE UNCHANGED version
      BY <3>1
    <3>2. ASSUME NEW row, version[doing[g] + 1].status = "NONE",
                 version' = [version EXCEPT ![doing[g] + 1] = row]
          PROVE  Stands
      BY <1>2, <3>2 DEF TypeOK, Made
    <3>. QED  BY <2>1, <3>1, <3>2 DEF CreateVersion
  <2>. QED  BY <1>2, <2>1, TextsKept DEF Made
<1>. QED  BY <1>1, <1>2, TypeCorrect, PTL DEF Spec, ApprovedStays, TextStands

(***************************************************************************)
(* The refinement: Review keeps the register of ApprovalRegister.          *)
(***************************************************************************)
(* A version has an author exactly when there is one; whoever is approving did not produce *)
(* it; and what is on its way out has been approved.                                       *)
RegisterInv ==
  /\ \A v \in Versions : version[v].author = NoUser <=> v \notin Made
  /\ \A u \in Users : at[u] = "approving" => version[doing[u]].author # u
  /\ \A u \in Users : at[u] \in {"counting", "sending", "reserving", "posting", "recording"} => HasApproval(doing[u])

AuthorOf == [v \in Versions |-> version[v].author]

LEMMA RegisterInit == Init => RegisterInv /\ Register!Init
  BY DEF Init, RegisterInv, Register!Init, Made, NoVersion, Actors

(* A new version gets its author; no other step writes one. *)
LEMMA Authorship ==
  ASSUME TypeOK, RegisterInv, NEW g \in Generators, CreateVersion(g)
  PROVE  /\ Made \subseteq Made'
         /\ \A v \in Made : version'[v].author = version[v].author
         /\ \A v \in Versions : version'[v].author = NoUser <=> v \notin Made'
         /\ UNCHANGED AuthorOf \/ \E v \in Versions \ Made, a \in Authors :
                                    AuthorOf' = [AuthorOf EXCEPT ![v] = a]
<1>. DEFINE v == doing[g] + 1
<1>1. CASE UNCHANGED version
  BY <1>1 DEF Made, RegisterInv, AuthorOf
<1>2. ASSUME NEW a \in Authors, v \in Versions, version[v].status = "NONE",
             version' = [version EXCEPT ![v] =
                           [status |-> "DRAFT", author |-> a, wording |-> applied[g]]]
      PROVE  /\ v \in Versions \ Made /\ Made' = Made \union {v}
             /\ version'[v].author = a
             /\ \A w \in Versions \ {v} : version'[w] = version[w]
  BY <1>2 DEF TypeOK, Made
<1>3. ASSUME NEW a \in Authors, v \in Versions, version[v].status = "NONE",
             version' = [version EXCEPT ![v] =
                           [status |-> "DRAFT", author |-> a, wording |-> applied[g]]]
      PROVE  /\ \A w \in Made : version'[w].author = version[w].author
             /\ \A w \in Versions : version'[w].author = NoUser <=> w \notin Made'
             /\ AuthorOf' = [AuthorOf EXCEPT ![v] = a]
  <2>1. /\ v \in Versions \ Made /\ Made' = Made \union {v}
        /\ version'[v].author = a
        /\ \A w \in Versions \ {v} : version'[w] = version[w]
    BY <1>2, <1>3
  <2>2. a # NoUser /\ Made \subseteq Versions
    BY ReviewAssumption DEF Made
  <2>3. \A w \in Made : version'[w].author = version[w].author
    BY <2>1, <2>2
  <2>4. \A w \in Versions : version'[w].author = NoUser <=> w \notin Made'
    BY <2>1, <2>2 DEF RegisterInv
  <2>5. AuthorOf' = [AuthorOf EXCEPT ![v] = a]
    BY <2>1 DEF AuthorOf
  <2>. QED  BY <2>3, <2>4, <2>5
<1>. QED
  <2>1. CASE version[v].status = "NONE"
    <3>1. PICK a \in Authors : version' = [version EXCEPT ![v] =
                                  [status |-> "DRAFT", author |-> a, wording |-> applied[g]]]
      BY <2>1 DEF CreateVersion
    <3>. QED  BY <1>2, <1>3, <2>1, <3>1 DEF CreateVersion
  <2>. QED  BY <1>1, <2>1 DEF CreateVersion

(* Approvals only come, and come from somebody who did not write the version. *)
LEMMA Approving ==
  ASSUME TypeOK, RegisterInv, [Next]_vars
  PROVE  /\ approvals \subseteq approvals'
         /\ UNCHANGED approvals \/
            \E u \in Users : /\ CommitApproval(u) /\ doing[u] \in Made
                            /\ version[doing[u]].author \notin {NoUser, u}
                            /\ approvals' = approvals \union {<<doing[u], u>>}
<1>1. ASSUME NEW u \in Users, CommitApproval(u)
      PROVE  /\ doing[u] \in Made
             /\ version[doing[u]].author \notin {NoUser, u}
             /\ approvals' = approvals \union {<<doing[u], u>>}
  BY <1>1 DEF CommitApproval, TypeOK, RegisterInv, Made
<1>2. CASE \A u \in Users : ~CommitApproval(u)
  <2>1. ASSUME NEW g \in Generators, Generate(g) PROVE UNCHANGED approvals
    BY <2>1 DEF Generate, StartGeneration, Collect, Number, CreateVersion, SupersedePrevious,
                AnnounceDraft
  <2>2. ASSUME NEW u \in Users, Act(u) PROVE UNCHANGED approvals
    BY <1>2, <2>2
       DEF Act, StartReview, TakeUp, RequestChanges, SendBack, AnnounceApproval, MarkReadyToSend,
           CountAttempts, AnnounceSending, Reserve, SendOut, FailToSend, AnnounceSent, RecordExternal,
           AnnounceSigned, CheckApproval, CheckSend, CheckExternal, SubmitException,
           ApproveException, RejectException
  <2>. QED  BY <2>1, <2>2 DEF Next, BlockersChange, NeedsAttention, Leave, vars
<1>. QED  BY <1>1, <1>2

(* A process comes to an approval, or to a sending, through its gate, and stays *)
(* about the version the gate looked at.                                        *)
Committed == {"approving", "counting", "sending", "reserving", "posting", "recording"}

LEMMA Gated ==
  ASSUME TypeOK, [Next]_vars, NEW u \in Users, at'[u] \in Committed
  PROVE  \/ at[u] \in Committed /\ doing'[u] = doing[u] /\ (at[u] = "approving" <=> at'[u] = "approving")
         \/ /\ at'[u] = "approving" /\ doing'[u] \in Made /\ MayApprove(u, doing'[u])
         \/ /\ at'[u] # "approving" /\ doing'[u] \in Made /\ HasApproval(doing'[u])
<1>. DEFINE Goal ==
         \/ at[u] \in Committed /\ doing'[u] = doing[u] /\ (at[u] = "approving" <=> at'[u] = "approving")
         \/ /\ at'[u] = "approving" /\ doing'[u] \in Made /\ MayApprove(u, doing'[u])
         \/ /\ at'[u] # "approving" /\ doing'[u] \in Made /\ HasApproval(doing'[u])
<1>. USE DEF Committed, Goto, About
<1>1. u \in Actors /\ at[u] \in GeneratorPlaces \union UserPlaces
  BY DEF Actors, TypeOK
<1>2. CASE at'[u] = at[u] /\ doing'[u] = doing[u]
  BY <1>2
<1>3. ASSUME NEW v \in Versions, CheckApproval(u, v) PROVE Goal
  BY <1>1, <1>3 DEF CheckApproval, TypeOK
<1>4. ASSUME NEW v \in Versions, CheckSend(u, v) \/ CheckExternal(u, v) PROVE Goal
  BY <1>1, <1>4 DEF CheckSend, CheckExternal, PassesGate, TypeOK, Made
<1>5. ASSUME NEW v \in Users, Act(v) PROVE Goal
  <2>1. CASE v # u
    BY <1>1, <1>2, <1>5, <2>1
       DEF Act, Move, StartReview, TakeUp, RequestChanges, SendBack, CommitApproval, AnnounceApproval,
           MarkReadyToSend, CountAttempts, AnnounceSending, Reserve, SendOut, FailToSend, AnnounceSent,
           RecordExternal, AnnounceSigned, CheckApproval, CheckSend, CheckExternal,
           SubmitException, ApproveException, RejectException, TypeOK
  <2>2. CASE v = u
    BY <1>1, <1>2, <1>3, <1>4, <1>5, <2>2
       DEF Act, Move, StartReview, TakeUp, RequestChanges, SendBack, CommitApproval, AnnounceApproval,
           MarkReadyToSend, CountAttempts, AnnounceSending, Reserve, SendOut, FailToSend, AnnounceSent,
           RecordExternal, AnnounceSigned, SubmitException, ApproveException, RejectException, TypeOK
  <2>. QED  BY <2>1, <2>2
<1>6. ASSUME NEW g \in Generators, Generate(g) PROVE Goal
  <2>1. g # u
    BY ReviewAssumption
  <2>2. at'[u] = at[u] /\ doing'[u] = doing[u]
    BY <1>1, <1>6, <2>1
       DEF Generate, Move, StartGeneration, Collect, Number, CreateVersion, SupersedePrevious,
           AnnounceDraft, TypeOK
  <2>. QED  BY <1>2, <2>2
<1>7. ASSUME NEW p \in Actors, Leave(p) PROVE Goal
  BY <1>1, <1>7 DEF Leave, TypeOK
<1>8. CASE BlockersChange \/ NeedsAttention \/ UNCHANGED vars
  BY <1>2, <1>8 DEF BlockersChange, NeedsAttention, vars
<1>. QED  BY <1>5, <1>6, <1>7, <1>8 DEF Next

LEMMA RegisterStep ==
  ASSUME TypeOK, TypeOK', RegisterInv, [Next]_vars
  PROVE  RegisterInv'
<1>1. /\ Made \subseteq Made'
      /\ \A v \in Made : version'[v].author = version[v].author
      /\ \A v \in Versions : version'[v].author = NoUser <=> v \notin Made'
  <2>1. CASE \E g \in Generators : CreateVersion(g)
    BY <2>1, Authorship
  <2>2. CASE \A g \in Generators : ~CreateVersion(g)
    BY <2>2, TextsKept DEF RegisterInv, Made
  <2>. QED  BY <2>1, <2>2
<1>2. approvals \subseteq approvals'
  BY Approving
<1>3. ASSUME NEW u \in Users, at'[u] = "approving"
      PROVE  version'[doing'[u]].author # u
  <2>1. doing'[u] \in Made /\ version[doing'[u]].author # u
    BY <1>3, Gated DEF Committed, RegisterInv, TypeOK, MayApprove
  <2>. QED  BY <1>1, <2>1
<1>4. ASSUME NEW u \in Users, at'[u] \in {"counting", "sending", "reserving", "posting", "recording"}
      PROVE  HasApproval(doing[u])'
  <2>1. HasApproval(doing'[u])
    BY <1>4, Gated DEF Committed, RegisterInv
  <2>. QED  BY <1>2, <2>1 DEF HasApproval
<1>. QED  BY <1>1, <1>3, <1>4 DEF RegisterInv

(* What goes out goes out by Adobe or on paper, after an approval. *)
LEMMA Going ==
  ASSUME TypeOK, RegisterInv, [Next]_vars
  PROVE  \/ UNCHANGED gone
         \/ \E u \in Users : /\ SendOut(u) \/ FailToSend(u) \/ RecordExternal(u)
                            /\ gone' = gone \union {doing[u]}
                            /\ doing[u] \in Versions /\ HasApproval(doing[u])
<1>1. ASSUME NEW u \in Users, SendOut(u) \/ FailToSend(u) \/ RecordExternal(u), ~UNCHANGED gone
      PROVE  /\ gone' = gone \union {doing[u]}
             /\ doing[u] \in Versions /\ HasApproval(doing[u])
  BY <1>1 DEF SendOut, FailToSend, RecordExternal, TypeOK, RegisterInv, Made
<1>2. CASE \A u \in Users : ~SendOut(u) /\ ~FailToSend(u) /\ ~RecordExternal(u)
  <2>1. ASSUME NEW g \in Generators, Generate(g) PROVE UNCHANGED gone
    BY <2>1 DEF Generate, StartGeneration, Collect, Number, CreateVersion, SupersedePrevious,
                AnnounceDraft
  <2>2. ASSUME NEW u \in Users, Act(u) PROVE UNCHANGED gone
    BY <1>2, <2>2
       DEF Act, StartReview, TakeUp, RequestChanges, SendBack, CommitApproval, AnnounceApproval,
           MarkReadyToSend, CountAttempts, AnnounceSending, Reserve, AnnounceSent, AnnounceSigned,
           CheckApproval, CheckSend, CheckExternal, SubmitException, ApproveException,
           RejectException
  <2>. QED  BY <2>1, <2>2 DEF Next, BlockersChange, NeedsAttention, Leave, vars
<1>. QED  BY <1>1, <1>2

(* Every step is one of the register, or none. *)
LEMMA RegisterSimulates ==
  ASSUME TypeOK, RegisterInv, [Next]_vars
  PROVE  [Register!Next]_(Register!register)
<1>. USE DEF Register!Next, Register!register, Register!Make, Register!Approve, Register!Send
<1>. DEFINE author == [v \in Versions |-> version[v].author]
<1>1. ASSUME NEW g \in Generators, CreateVersion(g)
      PROVE  [Register!Next]_(Register!register)
  <2>1. UNCHANGED <<approvals, gone>>
    BY <1>1 DEF CreateVersion
  <2>2. ASSUME NEW v \in Versions \ Made, NEW a \in Authors, AuthorOf' = [AuthorOf EXCEPT ![v] = a]
        PROVE  Register!Make(v)
    <3>1. author[v] = NoUser
      BY <2>2 DEF RegisterInv
    <3>2. author' = [author EXCEPT ![v] = a]
      BY <2>2 DEF AuthorOf
    <3>. QED  BY <2>1, <3>1, <3>2
  <2>3. UNCHANGED AuthorOf => UNCHANGED author
    BY DEF AuthorOf
  <2>. QED  BY <1>1, <2>1, <2>2, <2>3, Authorship
<1>2. CASE \A g \in Generators : ~CreateVersion(g)
  <2>1. UNCHANGED author
    BY <1>2, TextsKept
  <2>2. ASSUME NEW u \in Users, CommitApproval(u)
        PROVE  Register!Approve(doing[u], u) /\ doing[u] \in Versions
    <3>1. doing[u] \in Versions /\ version[doing[u]].author \notin {NoUser, u}
          /\ approvals' = approvals \union {<<doing[u], u>>}
      BY <2>2 DEF CommitApproval, TypeOK, RegisterInv, Made
    <3>. QED  BY <2>1, <2>2, <3>1 DEF CommitApproval
  <2>3. ASSUME NEW u \in Users, SendOut(u) \/ FailToSend(u) \/ RecordExternal(u),
               gone' = gone \union {doing[u]}, doing[u] \in Versions, HasApproval(doing[u])
        PROVE  Register!Send(doing[u]) /\ doing[u] \in Versions
    <3>1. /\ doing[u] \in Versions /\ HasApproval(doing[u])
          /\ gone' = gone \union {doing[u]} /\ UNCHANGED approvals
      BY <2>3 DEF SendOut, FailToSend, RecordExternal
    <3>. QED  BY <2>1, <3>1 DEF HasApproval
  <2>4. CASE UNCHANGED <<approvals, gone>>
    BY <2>1, <2>4
  <2>. QED  BY <2>2, <2>3, <2>4, Approving, Going
<1>. QED  BY <1>1, <1>2

(* The detailed specification implements the register: letters are made once, approved by *)
(* others than their authors, and go out only then.                                       *)
THEOREM ReviewKeepsTheRegister == Spec => KeepsRegister
<1>1. Init => RegisterInv /\ Register!Init
  BY RegisterInit
<1>2. TypeOK /\ TypeOK' /\ RegisterInv /\ [Next]_vars => RegisterInv'
  BY RegisterStep
<1>3. TypeOK /\ RegisterInv /\ [Next]_vars => [Register!Next]_(Register!register)
  BY RegisterSimulates
<1>. QED  BY <1>1, <1>2, <1>3, TypeCorrect, PTL DEF Spec, KeepsRegister, Register!Spec
=============================================================================
