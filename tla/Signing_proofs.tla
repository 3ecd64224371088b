--------------------------- MODULE Signing_proofs ---------------------------
(***************************************************************************)
(* What holds of module Signing for every number of senders, webhook       *)
(* requests, agreements and attempts, with every failure enabled.          *)
(***************************************************************************)
EXTENDS Signing, FiniteSetTheorems, TLAPS

(* Every status this module ever writes is a status of the table. *)
LEMMA StatusesUsed ==
  {"READY_TO_SEND", "SENDING_FOR_SIGNATURE", "SENT_FOR_SIGNATURE", "CHANGES_REQUESTED",
   "PARTIALLY_SIGNED", "SIGNED", "DECLINED", "EXPIRED", "NEEDS_ATTENTION", "COMPLETE"}
    \subseteq EngagementStatuses
  BY DEF EngagementStatuses, Open

(* Counting the rows of an engagement gives a number, so the next attempt is one too. *)
LEMMA AttemptsCounted ==
  ASSUME MaxAttempts \in Nat \ {0}
  PROVE  NextAttempt \in Nat \ {0}
<1>1. IsFiniteSet(Attempts)
  BY FS_Interval DEF Attempts
<1>2. IsFiniteSet(Rows)
  BY <1>1, FS_Subset DEF Rows
<1>3. Cardinality(Rows) \in Nat
  BY <1>2, FS_CardinalityType
<1>. QED  BY <1>3 DEF NextAttempt

(* A report maps to a status of the table, or to the status there is. *)
LEMMA ReportsMap ==
  ASSUME status \in EngagementStatuses, NEW s
  PROVE  EngagementStatusFor(s) \in EngagementStatuses
  BY StatusesUsed DEF EngagementStatusFor

LEMMA TypeInit == Init => TypeOK
<1>. SUFFICES ASSUME Init PROVE TypeOK
  OBVIOUS
<1>1. 1 \in Attempts /\ karbon \in KarbonModes
  BY SigningAssumption DEF Init, Attempts
<1>. QED
  BY <1>1, StatusesUsed DEF Init, TypeOK, RowStatuses, AdobeStates, Jobs

(* The tuples that UNCHANGED names. *)
USE DEF local, adobe, senders, readers, hooks, filing

(***************************************************************************)
(* Types.                                                                  *)
(***************************************************************************)
(* A sender, wherever it is in sendForSignature, keeps every type. *)
LEMMA SenderTypes ==
  ASSUME TypeOK, NEW s \in Senders, PassGate(s) \/ Send(s) \/ LoseAnswer(s) \/ SenderCrash(s)
  PROVE  TypeOK'
<1>. USE DEF TypeOK, Goto, RowStatuses, AdobeStates, Jobs
<1>1. CASE PassGate(s)
  BY <1>1 DEF PassGate
<1>2. CASE Count(s)
  <2>1. NextAttempt \in Attempts
    BY <1>2, AttemptsCounted, SigningAssumption DEF Count, Attempts
  <2>. QED  BY <1>2, <2>1 DEF Count
<1>3. CASE Deduplicate(s)
  BY <1>3 DEF Deduplicate
<1>4. CASE AskAdobe(s)
  BY <1>4 DEF AskAdobe
<1>5. CASE Adopt(s)
  <2>1. got[s] \in Agreements \union {NoAgreement} /\ attempt[s] \in Attempts
    OBVIOUS
  <2>. QED  BY <1>5, <2>1 DEF Adopt
<1>6. CASE StartSending(s)
  BY <1>6, StatusesUsed DEF StartSending
<1>7. CASE Reserve(s)
  BY <1>7 DEF Reserve
<1>8. CASE CreateAgreement(s)
  BY <1>8 DEF CreateAgreement, Issue
<1>9. CASE CreateFails(s)
  BY <1>9 DEF CreateFails
<1>10. CASE Record(s)
  BY <1>10 DEF Record
<1>11. CASE MarkSent(s)
  BY <1>11, StatusesUsed DEF MarkSent
<1>12. CASE MarkFailed(s)
  BY <1>12 DEF MarkFailed
<1>13. CASE Restore(s)
  BY <1>13, StatusesUsed DEF Restore
<1>14. CASE LoseAnswer(s)
  BY <1>14 DEF LoseAnswer, Issue
<1>15. CASE SenderCrash(s)
  BY <1>15 DEF SenderCrash
<1>. QED
  BY <1>1, <1>2, <1>3, <1>4, <1>5, <1>6, <1>7, <1>8, <1>9, <1>10, <1>11, <1>12, <1>13,
     <1>14, <1>15 DEF Send

(* So do Adobe, its webhooks and the people around them. *)
LEMMA OutsideTypes ==
  ASSUME TypeOK,
         \/ MarkReadyToSend \/ RequestChanges \/ ConnectKarbon \/ OutageEnds
         \/ \E a \in Agreements : AdobeMoves(a)
         \/ \E e \in pending : WebhookLost(e) \/ Duplicate(e)
  PROVE  TypeOK'
<1>. USE DEF TypeOK, RowStatuses, AdobeStates, Jobs, Events
<1>1. CASE MarkReadyToSend \/ RequestChanges
  BY <1>1, StatusesUsed DEF MarkReadyToSend, RequestChanges
<1>2. CASE ConnectKarbon
  BY <1>2 DEF ConnectKarbon, KarbonModes
<1>3. CASE OutageEnds
  BY <1>3 DEF OutageEnds
<1>4. ASSUME NEW a \in Agreements, AdobeMoves(a)
      PROVE  TypeOK'
  <2>1. PICK s \in Progress(state[a]) :
          /\ state' = [state EXCEPT ![a] = s]
          /\ pending' = pending \union {<<a, s>>}
    BY <1>4 DEF AdobeMoves
  <2>2. s \in AdobeStates
    BY <2>1 DEF Progress
  <2>. QED  BY <1>4, <2>1, <2>2 DEF AdobeMoves
<1>5. CASE \E e \in pending : WebhookLost(e)
  BY <1>5 DEF WebhookLost
<1>6. CASE \E e \in pending : Duplicate(e)
  BY <1>6 DEF Duplicate
<1>. QED  BY <1>1, <1>2, <1>3, <1>4, <1>5, <1>6

(* So do the webhook handlers and the poll ... *)
LEMMA ReaderTypes ==
  ASSUME TypeOK,
         \/ \E e \in pending, h \in Handlers : Deliver(h, e)
         \/ PollStarts \/ PollTakes
         \/ \E r \in Readers : Observe(r) \/ ReaderFails(r)
  PROVE  TypeOK'
<1>. USE DEF TypeOK, RowStatuses, AdobeStates, Jobs, Events, Readers
<1>1. ASSUME NEW e \in pending, NEW h \in Handlers, Deliver(h, e)
      PROVE  TypeOK'
  <2>1. e[1] \in Agreements /\ e[2] \in AdobeStates
    OBVIOUS
  <2>. QED  BY <1>1, <2>1 DEF Deliver
<1>2. CASE PollStarts
  <2>1. {rowAgreement[n] : n \in PolledRows} \subseteq Agreements
    BY DEF PolledRows, InFlightRows, Rows
  <2>. QED  BY <1>2, <2>1 DEF PollStarts
<1>3. CASE PollTakes
  BY <1>3, SigningAssumption DEF PollTakes
<1>4. ASSUME NEW r \in Readers, ReadAgreement(r)
      PROVE  TypeOK'
  BY <1>4 DEF ReadAgreement
<1>5. ASSUME NEW r \in Readers, ApplyToRow(r)
      PROVE  TypeOK'
  BY <1>5 DEF ApplyToRow, Throw, Release, RowsOf
<1>6. ASSUME NEW r \in Readers, ApplyToEngagement(r)
      PROVE  TypeOK'
  BY <1>6, ReportsMap DEF ApplyToEngagement, Throw, Release
<1>7. ASSUME NEW r \in Readers, Conclude(r)
      PROVE  TypeOK'
  <2>1. (IF r = Poll THEN {} ELSE {<<subject[r], about[r]>>}) \subseteq Events
    BY <1>7 DEF Conclude
  <2>. QED  BY <1>7, <2>1 DEF Conclude, Release
<1>8. ASSUME NEW r \in Readers, ReaderFails(r)
      PROVE  TypeOK'
  BY <1>8 DEF ReaderFails, Throw, Release
<1>. QED  BY <1>1, <1>2, <1>3, <1>4, <1>5, <1>6, <1>7, <1>8 DEF Observe

(* ... and the job that files the letter. *)
LEMMA FilingTypes ==
  ASSUME TypeOK, NEW a \in Agreements,
         File(a) \/ FilingFails(a) \/ RetryFiling(a) \/ PurgeFiling(a)
  PROVE  TypeOK'
<1>. USE DEF TypeOK, RowStatuses, AdobeStates, Jobs, RowsOf
<1>1. CASE Upload(a)
  BY <1>1 DEF Upload
<1>2. CASE RecordFiling(a)
  BY <1>2 DEF RecordFiling
<1>3. CASE MarkVersionSigned(a)
  BY <1>3 DEF MarkVersionSigned
<1>4. CASE Complete(a)
  BY <1>4, StatusesUsed DEF Complete
<1>5. CASE FilingFails(a)
  BY <1>5 DEF FilingFails
<1>6. CASE RetryFiling(a) \/ PurgeFiling(a)
  BY <1>6 DEF RetryFiling, PurgeFiling
<1>. QED  BY <1>1, <1>2, <1>3, <1>4, <1>5, <1>6 DEF File

(* Every variable keeps its type: above all, the attempts that are counted never leave *)
(* the range of the keys, and a reader never acts without an agreement to act on.     *)
THEOREM TypeCorrect == Spec => []TypeOK
<1>1. Init => TypeOK
  BY TypeInit
<1>2. TypeOK /\ [Next]_vars => TypeOK'
  <2>. SUFFICES ASSUME TypeOK, [Next]_vars PROVE TypeOK'
    OBVIOUS
  <2>1. CASE UNCHANGED vars
    BY <2>1 DEF vars, TypeOK
  <2>. QED
    BY <2>1, SenderTypes, OutsideTypes, ReaderTypes, FilingTypes DEF Next
<1>. QED  BY <1>1, <1>2, PTL DEF Spec

(***************************************************************************)
(* Nothing reads as signed that no client completed.  A completed          *)
(* agreement stays completed at Adobe, so a report of it may be as old as  *)
(* it likes; the invariant says that every trace of a completion -- what a *)
(* reader saw, a job queued to file the letter -- comes from a real one.   *)
(***************************************************************************)
Completed(a) == state[a] = "COMPLETED"

(* What Adobe has not issued has no state. *)
Issued == \A a \in Agreements : madeFor[a] = 0 => state[a] = "NONE"

(* A reader saw a completion of the agreement it is about, or saw none. *)
Sighted ==
  \A r \in Readers :
    /\ doing[r] \in {"idle", "reading"} => seen[r] = "NONE"
    /\ seen[r] = "COMPLETED" => Completed(subject[r])

(* Only a completed agreement is filed. *)
FiledForReal == \A a \in Agreements : job[a] # "none" => Completed(a)

RealInv == TypeOK /\ Issued /\ Sighted /\ FiledForReal /\ SignedOnlyIfCompleted

(* A completion stays one. *)
KeepsCompletions == \A a \in Agreements : Completed(a) => Completed(a)'

(* Whoever leaves readers and jobs alone, forgets no completion and writes no signed *)
(* status keeps the invariant.                                                      *)
LEMMA Unsigned ==
  ASSUME RealInv, TypeOK', Issued', KeepsCompletions,
         UNCHANGED <<readers, job>>,
         status' \in {"SIGNED", "COMPLETE"} => status' = status,
         version' = "SIGNED" => version' = version
  PROVE  RealInv'
<1>. USE DEF RealInv, KeepsCompletions
<1>1. Sighted'
  <2>. SUFFICES ASSUME NEW r \in Readers
                PROVE  /\ doing[r] \in {"idle", "reading"} => seen[r] = "NONE"
                       /\ seen[r] = "COMPLETED" => Completed(subject[r])'
    BY DEF Sighted, Completed
  <2>. QED  BY DEF Sighted, TypeOK
<1>2. FiledForReal'
  BY DEF FiledForReal
<1>3. SignedOnlyIfCompleted'
  BY DEF SignedOnlyIfCompleted, Completed
<1>. QED  BY <1>1, <1>2, <1>3

(* Only a sender makes Adobe issue an agreement, and only Adobe moves one. *)
LEMMA AdobeSteps ==
  ASSUME [Next]_vars
  PROVE  \/ UNCHANGED adobe
         \/ \E s \in Senders : CreateAgreement(s) \/ LoseAnswer(s)
         \/ \E a \in Agreements : AdobeMoves(a) /\ UNCHANGED madeFor
<1>1. CASE UNCHANGED vars
  BY <1>1 DEF vars
<1>2. ASSUME NEW s \in Senders, PassGate(s) \/ Send(s) \/ SenderCrash(s), ~CreateAgreement(s)
      PROVE  UNCHANGED adobe
  BY <1>2 DEF PassGate, Send, SenderCrash, Count, Deduplicate, AskAdobe, Adopt, StartSending,
              Reserve, CreateFails, Record, MarkSent, MarkFailed, Restore
<1>3. CASE MarkReadyToSend \/ RequestChanges \/ ConnectKarbon \/ OutageEnds \/ PollStarts \/ PollTakes
  BY <1>3 DEF MarkReadyToSend, RequestChanges, ConnectKarbon, OutageEnds, PollStarts, PollTakes
<1>4. CASE \E e \in pending : WebhookLost(e) \/ Duplicate(e) \/ \E h \in Handlers : Deliver(h, e)
  BY <1>4 DEF WebhookLost, Duplicate, Deliver
<1>5. CASE \E r \in Readers : Observe(r) \/ ReaderFails(r)
  BY <1>5 DEF Observe, ReadAgreement, ApplyToRow, ApplyToEngagement, Conclude, ReaderFails
<1>6. CASE \E a \in Agreements : File(a) \/ FilingFails(a) \/ RetryFiling(a) \/ PurgeFiling(a)
  BY <1>6 DEF File, Upload, RecordFiling, MarkVersionSigned, Complete, FilingFails, RetryFiling,
              PurgeFiling
<1>7. CASE \E a \in Agreements : AdobeMoves(a)
  BY <1>7 DEF AdobeMoves
<1>. QED  BY <1>1, <1>2, <1>3, <1>4, <1>5, <1>6, <1>7 DEF Next

(* Adobe forgets nothing when it is left alone, or when it issues or moves an agreement. *)
LEMMA AdobeRemembers ==
  ASSUME TypeOK, Issued,
         \/ UNCHANGED adobe
         \/ \E s \in Senders, a \in Agreements : Issue(s, a)
         \/ \E a \in Agreements : AdobeMoves(a)
  PROVE  Issued' /\ KeepsCompletions
<1>. USE DEF TypeOK, Issued, KeepsCompletions, Completed
<1>1. CASE UNCHANGED adobe
  BY <1>1
<1>2. ASSUME NEW s \in Senders, NEW a \in Agreements, Issue(s, a)
      PROVE  Issued' /\ KeepsCompletions
  <2>1. attempt[s] # 0
    BY SigningAssumption DEF Attempts
  <2>. QED  BY <1>2, <2>1 DEF Issue
<1>3. ASSUME NEW a \in Agreements, AdobeMoves(a)
      PROVE  Issued' /\ KeepsCompletions
  <2>1. PICK x \in Progress(state[a]) : state' = [state EXCEPT ![a] = x]
    BY <1>3 DEF AdobeMoves
  <2>2. state[a] # "NONE" /\ state[a] # "COMPLETED"
    BY <2>1 DEF Progress
  <2>. QED  BY <1>3, <2>1, <2>2 DEF AdobeMoves
<1>. QED  BY <1>1, <1>2, <1>3

(* A sender never marks anything signed. *)
LEMMA SenderReal ==
  ASSUME RealInv, NEW s \in Senders, PassGate(s) \/ Send(s) \/ LoseAnswer(s) \/ SenderCrash(s)
  PROVE  RealInv'
<1>1. TypeOK'
  BY SenderTypes DEF RealInv
<1>2. /\ UNCHANGED <<readers, job>>
      /\ status' \in {"SIGNED", "COMPLETE"} => status' = status
      /\ version' = "SIGNED" => version' = version
      /\ UNCHANGED adobe \/ \E a \in Agreements : Issue(s, a)
  <2>1. CASE PassGate(s) \/ Count(s) \/ Deduplicate(s) \/ AskAdobe(s) \/ CreateFails(s) \/ SenderCrash(s)
    BY <2>1 DEF PassGate, Count, Deduplicate, AskAdobe, CreateFails, SenderCrash
  <2>2. CASE Adopt(s)
    BY <2>2 DEF Adopt
  <2>3. CASE StartSending(s) \/ MarkSent(s) \/ Restore(s)
    BY <2>3 DEF StartSending, MarkSent, Restore
  <2>4. CASE Reserve(s)
    BY <2>4 DEF Reserve
  <2>5. CASE CreateAgreement(s) \/ LoseAnswer(s)
    BY <2>5 DEF CreateAgreement, LoseAnswer
  <2>6. CASE Record(s)
    BY <2>6 DEF Record
  <2>7. CASE MarkFailed(s)
    BY <2>7 DEF MarkFailed
  <2>. QED  BY <2>1, <2>2, <2>3, <2>4, <2>5, <2>6, <2>7 DEF Send
<1>3. Issued' /\ KeepsCompletions
  BY <1>2, AdobeRemembers DEF RealInv
<1>. QED  BY <1>1, <1>2, <1>3, Unsigned

(* Nor do Adobe, the webhooks on their way, people, or the end of an outage. *)
LEMMA OutsideReal ==
  ASSUME RealInv,
         \/ MarkReadyToSend \/ RequestChanges \/ ConnectKarbon \/ OutageEnds
         \/ \E a \in Agreements : AdobeMoves(a)
         \/ \E e \in pending : WebhookLost(e) \/ Duplicate(e)
  PROVE  RealInv'
<1>1. TypeOK'
  BY OutsideTypes DEF RealInv
<1>2. /\ UNCHANGED <<readers, job, version>>
      /\ status' \in {"SIGNED", "COMPLETE"} => status' = status
      /\ UNCHANGED adobe \/ \E a \in Agreements : AdobeMoves(a)
  BY DEF MarkReadyToSend, RequestChanges, ConnectKarbon, OutageEnds, AdobeMoves, WebhookLost, Duplicate
<1>3. Issued' /\ KeepsCompletions
  BY <1>2, AdobeRemembers DEF RealInv
<1>. QED  BY <1>1, <1>2, <1>3, Unsigned

(* A reader that lets go has seen nothing; the others see what they saw. *)
LEMMA ReleaseSighted ==
  ASSUME TypeOK, Sighted, NEW r \in Readers, Release(r), UNCHANGED state
  PROVE  Sighted'
  BY DEF TypeOK, Sighted, Release, Completed

(* A reader marks the engagement signed, or has it filed, when it saw a completion. *)
LEMMA ReaderReal ==
  ASSUME RealInv,
         \/ \E e \in pending, h \in Handlers : Deliver(h, e)
         \/ PollStarts \/ PollTakes
         \/ \E r \in Readers : Observe(r) \/ ReaderFails(r)
  PROVE  RealInv'
<1>. USE DEF RealInv
<1>1. TypeOK' /\ TypeOK
  BY ReaderTypes
<1>2. ASSUME UNCHANGED adobe
      PROVE  Issued' /\ (FiledForReal /\ UNCHANGED job => FiledForReal')
  BY <1>2 DEF Issued, FiledForReal, Completed
<1>3. ASSUME UNCHANGED <<adobe, version>>, status' \in {"SIGNED", "COMPLETE"} => status' = status
      PROVE  SignedOnlyIfCompleted'
  BY <1>3 DEF SignedOnlyIfCompleted
<1>4. ASSUME NEW h \in Handlers, NEW e \in pending, Deliver(h, e)
      PROVE  RealInv'
  <2>1. Sighted'
    BY <1>1, <1>4 DEF Deliver, Sighted, TypeOK, Readers, Completed
  <2>. QED  BY <1>1, <1>2, <1>3, <1>4, <2>1 DEF Deliver
<1>5. CASE PollStarts
  <2>1. Sighted'
    BY <1>5 DEF PollStarts, Sighted, Completed
  <2>. QED  BY <1>1, <1>2, <1>3, <1>5, <2>1 DEF PollStarts
<1>6. CASE PollTakes
  <2>1. Sighted'
    BY <1>1, <1>6 DEF PollTakes, Sighted, TypeOK, Readers, Completed
  <2>. QED  BY <1>1, <1>2, <1>3, <1>6, <2>1 DEF PollTakes
<1>7. ASSUME NEW r \in Readers, ReadAgreement(r)
      PROVE  RealInv'
  <2>1. Sighted'
    BY <1>1, <1>7 DEF ReadAgreement, Sighted, TypeOK, Completed
  <2>. QED  BY <1>1, <1>2, <1>3, <1>7, <2>1 DEF ReadAgreement
<1>8. ASSUME NEW r \in Readers, ApplyToRow(r)
      PROVE  RealInv'
  <2>1. Sighted'
    <3>1. CASE doing' = [doing EXCEPT ![r] = "applied"] /\ UNCHANGED <<subject, seen>>
      BY <1>1, <1>8, <3>1 DEF ApplyToRow, Sighted, TypeOK, Completed
    <3>2. CASE Throw(r)
      BY <1>1, <1>8, <3>2, ReleaseSighted DEF ApplyToRow, Throw
    <3>. QED  BY <1>8, <3>1, <3>2 DEF ApplyToRow
  <2>. QED  BY <1>1, <1>2, <1>3, <1>8, <2>1 DEF ApplyToRow
<1>9. ASSUME NEW r \in Readers, ApplyToEngagement(r)
      PROVE  RealInv'
  <2>1. Sighted'
    <3>1. CASE doing' = [doing EXCEPT ![r] = "moved"] /\ UNCHANGED <<subject, seen>>
      BY <1>1, <1>9, <3>1 DEF ApplyToEngagement, Sighted, TypeOK, Completed
    <3>2. CASE Throw(r)
      BY <1>1, <1>9, <3>2, ReleaseSighted DEF ApplyToEngagement, Throw
    <3>. QED  BY <1>9, <3>1, <3>2 DEF ApplyToEngagement
  <2>2. SignedOnlyIfCompleted'
    <3>1. CASE seen[r] = "COMPLETED"
      <4>1. subject[r] \in Agreements /\ Completed(subject[r])
        BY <1>1, <1>9, <3>1 DEF ApplyToEngagement, Sighted, TypeOK
      <4>. QED  BY <1>9, <4>1 DEF ApplyToEngagement, SignedOnlyIfCompleted, Completed
    <3>2. CASE seen[r] # "COMPLETED"
      <4>1. EngagementStatusFor(seen[r]) \in {"SIGNED", "COMPLETE"} => EngagementStatusFor(seen[r]) = status
        BY <3>2 DEF EngagementStatusFor
      <4>. QED  BY <1>3, <1>9, <4>1 DEF ApplyToEngagement
    <3>. QED  BY <3>1, <3>2
  <2>. QED  BY <1>1, <1>2, <1>9, <2>1, <2>2 DEF ApplyToEngagement
<1>10. ASSUME NEW r \in Readers, Conclude(r)
       PROVE  RealInv'
  <2>1. Sighted'
    BY <1>1, <1>10, ReleaseSighted DEF Conclude
  <2>2. FiledForReal'
    <3>1. subject[r] \in Agreements /\ (seen[r] = "COMPLETED" => Completed(subject[r]))
      BY <1>1, <1>10 DEF Conclude, Sighted, TypeOK
    <3>. QED  BY <1>1, <1>10, <3>1 DEF Conclude, FiledForReal, TypeOK, Completed
  <2>. QED  BY <1>1, <1>2, <1>3, <1>10, <2>1, <2>2 DEF Conclude
<1>11. ASSUME NEW r \in Readers, ReaderFails(r)
       PROVE  RealInv'
  <2>1. Sighted'
    BY <1>1, <1>11, ReleaseSighted DEF ReaderFails, Throw
  <2>. QED  BY <1>1, <1>2, <1>3, <1>11, <2>1 DEF ReaderFails
<1>. QED  BY <1>4, <1>5, <1>6, <1>7, <1>8, <1>9, <1>10, <1>11 DEF Observe

(* The filing job marks signed what it was queued for, which is completed. *)
LEMMA FilingReal ==
  ASSUME RealInv, NEW a \in Agreements,
         File(a) \/ FilingFails(a) \/ RetryFiling(a) \/ PurgeFiling(a)
  PROVE  RealInv'
<1>. USE DEF RealInv
<1>1. TypeOK'
  BY FilingTypes
<1>2. /\ UNCHANGED <<adobe, readers>>
      /\ job[a] # "none"
      /\ \E j \in Jobs : job' = [job EXCEPT ![a] = j]
  BY DEF File, Upload, RecordFiling, MarkVersionSigned, Complete, FilingFails, RetryFiling,
         PurgeFiling, Jobs
<1>3. Completed(a)
  BY <1>2 DEF FiledForReal
<1>4. Issued' /\ Sighted'
  BY <1>2 DEF Issued, Sighted, Completed
<1>5. FiledForReal'
  BY <1>2, <1>3 DEF FiledForReal, TypeOK, Completed
<1>6. SignedOnlyIfCompleted'
  BY <1>2, <1>3 DEF SignedOnlyIfCompleted, Completed
<1>. QED  BY <1>1, <1>4, <1>5, <1>6

(* The engagement reads as signed, or its letter does, only when the client completed *)
(* an agreement at Adobe: whatever fails, crashes, is lost, doubled or comes late.   *)
THEOREM SignatureIsReal == Spec => []SignedOnlyIfCompleted
<1>1. Init => RealInv
  <2>. SUFFICES ASSUME Init PROVE RealInv
    OBVIOUS
  <2>1. TypeOK
    BY TypeInit
  <2>2. Issued /\ Sighted /\ FiledForReal /\ SignedOnlyIfCompleted
    BY DEF Init, Issued, Sighted, FiledForReal, SignedOnlyIfCompleted
  <2>. QED  BY <2>1, <2>2 DEF RealInv
<1>2. RealInv /\ [Next]_vars => RealInv'
  <2>. SUFFICES ASSUME RealInv, [Next]_vars PROVE RealInv'
    OBVIOUS
  <2>1. CASE UNCHANGED vars
    BY <2>1 DEF vars, RealInv, TypeOK, Issued, Sighted, FiledForReal, SignedOnlyIfCompleted, Completed
  <2>. QED
    BY <2>1, SenderReal, OutsideReal, ReaderReal, FilingReal DEF Next
<1>3. RealInv => SignedOnlyIfCompleted
  BY DEF RealInv
<1>. QED  BY <1>1, <1>2, <1>3, PTL DEF Spec

(***************************************************************************)
(* With one request sending at a time, no answer of Adobe's lost and no    *)
(* statement failing, one approved version makes one agreement, whatever   *)
(* crashes and refused calls come between.  What does it is not the key,   *)
(* which every attempt changes, but the reservation: an agreement exists   *)
(* only under a CREATED row, the index admits one such row, and only the   *)
(* statement that takes the version out of APPROVED moves it on.           *)
(***************************************************************************)
OneSender ==
  /\ \A s, t \in Senders : s = t
  /\ Failures \cap {"lost_answer", "database"} = {}

AtMostOne == \A a, b \in Agreements : madeFor[a] # 0 /\ madeFor[b] # 0 => a = b

(* Between the gate and the record the version is still the approved one. *)
GatedIsApproved ==
  \A s \in Senders :
    at[s] \in {"gated", "counted", "found", "clear", "sending", "reserved", "created"}
      => version = "APPROVED"

(* Until the version goes out, no report can have been applied. *)
NothingReported ==
  /\ \A n \in Attempts :
       rowAgreement[n] = NoAgreement /\ rowStatus[n] \in {"NONE", "CREATED", "FAILED"}
  /\ \A r \in Readers : doing[r] \notin {"applied", "moved"}
  /\ \A a \in Agreements : job[a] = "none"

RowsInOrder == \E k \in 0 .. MaxAttempts : Rows = 1 .. k

(* One row is reserved, and what Adobe has issued was issued under it. *)
OneReservation ==
  /\ \A n, m \in Attempts : rowStatus[n] = "CREATED" /\ rowStatus[m] = "CREATED" => n = m
  /\ \A a \in Agreements : madeFor[a] # 0 => rowStatus[madeFor[a]] = "CREATED"

(* Where a sender of the approved version stands. *)
Standing ==
  \A s \in Senders :
    /\ at[s] \notin {"found", "recorded"}
    /\ at[s] \in {"counted", "clear", "sending"} => attempt[s] = NextAttempt
    /\ at[s] \in {"reserved", "created", "failed"} => rowStatus[attempt[s]] = "CREATED"
    /\ at[s] \in {"reserved", "failed"} => \A a \in Agreements : madeFor[a] = 0

Unsent == NothingReported /\ RowsInOrder /\ OneReservation /\ Standing

OnceInv == TypeOK /\ AtMostOne /\ GatedIsApproved /\ (version = "APPROVED" => Unsent)

(* Rows in order are counted by the last of them. *)
LEMMA NextIsFree ==
  ASSUME RowsInOrder
  PROVE  \E k \in 0 .. MaxAttempts : Rows = 1 .. k /\ NextAttempt = k + 1
<1>1. PICK k \in 0 .. MaxAttempts : Rows = 1 .. k
  BY DEF RowsInOrder
<1>2. k \in Nat
  BY SigningAssumption
<1>3. Cardinality(Rows) = k
  BY <1>1, <1>2, FS_Interval
<1>. QED  BY <1>1, <1>3 DEF NextAttempt

(* Whoever leaves the senders and Adobe's ids alone, and while the version is approved *)
(* the rows and the jobs too, keeps the invariant.                                    *)
LEMMA OnceKept ==
  ASSUME OnceInv, TypeOK', UNCHANGED <<senders, madeFor>>,
         version # "APPROVED" => version' # "APPROVED",
         version = "APPROVED" =>
           /\ UNCHANGED <<version, rowStatus, rowAgreement, job>>
           /\ \A r \in Readers : doing'[r] \notin {"applied", "moved"}
  PROVE  OnceInv'
<1>. USE DEF OnceInv
<1>1. AtMostOne'
  BY DEF AtMostOne
<1>2. GatedIsApproved'
  BY DEF GatedIsApproved
<1>3. ASSUME version' = "APPROVED"
      PROVE  Unsent'
  <2>1. Unsent /\ UNCHANGED <<version, rowStatus, rowAgreement, job>>
    BY <1>3
  <2>2. NothingReported'
    BY <1>3, <2>1 DEF Unsent, NothingReported
  <2>3. RowsInOrder' /\ OneReservation' /\ Standing'
    BY <2>1 DEF Unsent, RowsInOrder, OneReservation, Standing, NextAttempt, Rows
  <2>. QED  BY <2>2, <2>3 DEF Unsent
<1>. QED  BY <1>1, <1>2, <1>3

LEMMA OnceInit == Init => OnceInv
<1>. SUFFICES ASSUME Init PROVE OnceInv
  OBVIOUS
<1>1. Rows = 1 .. 0
  BY DEF Init, Rows
<1>2. RowsInOrder
  BY <1>1, SigningAssumption DEF RowsInOrder
<1>3. AtMostOne /\ GatedIsApproved
  BY DEF Init, AtMostOne, GatedIsApproved
<1>4. NothingReported /\ OneReservation /\ Standing
  BY DEF Init, NothingReported, OneReservation, Standing
<1>. QED  BY <1>2, <1>3, <1>4, TypeInit DEF OnceInv, Unsent

(* People and Adobe move neither rows nor senders. *)
LEMMA OutsideOnce ==
  ASSUME OnceInv,
         \/ MarkReadyToSend \/ RequestChanges \/ ConnectKarbon \/ OutageEnds
         \/ \E a \in Agreements : AdobeMoves(a)
         \/ \E e \in pending : WebhookLost(e) \/ Duplicate(e)
  PROVE  OnceInv'
<1>1. TypeOK'
  BY OutsideTypes DEF OnceInv
<1>2. UNCHANGED <<senders, madeFor, version, rowStatus, rowAgreement, job, doing>>
  BY DEF MarkReadyToSend, RequestChanges, ConnectKarbon, OutageEnds, AdobeMoves, WebhookLost, Duplicate
<1>3. version = "APPROVED" => \A r \in Readers : doing[r] \notin {"applied", "moved"}
  BY DEF OnceInv, Unsent, NothingReported
<1>. QED  BY <1>1, <1>2, <1>3, OnceKept

(* A reader finds no row to write to before the version has gone out. *)
LEMMA ReaderOnce ==
  ASSUME OnceInv,
         \/ \E e \in pending, h \in Handlers : Deliver(h, e)
         \/ PollStarts \/ PollTakes
         \/ \E r \in Readers : Observe(r) \/ ReaderFails(r)
  PROVE  OnceInv'
<1>1. TypeOK /\ TypeOK'
  BY ReaderTypes DEF OnceInv
<1>2. UNCHANGED <<senders, madeFor, version, rowAgreement>>
  <2>1. CASE (\E e \in pending, h \in Handlers : Deliver(h, e)) \/ PollStarts \/ PollTakes
    BY <2>1 DEF Deliver, PollStarts, PollTakes
  <2>2. ASSUME NEW r \in Readers, ReadAgreement(r) \/ Conclude(r) \/ ReaderFails(r)
        PROVE  UNCHANGED <<senders, madeFor, version, rowAgreement>>
    BY <2>2 DEF ReadAgreement, Conclude, ReaderFails
  <2>3. ASSUME NEW r \in Readers, ApplyToRow(r) \/ ApplyToEngagement(r)
        PROVE  UNCHANGED <<senders, madeFor, version, rowAgreement>>
    BY <2>3 DEF ApplyToRow, ApplyToEngagement
  <2>. QED  BY <2>1, <2>2, <2>3 DEF Observe
<1>3. ASSUME version = "APPROVED"
      PROVE  /\ UNCHANGED <<rowStatus, job>>
             /\ \A r \in Readers : doing'[r] \notin {"applied", "moved"}
  <2>1. NothingReported
    BY <1>3 DEF OnceInv, Unsent
  <2>. USE <1>1, <2>1 DEF NothingReported, TypeOK
  <2>2. ASSUME NEW e \in pending, NEW h \in Handlers, Deliver(h, e)
        PROVE  /\ UNCHANGED <<rowStatus, job>>
               /\ \A r \in Readers : doing'[r] \notin {"applied", "moved"}
    BY <2>2 DEF Deliver, Readers
  <2>3. CASE PollStarts \/ PollTakes
    BY <2>3 DEF PollStarts, PollTakes, Readers
  <2>4. ASSUME NEW r \in Readers, ReadAgreement(r)
        PROVE  /\ UNCHANGED <<rowStatus, job>>
               /\ \A q \in Readers : doing'[q] \notin {"applied", "moved"}
    BY <2>4 DEF ReadAgreement
  <2>5. ASSUME NEW r \in Readers, ApplyToRow(r)
        PROVE  /\ UNCHANGED <<rowStatus, job>>
               /\ \A q \in Readers : doing'[q] \notin {"applied", "moved"}
    <3>1. RowsOf(subject[r]) = {}
      BY <2>5, SigningAssumption DEF ApplyToRow, RowsOf
    <3>2. Throw(r) /\ UNCHANGED <<rowStatus, job>>
      BY <2>5, <3>1 DEF ApplyToRow
    <3>. QED  BY <3>2 DEF Throw, Release
  <2>6. ASSUME NEW r \in Readers, ReaderFails(r)
        PROVE  /\ UNCHANGED <<rowStatus, job>>
               /\ \A q \in Readers : doing'[q] \notin {"applied", "moved"}
    BY <2>6 DEF ReaderFails, Throw, Release
  <2>7. \A r \in Readers : ~ApplyToEngagement(r) /\ ~Conclude(r)
    BY DEF ApplyToEngagement, Conclude
  <2>. QED  BY <2>2, <2>3, <2>4, <2>5, <2>6, <2>7 DEF Observe
<1>. QED  BY <1>1, <1>2, <1>3, OnceKept

(* A letter is filed only after its version has gone out. *)
LEMMA FilingOnce ==
  ASSUME OnceInv, NEW a \in Agreements,
         File(a) \/ FilingFails(a) \/ RetryFiling(a) \/ PurgeFiling(a)
  PROVE  OnceInv'
<1>1. TypeOK'
  BY FilingTypes DEF OnceInv
<1>2. UNCHANGED <<senders, madeFor>> /\ job[a] # "none" /\ (version' = version \/ version' = "SIGNED")
  BY DEF File, Upload, RecordFiling, MarkVersionSigned, Complete, FilingFails, RetryFiling,
         PurgeFiling
<1>3. version # "APPROVED"
  BY <1>2 DEF OnceInv, Unsent, NothingReported
<1>. QED  BY <1>1, <1>2, <1>3, OnceKept

(* The one sender at work, of an approved version that has not gone out. *)
LEMMA SenderOnce ==
  ASSUME OneSender, OnceInv, NEW s \in Senders,
         PassGate(s) \/ Send(s) \/ LoseAnswer(s) \/ SenderCrash(s)
  PROVE  OnceInv'
<1>1. TypeOK /\ TypeOK'
  BY SenderTypes DEF OnceInv
<1>2. Senders = {s}
  BY DEF OneSender
<1>3. ~MayFail("lost_answer") /\ ~MayFail("database")
  BY DEF OneSender, MayFail
<1>4. at[s] \in {"gated", "counted", "found", "clear", "sending", "reserved", "created"}
        => version = "APPROVED"
  BY DEF OnceInv, GatedIsApproved
<1>5. version = "APPROVED" => NothingReported /\ RowsInOrder /\ OneReservation /\ Standing
  BY DEF OnceInv, Unsent
(* Steps that write no row and issue nothing: only the place and the count move. *)
<1>6. ASSUME UNCHANGED <<version, rowStatus, rowAgreement, madeFor, doing, job>>,
             at'[s] \notin {"found", "recorded", "reserved", "created"},
             at'[s] \in {"gated", "counted", "clear", "sending"} => version = "APPROVED",
             at'[s] \in {"counted", "clear", "sending"} => attempt'[s] = NextAttempt,
             at'[s] = "failed"
               => version # "APPROVED" \/ (at[s] = "reserved" /\ attempt' = attempt)
      PROVE  OnceInv'
  <2>2. AtMostOne' /\ GatedIsApproved'
    BY <1>2, <1>6 DEF OnceInv, AtMostOne, GatedIsApproved
  <2>3. ASSUME version' = "APPROVED"
        PROVE  Unsent'
    <3>1. NothingReported' /\ RowsInOrder' /\ OneReservation'
      BY <1>5, <1>6, <2>3 DEF NothingReported, RowsInOrder, OneReservation, Rows
    <3>2. NextAttempt' = NextAttempt
      BY <1>6 DEF NextAttempt, Rows
    <3>3. Standing'
      BY <1>2, <1>5, <1>6, <2>3, <3>2 DEF Standing
    <3>. QED  BY <3>1, <3>3 DEF Unsent
  <2>. QED  BY <1>1, <2>2, <2>3 DEF OnceInv
<1>. USE DEF Goto
<1>0. \A p : [at EXCEPT ![s] = p][s] = p
  BY <1>1 DEF TypeOK
<1>7. CASE PassGate(s)
  BY <1>0, <1>6, <1>7 DEF PassGate, SendGate
<1>8. CASE Count(s)
  <2>1. attempt'[s] = NextAttempt
    BY <1>1, <1>8 DEF Count, TypeOK
  <2>. QED  BY <1>0, <1>4, <1>6, <1>8, <2>1 DEF Count
<1>9. CASE Deduplicate(s)
  BY <1>0, <1>6, <1>9 DEF Deduplicate
<1>10. CASE AskAdobe(s)
  <2>1. version = "APPROVED" /\ attempt[s] = NextAttempt
    BY <1>2, <1>4, <1>5, <1>10 DEF AskAdobe, Standing
  <2>2. attempt[s] \notin Rows
    <3>1. PICK k \in 0 .. MaxAttempts : Rows = 1 .. k /\ NextAttempt = k + 1
      BY <1>5, <2>1, NextIsFree
    <3>. QED  BY <2>1, <3>1
  <2>3. rowStatus[attempt[s]] = "NONE"
    BY <1>1, <2>2 DEF Rows, TypeOK
  <2>4. \A a \in Agreements : madeFor[a] # attempt[s]
    <3>1. attempt[s] # 0
      BY <1>1, SigningAssumption DEF TypeOK, Attempts
    <3>. QED  BY <1>5, <2>1, <2>3, <3>1 DEF OneReservation
  <2>. QED  BY <1>0, <1>6, <1>10, <2>1, <2>4 DEF AskAdobe
<1>11. CASE Adopt(s)
  BY <1>4, <1>5, <1>11 DEF Adopt, Standing
<1>12. CASE StartSending(s)
  <2>1. version = "APPROVED" /\ attempt[s] = NextAttempt
    BY <1>2, <1>4, <1>5, <1>12 DEF StartSending, Standing
  <2>. QED  BY <1>0, <1>6, <1>12, <2>1 DEF StartSending
<1>13. CASE CreateFails(s)
  BY <1>0, <1>6, <1>13 DEF CreateFails
<1>14. CASE LoseAnswer(s)
  BY <1>3, <1>14 DEF LoseAnswer
<1>15. CASE MarkSent(s)
  <2>1. version # "APPROVED"
    BY <1>5, <1>15 DEF MarkSent, Standing
  <2>. QED  BY <1>0, <1>6, <1>15, <2>1 DEF MarkSent
<1>16. CASE Restore(s)
  BY <1>0, <1>6, <1>16 DEF Restore
<1>17. CASE SenderCrash(s)
  BY <1>0, <1>6, <1>17 DEF SenderCrash
(* The reservation: allowed only when nothing is reserved yet, hence nothing issued. *)
<1>18. CASE Reserve(s)
  <2>1. version = "APPROVED" /\ attempt[s] = NextAttempt
    BY <1>2, <1>4, <1>5, <1>18 DEF Reserve, Standing
  <2>2. PICK k \in 0 .. MaxAttempts : Rows = 1 .. k /\ NextAttempt = k + 1
    BY <1>5, <2>1, NextIsFree
  <2>3. attempt[s] \in Attempts \ Rows
    BY <1>1, <2>1, <2>2 DEF TypeOK
  <2>4. CASE IndexAllows(attempt[s], "CREATED") /\ at' = [at EXCEPT ![s] = "reserved"]
    <3>1. rowStatus' = [rowStatus EXCEPT ![attempt[s]] = "CREATED"]
      BY <1>0, <1>18, <2>3, <2>4 DEF Reserve
    <3>2. \A n \in Attempts : rowStatus[n] # "CREATED"
      BY <2>3, <2>4 DEF IndexAllows, Live, Rows
    <3>3. \A a \in Agreements : madeFor[a] = 0
      BY <1>1, <1>5, <2>1, <3>2 DEF OneReservation, TypeOK
    <3>4. NothingReported'
      BY <1>1, <1>5, <1>18, <2>1, <3>1 DEF Reserve, NothingReported, TypeOK
    <3>5. RowsInOrder'
      <4>1. Rows' = Rows \union {attempt[s]}
        BY <1>1, <2>3, <3>1 DEF Rows, TypeOK
      <4>2. k + 1 \in 0 .. MaxAttempts /\ Rows' = 1 .. (k + 1)
        BY <2>1, <2>2, <2>3, <4>1, SigningAssumption DEF Attempts
      <4>. QED  BY <4>2 DEF RowsInOrder
    <3>6. OneReservation'
      BY <1>1, <1>18, <3>1, <3>2, <3>3 DEF Reserve, OneReservation, TypeOK
    <3>7. Standing'
      BY <1>1, <1>2, <1>18, <2>3, <2>4, <3>1, <3>3 DEF Reserve, Standing, TypeOK
    <3>8. AtMostOne' /\ GatedIsApproved'
      BY <1>18, <2>1, <3>3 DEF Reserve, AtMostOne, GatedIsApproved
    <3>. QED  BY <1>1, <3>4, <3>5, <3>6, <3>7, <3>8 DEF OnceInv, Unsent
  <2>5. CASE at' = [at EXCEPT ![s] = "rejected"] /\ UNCHANGED rowStatus
    BY <1>0, <1>6, <1>18, <2>5 DEF Reserve
  <2>. QED  BY <1>18, <2>3, <2>4, <2>5 DEF Reserve
(* The one agreement, under the one reservation. *)
<1>19. CASE CreateAgreement(s)
  <2>1. version = "APPROVED" /\ rowStatus[attempt[s]] = "CREATED"
        /\ \A a \in Agreements : madeFor[a] = 0
    BY <1>4, <1>5, <1>19 DEF CreateAgreement, Standing
  <2>2. PICK a \in Agreements : madeFor' = [madeFor EXCEPT ![a] = attempt[s]]
    BY <1>19 DEF CreateAgreement, Issue
  <2>3. \A b \in Agreements \ {a} : madeFor'[b] = 0
    BY <2>1, <2>2
  <2>4. AtMostOne' /\ GatedIsApproved'
    BY <1>19, <2>1, <2>3 DEF CreateAgreement, AtMostOne, GatedIsApproved
  <2>5. NothingReported' /\ RowsInOrder'
    BY <1>5, <1>19, <2>1 DEF CreateAgreement, NothingReported, RowsInOrder, Rows
  <2>6. OneReservation'
    BY <1>1, <1>5, <1>19, <2>1, <2>2, <2>3 DEF CreateAgreement, OneReservation, TypeOK
  <2>7. Standing'
    BY <1>1, <1>2, <1>19, <2>1 DEF CreateAgreement, Standing, TypeOK
  <2>. QED  BY <1>1, <2>4, <2>5, <2>6, <2>7 DEF OnceInv, Unsent
(* The index lets the reserved row go live, so the version goes out with it. *)
<1>20. CASE Record(s)
  <2>1. version = "APPROVED" /\ rowStatus[attempt[s]] = "CREATED" /\ attempt[s] \in Attempts
    BY <1>1, <1>4, <1>5, <1>20 DEF Record, Standing, TypeOK
  <2>2. \A m \in Rows : m # attempt[s] => rowStatus[m] = "FAILED"
    BY <1>5, <2>1 DEF NothingReported, OneReservation, Rows
  <2>3. IndexAllows(attempt[s], "OUT_FOR_SIGNATURE")
    BY <2>2 DEF IndexAllows, Live
  <2>4. version' = "SENT_FOR_SIGNATURE" /\ at' = [at EXCEPT ![s] = "recorded"] /\ madeFor' = madeFor
    BY <1>3, <1>20, <2>3 DEF Record
  <2>5. AtMostOne' /\ GatedIsApproved'
    BY <1>1, <1>2, <2>4 DEF OnceInv, AtMostOne, GatedIsApproved, TypeOK
  <2>. QED  BY <1>1, <2>4, <2>5 DEF OnceInv
(* What failed before the record was never issued: its row may be given up. *)
<1>21. CASE MarkFailed(s)
  <2>1. AtMostOne' /\ GatedIsApproved'
    BY <1>1, <1>2, <1>21 DEF MarkFailed, OnceInv, AtMostOne, GatedIsApproved, TypeOK
  <2>2. ASSUME version' = "APPROVED"
        PROVE  Unsent'
    <3>1. /\ version = "APPROVED" /\ rowStatus[attempt[s]] = "CREATED"
          /\ \A a \in Agreements : madeFor[a] = 0
      BY <1>5, <1>21, <2>2 DEF MarkFailed, Standing
    <3>2. rowStatus' = [rowStatus EXCEPT ![attempt[s]] = "FAILED"] /\ attempt[s] \in Attempts
      BY <1>1, <1>21 DEF MarkFailed, TypeOK
    <3>3. NothingReported' /\ OneReservation'
      BY <1>1, <1>5, <1>21, <3>1, <3>2 DEF MarkFailed, NothingReported, OneReservation, TypeOK
    <3>4. Rows' = Rows
      BY <1>1, <3>1, <3>2 DEF Rows, TypeOK
    <3>5. RowsInOrder'
      BY <1>5, <3>1, <3>4 DEF RowsInOrder
    <3>6. Standing'
      BY <1>1, <1>2, <1>21 DEF MarkFailed, Standing, TypeOK
    <3>. QED  BY <3>3, <3>5, <3>6 DEF Unsent
  <2>. QED  BY <1>1, <2>1, <2>2 DEF OnceInv
<1>. QED
  BY <1>7, <1>8, <1>9, <1>10, <1>11, <1>12, <1>13, <1>14, <1>15, <1>16, <1>17, <1>18, <1>19,
     <1>20, <1>21 DEF Send

(* All steps together. *)
LEMMA OnceNext == OneSender /\ OnceInv /\ [Next]_vars => OnceInv'
<1>. SUFFICES ASSUME OneSender, OnceInv, [Next]_vars PROVE OnceInv'
  OBVIOUS
<1>1. CASE UNCHANGED vars
  <2>1. TypeOK'
    BY <1>1 DEF vars, OnceInv, TypeOK
  <2>2. UNCHANGED <<senders, madeFor, version, rowStatus, rowAgreement, job, doing>>
    BY <1>1 DEF vars
  <2>3. version = "APPROVED" => \A r \in Readers : doing[r] \notin {"applied", "moved"}
    BY DEF OnceInv, Unsent, NothingReported
  <2>. QED  BY <2>1, <2>2, <2>3, OnceKept
<1>. QED
  BY <1>1, SenderOnce, OutsideOnce, ReaderOnce, FilingOnce DEF Next

(* One request sending at a time, no answer lost, no statement failing: at Adobe there is *)
(* never a second agreement open for the letter.                                         *)
THEOREM NoSecondLetter ==
  ASSUME OneSender
  PROVE  Spec => []OneLiveAgreement
<1>1. Init => OnceInv /\ Issued
  BY OnceInit DEF Init, Issued
<1>2. OnceInv /\ Issued /\ [Next]_vars => (OnceInv /\ Issued)'
  <2>. SUFFICES ASSUME OnceInv, Issued, [Next]_vars PROVE Issued'
    BY OnceNext
  <2>1. TypeOK
    BY DEF OnceInv
  <2>2. \/ UNCHANGED adobe
        \/ \E s \in Senders, a \in Agreements : Issue(s, a)
        \/ \E a \in Agreements : AdobeMoves(a)
    BY AdobeSteps DEF CreateAgreement, LoseAnswer
  <2>. QED  BY <2>1, <2>2, AdobeRemembers
<1>3. OnceInv /\ Issued => OneLiveAgreement
  BY DEF OnceInv, AtMostOne, Issued, OneLiveAgreement, Live
<1>. QED  BY <1>1, <1>2, <1>3, PTL DEF Spec

(* Under the same assumptions an agreement is created only for an approved version, and *)
(* so each version goes out at most once.                                              *)
THEOREM SentOnce ==
  ASSUME OneSender
  PROVE  Spec => SentWhileApproved
<1>1. OnceInv /\ [Next]_vars
        => [\A a \in Agreements : madeFor[a] = 0 /\ madeFor'[a] # 0 => version = "APPROVED"]_vars
  <2>. SUFFICES ASSUME OnceInv, [Next]_vars
                PROVE  \A a \in Agreements : madeFor[a] = 0 /\ madeFor'[a] # 0 => version = "APPROVED"
    OBVIOUS
  <2>1. CASE madeFor' = madeFor
    BY <2>1
  <2>2. CASE \E s \in Senders : CreateAgreement(s) \/ LoseAnswer(s)
    <3>1. \A s \in Senders : ~LoseAnswer(s)
      BY DEF LoseAnswer, MayFail, OneSender
    <3>. QED  BY <2>2, <3>1 DEF CreateAgreement, OnceInv, GatedIsApproved
  <2>. QED  BY <2>1, <2>2, AdobeSteps
<1>. QED  BY <1>1, OnceInit, OnceNext, PTL DEF Spec, SentWhileApproved
=============================================================================
