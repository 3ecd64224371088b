------------------------- MODULE CoverLetter_proofs -------------------------
(***************************************************************************)
(* What holds of module CoverLetter for every number of selections,        *)
(* people, letters, buttons pressed and faults.                            *)
(***************************************************************************)
EXTENDS CoverLetter, WellFoundedInduction, TLAPS

(* Every status this module ever writes is a status of the table. *)
LEMMA StatusesUsed ==
  {"SIGNED", "COMPLETE", "READY_FOR_COVER_LETTER", "COVER_LETTER_GENERATING",
   "COVER_LETTER_REVIEW_REQUIRED", "COVER_LETTER_CHANGES_REQUESTED", "COVER_LETTER_APPROVED",
   "READY_FOR_DELIVERY", "DELIVERED", "NEEDS_ATTENTION"} \subseteq EngagementStatuses
  BY DEF EngagementStatuses, Open

(* A set of versions has a latest, or there is none. *)
LEMMA LatestExists ==
  ASSUME NEW S \in SUBSET Versions
  PROVE  Latest(S) \in S \union {0} /\ \A w \in S : w <= Latest(S)
<1>. DEFINE Room == {MaxVersions - v : v \in S \union {0}}
<1>1. MaxVersions \in Nat /\ S \subseteq 1 .. MaxVersions
  BY CoverLetterAssumption DEF Versions
<1>2. Room \subseteq Nat /\ Room # {}
  BY <1>1
<1>3. PICK least \in Room : \A r \in Room : ~(<<r, least>> \in OpToRel(<, Nat))
  BY <1>2, NatLessThanWellFounded, WFMin
<1>4. \A r \in Room : ~(r < least)
  BY <1>2, <1>3 DEF OpToRel
<1>5. PICK v \in S \union {0} : least = MaxVersions - v
  BY <1>3
<1>6. \A w \in S : w <= v
  <2>. SUFFICES ASSUME NEW w \in S PROVE w <= v
    OBVIOUS
  <2>1. ~(MaxVersions - w < MaxVersions - v)
    BY <1>4, <1>5
  <2>. QED  BY <2>1, <1>1, <1>5
<1>. QED  BY <1>5, <1>6 DEF Latest

(* The tuples that UNCHANGED names. *)
USE DEF letters, counts

(***************************************************************************)
(* Types.                                                                  *)
(***************************************************************************)
Hand == [place : Places, package : Selections, version : 0 .. MaxVersions, stale : SUBSET Selections]

(* A process with nothing in hand but its place. *)
LEMMA IdleTypes ==
  /\ Idle \in Hand
  /\ \A place \in Places, k \in Selections, v \in 0 .. MaxVersions :
       /\ [Idle EXCEPT !.place = place] \in Hand
       /\ [Idle EXCEPT !.place = place, !.package = k, !.version = v] \in Hand
<1>1. 0 \in Selections /\ 0 \in 0 .. MaxVersions /\ "idle" \in Places
  BY CoverLetterAssumption DEF Selections, Places
<1>2. Idle \in Hand
  BY <1>1 DEF Idle, Hand
<1>. QED  BY <1>2 DEF Hand

(* A step of one process changes what that process holds only. *)
LEMMA GotoTypes ==
  ASSUME at \in [Actors -> Hand], NEW p \in Actors, NEW place \in Places, Goto(p, place)
  PROVE  /\ at' \in [Actors -> Hand]
         /\ at'[p].place = place /\ at'[p].version \in {0, at[p].version}
         /\ place \notin {"idle", "returned", "threw"} => at'[p].version = at[p].version
         /\ \A q \in Actors \ {p} : at'[q] = at[q]
<1>1. at[p] \in Hand
  OBVIOUS
<1>2. [Idle EXCEPT !.place = place] \in Hand /\ [at[p] EXCEPT !.place = place] \in Hand
  BY <1>1, IdleTypes DEF Hand
<1>3. PICK hand \in Hand :
         /\ hand \in {[Idle EXCEPT !.place = place], [at[p] EXCEPT !.place = place]}
         /\ place \notin {"idle", "returned", "threw"} => hand = [at[p] EXCEPT !.place = place]
         /\ at' = [at EXCEPT ![p] = hand]
  BY <1>2 DEF Goto
<1>. QED  BY <1>1, <1>3 DEF Idle, Hand

LEMMA TakeTypes ==
  ASSUME at \in [Actors -> Hand], NEW p \in Actors, NEW place \in Places, NEW k \in Selections,
         NEW v \in 0 .. MaxVersions, Take(p, place, k, v)
  PROVE  /\ at' \in [Actors -> Hand]
         /\ at'[p].place = place /\ at'[p].version = v
         /\ \A q \in Actors \ {p} : at'[q] = at[q]
<1>1. [Idle EXCEPT !.place = place, !.package = k, !.version = v] \in Hand
  BY IdleTypes
<1>. QED  BY <1>1 DEF Take, Idle

LEMMA MoveTypes ==
  ASSUME status \in EngagementStatuses, at \in [Actors -> Hand], NEW p \in Actors,
         NEW to \in EngagementStatuses, NEW next \in Places, Move(p, to, next)
  PROVE  /\ status' \in EngagementStatuses
         /\ \E place \in {next, "threw", "idle"} : Goto(p, place)
         /\ at' \in [Actors -> Hand]
<1>1. /\ status' \in EngagementStatuses
      /\ \E place \in {next, "threw", "idle"} : Goto(p, place)
  BY DEF Move, Threw
<1>2. {next, "threw", "idle"} \subseteq Places
  BY DEF Places
<1>. QED  BY <1>1, <1>2, GotoTypes

LEMMA ActorsAre ==
  /\ Jobs \subseteq Actors /\ People \subseteq Actors /\ FilingJob \in Jobs
  /\ Generators \subseteq Jobs /\ Deliverers \subseteq Jobs
  /\ \A p \in People : p[2] \in Users
  /\ \A j \in Deliverers : j[2] \in Selections
  /\ \A s \in Selections : AutoJob(s) \in Jobs /\ DeliveryJob(s) \in Jobs
  BY DEF Actors, Jobs, People, Generators, Deliverers, DeliveryJob

LEMMA TypeInit == Init => TypeOK
<1>. SUFFICES ASSUME Init PROVE TypeOK
  OBVIOUS
<1>1. at \in [Actors -> Hand]
  BY IdleTypes DEF Init
<1>2. /\ version \in [Versions -> [package : Selections, status : {"NONE", "DRAFT", "APPROVED", "STALE"},
                                   author : Authors]]
      /\ package \in [Selections -> PackageStatuses]
  BY CoverLetterAssumption DEF Init, NoVersion, Authors, PackageStatuses, Selections
<1>3. job \in [Jobs -> {"none", "pending", "running", "succeeded", "dead_letter"}]
  BY DEF Init
<1>. QED  BY <1>1, <1>2, <1>3, StatusesUsed, CoverLetterAssumption DEF Init, TypeOK, Hand

(* The filing job, and whoever asks for the letter to be started. *)
LEMMA BeginTypes ==
  ASSUME TypeOK, NEW p \in Actors, Beginning(p) \/ FileSigned(p)
  PROVE  TypeOK'
<1>. USE DEF TypeOK
<1>0. at \in [Actors -> Hand]
  BY DEF Hand
<1>1. {"weighing", "weighing_again", "returned", "idle", "readying", "queueing", "asking"} \subseteq Places
  BY DEF Places
<1>2. Returned(p) \in {"returned", "idle"}
  BY DEF Returned
<1>3. CASE AskStatus(p) \/ Weigh(p)
  <2>1. PICK place \in Places : Goto(p, place)
    BY <1>1, <1>2, <1>3 DEF AskStatus, Weigh
  <2>2. at' \in [Actors -> Hand]
    BY <1>0, <2>1, GotoTypes
  <2>. QED  BY <1>3, <2>2 DEF AskStatus, Weigh, Hand
<1>4. CASE Ready(p)
  <2>1. status' \in EngagementStatuses /\ at' \in [Actors -> Hand]
    BY <1>0, <1>1, <1>4, StatusesUsed, MoveTypes DEF Ready
  <2>. QED  BY <1>4, <2>1 DEF Ready, Hand
<1>5. CASE QueueLetter(p)
  <2>1. at' \in [Actors -> Hand]
    BY <1>0, <1>1, <1>2, <1>5, GotoTypes DEF QueueLetter
  <2>2. job' \in [Jobs -> {"none", "pending", "running", "succeeded", "dead_letter"}]
    BY <1>5, ActorsAre DEF QueueLetter, Enqueue
  <2>. QED  BY <1>5, <2>1, <2>2 DEF QueueLetter, Hand
<1>6. CASE FileSigned(p)
  <2>1. Goto(p, "asking") => at' \in [Actors -> Hand]
    BY <1>0, <1>1, GotoTypes
  <2>2. status' \in EngagementStatuses /\ at' \in [Actors -> Hand]
    BY <1>0, <1>1, <1>6, <2>1, StatusesUsed, MoveTypes DEF FileSigned
  <2>. QED  BY <1>6, <2>2 DEF FileSigned, Hand
<1>. QED  BY <1>3, <1>4, <1>5, <1>6 DEF Beginning

(* The worker, and whatever ends a process. *)
LEMMA WorkerTypes ==
  ASSUME TypeOK,
         (\E j \in Jobs : Running(j)) \/ (\E p \in Actors : Break(p))
  PROVE  TypeOK'
<1>. USE DEF TypeOK
<1>0. at \in [Actors -> Hand]
  BY DEF Hand
<1>1. {"idle", "surfacing", "filing", "fetching", "gating", "threw"} \subseteq Places
  BY DEF Places
<1>2. ASSUME NEW j \in Jobs, Start(j) \/ Return(j) \/ Fail(j) PROVE TypeOK'
  <2>1. PICK place \in {"idle", "surfacing", "filing", "fetching", "gating"} : Goto(j, place)
    BY <1>2 DEF Start, Return, Fail, FirstPlace
  <2>2. at' \in [Actors -> Hand]
    BY <1>0, <1>1, <2>1, GotoTypes, ActorsAre
  <2>3. job' \in [Jobs -> {"none", "pending", "running", "succeeded", "dead_letter"}]
    BY <1>2 DEF Start, Return, Fail
  <2>. QED  BY <1>2, <2>2, <2>3 DEF Start, Return, Fail, Hand
<1>3. ASSUME NEW j \in Jobs, Surface(j) PROVE TypeOK'
  <2>1. status' \in EngagementStatuses /\ at' \in [Actors -> Hand]
    BY <1>0, <1>1, <1>3, ActorsAre, StatusesUsed, MoveTypes DEF Surface
  <2>. QED  BY <1>3, <2>1 DEF Surface, Hand
<1>4. ASSUME NEW p \in Actors, Break(p) PROVE TypeOK'
  <2>1. at' \in [Actors -> Hand]
    BY <1>0, <1>1, <1>4, GotoTypes DEF Break
  <2>2. job' \in [Jobs -> {"none", "pending", "running", "succeeded", "dead_letter"}]
    BY <1>4 DEF Break
  <2>3. faults' \in 0 .. MaxFaults
    BY <1>4, CoverLetterAssumption DEF Break
  <2>. QED  BY <1>4, <2>1, <2>2, <2>3 DEF Break, Hand
<1>. QED  BY <1>2, <1>3, <1>4 DEF Running

(* Whoever is about a letter on a page has one in hand. *)
Opened ==
  {"detecting", "marking", "reopening", "checking", "committing", "approving", "asking_ready",
   "marking_ready", "announcing_ready", "queueing_delivery", "rewriting", "unapproving"}
Made == {v \in Versions : version[v].status # "NONE"}
HandInv == \A p \in People : at[p].place \in Opened => at[p].version \in Made

Row == [package : Selections, status : {"NONE", "DRAFT", "APPROVED", "STALE"}, author : Authors]

(* A generation: what it renders is a row after the latest. *)
LEMMA GenerateTypes ==
  ASSUME TypeOK, NEW j \in Generators, Generating(j)
  PROVE  TypeOK'
<1>. USE DEF TypeOK
<1>0. at \in [Actors -> Hand] /\ j \in Actors
  BY ActorsAre DEF Hand
<1>1. {"gating", "entering", "threw", "reading", "opening", "rendering", "rendered", "announcing",
       "returned"} \subseteq Places
  BY DEF Places
<1>2. About(j) \in Selections
  BY <1>0 DEF About, Hand
<1>3. CASE PassGate(j)
  <2>1. at' \in [Actors -> Hand]
    BY <1>0, <1>1, <1>3, GotoTypes DEF PassGate
  <2>. QED  BY <1>3, <2>1 DEF PassGate, Hand
<1>4. CASE Enter(j) \/ AnnounceLetter(j)
  <2>1. status' \in EngagementStatuses /\ at' \in [Actors -> Hand]
    BY <1>0, <1>1, <1>4, StatusesUsed, MoveTypes DEF Enter, AnnounceLetter
  <2>. QED  BY <1>4, <2>1 DEF Enter, AnnounceLetter, Hand
<1>5. CASE ReadSources(j)
  <2>1. at' \in [Actors -> Hand]
    BY <1>0, <1>1, <1>5, TakeTypes, CoverLetterAssumption DEF ReadSources
  <2>. QED  BY <1>5, <2>1 DEF ReadSources, Hand
<1>6. CASE OpenPackage(j) \/ ClosePackage(j)
  <2>1. at' \in [Actors -> Hand]
    BY <1>0, <1>1, <1>6, GotoTypes DEF OpenPackage, ClosePackage
  <2>2. package' \in [Selections -> PackageStatuses]
    BY <1>2, <1>6 DEF OpenPackage, ClosePackage, PackageStatuses
  <2>. QED  BY <1>6, <2>1, <2>2 DEF OpenPackage, ClosePackage, Hand
<1>7. CASE Render(j)
  <2>1. at' \in [Actors -> Hand]
    BY <1>0, <1>1, <1>7, GotoTypes DEF Render
  <2>. DEFINE author == IF Kind(j) = "press" THEN j[2] ELSE System
              row == [package |-> About(j), status |-> "DRAFT", author |-> author]
  <2>2. author \in Authors
    BY DEF Generators, AutoJob, Kind, Authors
  <2>3. row \in Row
    BY <1>2, <2>2 DEF Row
  <2>4. version \in [Versions -> Row]
    BY DEF Row
  <2>5. version' = [version EXCEPT ![Latest({v \in Versions : version[v].status # "NONE"}) + 1] = row]
    BY <1>7 DEF Render
  <2>6. version' \in [Versions -> Row]
    BY <2>3, <2>4, <2>5
  <2>. QED  BY <1>7, <2>1, <2>6 DEF Render, Hand, Row
<1>. QED  BY <1>3, <1>4, <1>5, <1>6, <1>7 DEF Generating

(* The letter that a delivery files is a row. *)
LEMMA DeliverTypes ==
  ASSUME TypeOK, NEW j \in Deliverers, Delivering(j)
  PROVE  TypeOK'
<1>. USE DEF TypeOK
<1>0. at \in [Actors -> Hand] /\ j \in Actors /\ j[2] \in Selections
  BY ActorsAre DEF Hand
<1>1. {"fetching", "filing_letter", "threw", "returned", "recording", "delivered"} \subseteq Places
  BY DEF Places
<1>2. LatestApproved(j[2]) \in Versions \union {0}
  BY LatestExists DEF LatestApproved, Rows
<1>3. CASE FetchPackage(j)
  <2>1. LatestApproved(j[2]) \in 0 .. MaxVersions
    BY <1>2, CoverLetterAssumption DEF Versions
  <2>2. at' \in [Actors -> Hand]
    BY <1>0, <1>1, <1>3, <2>1, GotoTypes, TakeTypes DEF FetchPackage
  <2>. QED  BY <1>3, <2>2 DEF FetchPackage, Hand
<1>4. CASE FileLetter(j)
  <2>1. at' \in [Actors -> Hand]
    BY <1>0, <1>1, <1>4, GotoTypes DEF FileLetter
  <2>2. Doing(j) \in 0 .. MaxVersions
    BY <1>0 DEF Doing, Hand
  <2>. QED  BY <1>4, <2>1, <2>2 DEF FileLetter, Hand
<1>5. CASE RecordDelivery(j)
  <2>1. at' \in [Actors -> Hand]
    BY <1>0, <1>1, <1>5, GotoTypes DEF RecordDelivery
  <2>2. package' \in [Selections -> PackageStatuses]
    BY <1>0, <1>5 DEF RecordDelivery, PackageStatuses
  <2>. QED  BY <1>5, <2>1, <2>2 DEF RecordDelivery, Hand
<1>6. CASE AnnounceDelivery(j)
  <2>1. status' \in EngagementStatuses /\ at' \in [Actors -> Hand]
    BY <1>0, <1>1, <1>6, StatusesUsed, MoveTypes DEF AnnounceDelivery
  <2>. QED  BY <1>6, <2>1 DEF AnnounceDelivery, Hand
<1>. QED  BY <1>3, <1>4, <1>5, <1>6 DEF Delivering

(* An approval, the search for stale packages before it included. *)
LEMMA ApproveTypes ==
  ASSUME TypeOK, HandInv, NEW p \in People, Approving(p)
  PROVE  TypeOK'
<1>. USE DEF TypeOK
<1>0. at \in [Actors -> Hand] /\ p \in Actors /\ p[2] \in Users
  BY ActorsAre DEF Hand
<1>1. {"detecting", "marking", "reopening", "checking", "committing", "approving", "idle"} \subseteq Places
  BY DEF Places
<1>2. About(p) \in Selections /\ Doing(p) \in 0 .. MaxVersions /\ version \in [Versions -> Row]
  BY <1>0 DEF About, Doing, Hand, Row
<1>3. ASSUME NEW place \in Places, NEW stale \in SUBSET Selections,
             at' = [at EXCEPT ![p].place = place, ![p].stale = stale]
      PROVE  at' \in [Actors -> Hand]
  <2>1. [at[p] EXCEPT !.place = place, !.stale = stale] \in Hand
    BY <1>0 DEF Hand
  <2>. QED  BY <1>0, <1>3, <2>1
<1>4. CASE FindStale(p)
  <2>. DEFINE stale == {k \in Selections \ {selection} : package[k] \notin {"NONE", "STALE"}}
              place == IF stale = {} THEN "checking" ELSE "marking"
  <2>1. at' = [at EXCEPT ![p].place = place, ![p].stale = stale]
    BY <1>4 DEF FindStale
  <2>2. place \in Places /\ stale \in SUBSET Selections
    BY <1>1
  <2>. HIDE DEF place, stale
  <2>3. at' \in [Actors -> Hand]
    BY <1>3, <2>1, <2>2
  <2>. QED  BY <1>4, <2>3 DEF FindStale, Hand
<1>5. CASE MarkStale(p)
  <2>1. PICK k \in at[p].stale :
          /\ package' = [package EXCEPT ![k] = "STALE"]
          /\ version' = [v \in Versions |->
               IF v \in Rows(k) /\ version[v].status \in {"DRAFT", "APPROVED"}
                 THEN [version[v] EXCEPT !.status = "STALE"] ELSE version[v]]
          /\ at' = [at EXCEPT ![p].place = IF at[p].stale = {k} THEN "reopening" ELSE "marking",
                              ![p].stale = @ \ {k}]
    BY <1>5 DEF MarkStale
  <2>2. k \in Selections /\ at[p].stale \ {k} \in SUBSET Selections
    BY <1>0, <2>1 DEF Hand
  <2>. DEFINE place == IF at[p].stale = {k} THEN "reopening" ELSE "marking"
              rest == at[p].stale \ {k}
  <2>3. at' = [at EXCEPT ![p].place = place, ![p].stale = rest]
    BY <1>0, <2>1
  <2>4. at' \in [Actors -> Hand]
    <3>1. place \in Places /\ rest \in SUBSET Selections
      BY <1>1, <2>2
    <3>. HIDE DEF place, rest
    <3>. QED  BY <1>3, <2>3, <3>1
  <2>5. package' \in [Selections -> PackageStatuses]
    BY <2>1 DEF PackageStatuses
  <2>6. \A v \in Versions : [version[v] EXCEPT !.status = "STALE"] \in Row
    BY <1>2 DEF Row
  <2>7. version' \in [Versions -> Row]
    BY <1>2, <2>1, <2>6
  <2>. QED  BY <1>5, <2>4, <2>5, <2>7 DEF MarkStale, Hand, Row
<1>6. CASE Reopen(p) \/ AnnounceApproval(p)
  <2>1. status' \in EngagementStatuses /\ at' \in [Actors -> Hand]
    BY <1>0, <1>1, <1>6, StatusesUsed, MoveTypes DEF Reopen, AnnounceApproval
  <2>. QED  BY <1>6, <2>1 DEF Reopen, AnnounceApproval, Hand
<1>7. CASE CheckLetter(p)
  <2>1. at' \in [Actors -> Hand]
    BY <1>0, <1>1, <1>7, GotoTypes DEF CheckLetter
  <2>. QED  BY <1>7, <2>1 DEF CheckLetter, Hand
<1>8. CASE CommitLetter(p)
  <2>1. at' \in [Actors -> Hand]
    BY <1>0, <1>1, <1>8, GotoTypes DEF CommitLetter
  <2>2. package' \in [Selections -> PackageStatuses]
    BY <1>2, <1>8 DEF CommitLetter, PackageStatuses
  <2>3. version' \in [Versions -> Row]
    <3>1. Doing(p) \in Versions => [version[Doing(p)] EXCEPT !.status = "APPROVED"] \in Row
      BY <1>2 DEF Row
    <3>. QED  BY <1>2, <1>8, <3>1 DEF CommitLetter
  <2>4. approvals' \subseteq Versions \X Users
    <3>1. Doing(p) \in Versions
      BY <1>8 DEF CommitLetter, HandInv, Opened, Made, Doing, At
    <3>. QED  BY <1>0, <1>8, <3>1 DEF CommitLetter
  <2>. QED  BY <1>8, <2>1, <2>2, <2>3, <2>4 DEF CommitLetter, Hand, Row
<1>. QED  BY <1>4, <1>5, <1>6, <1>7, <1>8 DEF Approving

(* The other things people do on a page. *)
LEMMA PageTypes ==
  ASSUME TypeOK, NEW p \in People, MarkingReady(p) \/ Rewriting(p) \/ Pressing(p)
  PROVE  TypeOK'
<1>. USE DEF TypeOK
<1>0. at \in [Actors -> Hand] /\ p \in Actors /\ p[2] \in Users
  BY ActorsAre DEF Hand
<1>1. {"idle", "marking_ready", "announcing_ready", "queueing_delivery", "unapproving", "asking",
       "detecting", "asking_ready", "rewriting"} \subseteq Places
  BY DEF Places
<1>2. About(p) \in Selections
  BY <1>0 DEF About, Hand
<1>3. CASE CheckReady(p) \/ ReadNarrative(p)
  <2>1. at' \in [Actors -> Hand]
    BY <1>0, <1>1, <1>3, GotoTypes DEF CheckReady, ReadNarrative
  <2>. QED  BY <1>3, <2>1 DEF CheckReady, ReadNarrative, Hand
<1>4. CASE MarkReady(p) \/ Unapprove(p)
  <2>1. at' \in [Actors -> Hand]
    BY <1>0, <1>1, <1>4, GotoTypes DEF MarkReady, Unapprove
  <2>2. package' \in [Selections -> PackageStatuses]
    BY <1>2, <1>4 DEF MarkReady, Unapprove, PackageStatuses
  <2>. QED  BY <1>4, <2>1, <2>2 DEF MarkReady, Unapprove, Hand
<1>5. CASE AnnounceReady(p)
  <2>1. status' \in EngagementStatuses /\ at' \in [Actors -> Hand]
    BY <1>0, <1>1, <1>5, StatusesUsed, MoveTypes DEF AnnounceReady
  <2>. QED  BY <1>5, <2>1 DEF AnnounceReady, Hand
<1>6. CASE QueueDelivery(p)
  <2>1. at' \in [Actors -> Hand]
    BY <1>0, <1>1, <1>6, GotoTypes DEF QueueDelivery
  <2>2. job' \in [Jobs -> {"none", "pending", "running", "succeeded", "dead_letter"}]
    BY <1>6 DEF QueueDelivery, Enqueue
  <2>. QED  BY <1>6, <2>1, <2>2 DEF QueueDelivery, Hand
<1>7. Press(p) => presses' \in 0 .. MaxPresses
  BY CoverLetterAssumption DEF Press
<1>8. CASE Attach(p)
  <2>1. at' \in [Actors -> Hand]
    BY <1>0, <1>1, <1>8, GotoTypes DEF Attach
  <2>. QED  BY <1>7, <1>8, <2>1 DEF Attach, Hand
<1>9. CASE PressGenerate(p) \/ Retry(p)
  <2>1. job' \in [Jobs -> {"none", "pending", "running", "succeeded", "dead_letter"}]
    BY <1>9 DEF PressGenerate, Retry
  <2>. QED  BY <1>7, <1>9, <2>1 DEF PressGenerate, Retry
<1>10. CASE OpenLetter(p)
  <2>1. PICK k \in Selections :
          \E v \in Rows(k), place \in {"detecting", "asking_ready", "rewriting"} : Take(p, place, k, v)
    BY <1>10 DEF OpenLetter
  <2>2. Rows(k) \subseteq 0 .. MaxVersions
    BY CoverLetterAssumption DEF Rows, Versions
  <2>3. at' \in [Actors -> Hand]
    BY <1>0, <1>1, <2>1, <2>2, TakeTypes
  <2>. QED  BY <1>7, <1>10, <2>3 DEF OpenLetter, Hand
<1>. QED  BY <1>3, <1>4, <1>5, <1>6, <1>8, <1>9, <1>10 DEF MarkingReady, Rewriting, Pressing

LEMMA TypeStep ==
  ASSUME TypeOK, HandInv, [Next]_vars
  PROVE  TypeOK'
<1>1. CASE Next
  BY <1>1, BeginTypes, WorkerTypes, GenerateTypes, DeliverTypes, ApproveTypes, PageTypes, ActorsAre
     DEF Next
<1>2. CASE UNCHANGED vars
  BY <1>2 DEF vars, TypeOK
<1>. QED  BY <1>1, <1>2

(***************************************************************************)
(* Rows, approvals and what people and deliveries have in hand.            *)
(***************************************************************************)
(* Rows of letters stay, with their authors; approvals stay; and a row becomes approved *)
(* only where somebody commits an approval of it.                                       *)
Keeps ==
  /\ Made \subseteq Made' /\ approvals \subseteq approvals'
  /\ \A v \in Made : version'[v].author = version[v].author
  /\ \A v \in Versions : version'[v].status = "APPROVED" =>
       \/ version[v].status = "APPROVED"
       \/ \E p \in People : at[p].place = "committing" /\ at[p].version = v /\ <<v, p[2]>> \in approvals'

LEMMA RowsStay ==
  ASSUME TypeOK, HandInv, [Next]_vars
  PROVE  Keeps
<1>0. version \in [Versions -> Row]
  BY DEF TypeOK, Row
<1>1. UNCHANGED <<version, approvals>> => Keeps
  BY DEF Keeps, Made
<1>2. ASSUME NEW j \in Generators, Render(j) PROVE Keeps
  <2>. DEFINE next == Latest(Made) + 1
  <2>1. PICK a : version' = [version EXCEPT ![next] = [package |-> About(j), status |-> "DRAFT", author |-> a]]
    BY <1>2 DEF Render, Made
  <2>2. next \notin Made
    <3>1. \A w \in Made : w <= Latest(Made) /\ w \in Nat
      BY LatestExists DEF Made, Versions
    <3>2. Latest(Made) \in Nat
      BY LatestExists DEF Made, Versions
    <3>. QED  BY <3>1, <3>2
  <2>3. \A v \in Made : version'[v] = version[v]
    BY <2>1, <2>2, <1>0 DEF Made
  <2>4. \A v \in Versions : version'[v].status = "APPROVED" => version[v].status = "APPROVED"
    <3>. DEFINE row == [package |-> About(j), status |-> "DRAFT", author |-> a]
    <3>1. \A v \in Versions : version'[v] \in {version[v], row}
      BY <2>1, <1>0
    <3>2. row.status = "DRAFT"
      OBVIOUS
    <3>. QED  BY <3>1, <3>2
  <2>. QED  BY <1>2, <2>3, <2>4 DEF Render, Keeps, Made
<1>3. ASSUME NEW p \in People, MarkStale(p) PROVE Keeps
  <2>1. \A v \in Versions :
          version'[v] \in {version[v], [version[v] EXCEPT !.status = "STALE"]} /\ version[v] \in Row
    BY <1>0, <1>3 DEF MarkStale
  <2>2. \A v \in Versions : /\ version'[v].author = version[v].author
                           /\ version'[v].status \in {version[v].status, "STALE"}
    BY <2>1 DEF Row
  <2>. QED  BY <1>3, <2>2 DEF MarkStale, Keeps, Made
<1>4. ASSUME NEW p \in People, CommitLetter(p) PROVE Keeps
  <2>1. CASE UNCHANGED <<version, approvals>>
    BY <1>1, <2>1
  <2>2. CASE /\ version' = [version EXCEPT ![Doing(p)].status = "APPROVED"]
             /\ approvals' = approvals \union {<<Doing(p), p[2]>>}
    <3>1. at[p].place = "committing" /\ Doing(p) = at[p].version
      BY <1>4 DEF CommitLetter, At, Doing
    <3>2. \A v \in Versions : /\ version'[v].author = version[v].author
                              /\ version'[v].status = version[v].status \/ v = Doing(p)
      <4>. SUFFICES ASSUME NEW v \in Versions
                    PROVE  /\ version'[v].author = version[v].author
                           /\ version'[v].status = version[v].status \/ v = Doing(p)
        OBVIOUS
      <4>1. CASE v = Doing(p)
        <5>1. version'[v] = [version[v] EXCEPT !.status = "APPROVED"]
          BY <2>2, <1>0, <4>1
        <5>. QED  BY <1>0, <4>1, <5>1 DEF Row
      <4>2. CASE v # Doing(p)
        BY <2>2, <1>0, <4>2
      <4>. QED  BY <4>1, <4>2
    <3>. QED  BY <2>2, <3>1, <3>2 DEF Keeps, Made
  <2>. QED  BY <1>4, <2>1, <2>2 DEF CommitLetter
<1>5. ASSUME Next, \A j \in Generators : ~Render(j), \A p \in People : ~MarkStale(p) /\ ~CommitLetter(p)
      PROVE  UNCHANGED <<version, approvals>>
  <2>1. ASSUME NEW p \in Actors, Beginning(p) \/ FileSigned(p) \/ Break(p)
        PROVE  UNCHANGED <<version, approvals>>
    BY <2>1 DEF Beginning, FileSigned, Break, AskStatus, Weigh, Ready, QueueLetter
  <2>2. ASSUME NEW j \in Jobs, Running(j)
        PROVE  UNCHANGED <<version, approvals>>
    BY <2>2 DEF Running, Start, Return, Fail, Surface
  <2>3. ASSUME NEW j \in Generators, Generating(j) PROVE UNCHANGED <<version, approvals>>
    BY <1>5, <2>3 DEF Generating, PassGate, Enter, ReadSources, OpenPackage, ClosePackage, AnnounceLetter
  <2>4. ASSUME NEW j \in Deliverers, Delivering(j) PROVE UNCHANGED <<version, approvals>>
    BY <2>4 DEF Delivering, FetchPackage, FileLetter, RecordDelivery, AnnounceDelivery
  <2>5. ASSUME NEW p \in People, Approving(p) \/ MarkingReady(p)
        PROVE  UNCHANGED <<version, approvals>>
    BY <1>5, <2>5
       DEF Approving, FindStale, Reopen, CheckLetter, AnnounceApproval, MarkingReady, CheckReady,
           MarkReady, AnnounceReady, QueueDelivery
  <2>6. ASSUME NEW p \in People, Rewriting(p) \/ Pressing(p)
        PROVE  UNCHANGED <<version, approvals>>
    BY <2>6 DEF Rewriting, ReadNarrative, Unapprove, Pressing, Attach, PressGenerate, OpenLetter, Retry
  <2>. QED  BY <1>5, <2>1, <2>2, <2>3, <2>4, <2>5, <2>6, ActorsAre DEF Next
<1>. QED  BY <1>1, <1>2, <1>3, <1>4, <1>5 DEF vars

(* Nobody is two actors. *)
LEMMA JobsAreNotPeople == Jobs \intersect People = {} /\ Generators \intersect Deliverers = {}
  BY DEF Jobs, People, FilingJob, Generators, Deliverers, AutoJob, DeliveryJob

(* A transition takes a process on to the next place, or out. *)
LEMMA MoveGoes ==
  ASSUME at \in [Actors -> Hand], NEW p \in Actors, NEW to, NEW next \in Places, Move(p, to, next)
  PROVE  /\ at'[p].place \in {next, "threw", "idle"}
         /\ at'[p].place \notin {"idle", "returned", "threw"} => at'[p].version = at[p].version
         /\ \A q \in Actors \ {p} : at'[q] = at[q]
<1>1. \E place \in {next, "threw", "idle"} : Goto(p, place)
  BY DEF Move, Threw
<1>2. {next, "threw", "idle"} \subseteq Places
  BY DEF Places
<1>. QED  BY <1>1, <1>2, GotoTypes

(* What a person has in hand at a letter's page: what it was a step ago, or a row that the *)
(* page shows; and whoever commits an approval has passed its check.                       *)
Carried(p) ==
  at'[p].place \in Opened =>
    \/ /\ at[p].place \in Opened /\ at'[p].version = at[p].version
       /\ at'[p].place = "committing" => at[p].place = "committing" \/ MayApprove(p)
    \/ at'[p].version \in Made /\ at'[p].place # "committing"

LEMMA OwnPage ==
  ASSUME TypeOK, NEW p \in People,
         Approving(p) \/ MarkingReady(p) \/ Rewriting(p) \/ Pressing(p)
  PROVE  /\ Carried(p)
         /\ \A q \in Actors \ {p} : at'[q] = at[q]
<1>0. at \in [Actors -> Hand] /\ p \in Actors
  BY ActorsAre DEF TypeOK, Hand
<1>. DEFINE Alone == \A q \in Actors \ {p} : at'[q] = at[q]
<1>. USE DEF Opened, Carried
<1>1. {"detecting", "marking", "reopening", "checking", "committing", "approving", "idle", "threw",
       "marking_ready", "announcing_ready", "queueing_delivery", "unapproving", "asking",
       "asking_ready", "rewriting"} \subseteq Places
  BY DEF Places
<1>2. ASSUME NEW place \in Places, Goto(p, place), at[p].place \in Opened, place # "committing"
      PROVE  Carried(p) /\ Alone
  BY <1>0, <1>2, GotoTypes
<1>3. ASSUME NEW to, NEW next \in Places, Move(p, to, next), at[p].place \in Opened, next # "committing"
      PROVE  Carried(p) /\ Alone
  BY <1>0, <1>3, MoveGoes
<1>4. ASSUME NEW place \in Places \ {"committing"}, NEW stale, at[p].place \in Opened,
             at' = [at EXCEPT ![p].place = place, ![p].stale = stale]
      PROVE  Carried(p) /\ Alone
  <2>. DEFINE hand == [at[p] EXCEPT !.place = place, !.stale = stale]
  <2>1. at' = [at EXCEPT ![p] = hand]
    BY <1>4
  <2>2. hand.place = place /\ hand.version = at[p].version
    BY <1>0 DEF Hand
  <2>. HIDE DEF hand
  <2>3. at'[p] = hand /\ Alone
    BY <1>0, <2>1
  <2>4. place # "committing" /\ at[p].place \in Opened
    BY <1>4
  <2>5. at'[p].place = place /\ at'[p].version = at[p].version
    BY <2>2, <2>3
  <2>6. Carried(p)
    BY <2>4, <2>5
  <2>. QED  BY <2>3, <2>6
<1>5. CASE FindStale(p)
  <2>1. PICK stale : at' = [at EXCEPT ![p].place = IF stale = {} THEN "checking" ELSE "marking",
                                     ![p].stale = stale]
    BY <1>5 DEF FindStale
  <2>2. PICK place \in {"checking", "marking"} : at' = [at EXCEPT ![p].place = place, ![p].stale = stale]
    <3>1. CASE stale = {}
      BY <2>1, <3>1
    <3>2. CASE stale # {}
      BY <2>1, <3>2
    <3>. QED  BY <3>1, <3>2
  <2>3. at[p].place \in Opened /\ place \in Places \ {"committing"}
    BY <1>1, <1>5, <2>2 DEF FindStale, At
  <2>. HIDE DEF Opened, Carried
  <2>. QED  BY <1>4, <2>2, <2>3
<1>6. CASE MarkStale(p)
  <2>1. PICK k \in at[p].stale :
          at' = [at EXCEPT ![p].place = IF at[p].stale = {k} THEN "reopening" ELSE "marking",
                           ![p].stale = @ \ {k}]
    BY <1>6 DEF MarkStale
  <2>2. at' = [at EXCEPT ![p].place = IF at[p].stale = {k} THEN "reopening" ELSE "marking",
                         ![p].stale = at[p].stale \ {k}]
    BY <1>0, <2>1
  <2>3. PICK place \in {"reopening", "marking"} :
          at' = [at EXCEPT ![p].place = place, ![p].stale = at[p].stale \ {k}]
    <3>1. CASE at[p].stale = {k}
      BY <2>2, <3>1
    <3>2. CASE at[p].stale # {k}
      BY <2>2, <3>2
    <3>. QED  BY <3>1, <3>2
  <2>4. at[p].place \in Opened /\ place \in Places \ {"committing"}
    BY <1>1, <1>6, <2>3 DEF MarkStale, At
  <2>. HIDE DEF Opened, Carried
  <2>. QED  BY <1>4, <2>3, <2>4
<1>7. CASE CheckLetter(p)
  <2>1. PICK place \in {"committing", "idle"} : Goto(p, place) /\ (place = "committing" => MayApprove(p))
    BY <1>7 DEF CheckLetter
  <2>. QED  BY <1>0, <1>1, <1>7, <2>1, GotoTypes DEF CheckLetter, At
<1>8. CASE CommitLetter(p)
  BY <1>1, <1>2, <1>8 DEF CommitLetter, At
<1>9. CASE Reopen(p) \/ AnnounceApproval(p) \/ AnnounceReady(p)
  BY <1>1, <1>3, <1>9 DEF Reopen, AnnounceApproval, AnnounceReady, At
<1>10. CASE CheckReady(p) \/ MarkReady(p) \/ QueueDelivery(p)
  BY <1>1, <1>2, <1>10 DEF CheckReady, MarkReady, QueueDelivery, At
<1>11. CASE ReadNarrative(p) \/ Unapprove(p)
  BY <1>1, <1>2, <1>11 DEF ReadNarrative, Unapprove, At
<1>12. CASE Attach(p)
  BY <1>0, <1>1, <1>12, GotoTypes DEF Attach
<1>13. CASE PressGenerate(p) \/ Retry(p)
  BY <1>13 DEF PressGenerate, Retry, Press, At
<1>14. CASE OpenLetter(p)
  <2>1. PICK k \in Selections :
          \E v \in Rows(k), place \in {"detecting", "asking_ready", "rewriting"} : Take(p, place, k, v)
    BY <1>14 DEF OpenLetter
  <2>2. Rows(k) \subseteq Made /\ Rows(k) \subseteq 0 .. MaxVersions
    BY CoverLetterAssumption DEF Rows, Made, Versions
  <2>. QED  BY <1>0, <1>1, <2>1, <2>2, TakeTypes
<1>. QED  BY <1>5, <1>6, <1>7, <1>8, <1>9, <1>10, <1>11, <1>12, <1>13, <1>14
          DEF Approving, MarkingReady, Rewriting, Pressing

LEMMA PagesKeep ==
  ASSUME TypeOK, [Next]_vars, NEW p \in People
  PROVE  Carried(p)
<1>0. at \in [Actors -> Hand] /\ p \in Actors /\ p \notin Jobs
  BY ActorsAre, JobsAreNotPeople DEF TypeOK, Hand
<1>1. at'[p] = at[p] => Carried(p)
  BY DEF Carried
<1>. USE DEF Opened, Carried
<1>2. ASSUME NEW q \in Actors, NEW place \in Places, Goto(q, place), q # p \/ place \notin Opened
      PROVE  Carried(p)
  BY <1>0, <1>1, <1>2, GotoTypes
<1>3. ASSUME NEW q \in Actors, NEW to, NEW next \in Places, Move(q, to, next), q # p \/ next \notin Opened
      PROVE  Carried(p)
  BY <1>0, <1>1, <1>3, MoveGoes
<1>4. ASSUME NEW q \in Actors, Beginning(q) \/ FileSigned(q) PROVE Carried(p)
  <2>1. {"weighing", "weighing_again", "returned", "idle", "readying", "queueing", "asking"} \subseteq Places
    BY DEF Places
  <2>2. Returned(q) \in {"returned", "idle"}
    BY DEF Returned
  <2>. QED  BY <1>2, <1>3, <1>4, <2>1, <2>2
            DEF Beginning, FileSigned, AskStatus, Weigh, Ready, QueueLetter
<1>5. ASSUME NEW q \in Actors, Break(q) PROVE Carried(p)
  <2>1. {"idle", "threw"} \subseteq Places
    BY DEF Places
  <2>. QED  BY <1>2, <1>5, <2>1 DEF Break
<1>7. ASSUME NEW j \in Jobs, Running(j) PROVE Carried(p)
  <2>1. {"idle", "surfacing", "filing", "fetching", "gating"} \subseteq Places
    BY DEF Places
  <2>2. FirstPlace(j) \in {"filing", "fetching", "gating"}
    BY DEF FirstPlace
  <2>. QED  BY <1>0, <1>2, <1>3, <1>7, <2>1, <2>2, ActorsAre DEF Running, Start, Return, Fail, Surface
<1>8. ASSUME NEW j \in Generators, Generating(j) PROVE Carried(p)
  <2>1. {"gating", "entering", "threw", "reading", "opening", "rendering", "rendered", "announcing",
         "returned"} \subseteq Places
    BY DEF Places
  <2>2. j \in Actors /\ j # p
    BY <1>0, ActorsAre
  <2>3. CASE ReadSources(j)
    BY <1>0, <1>1, <2>2, <2>3 DEF ReadSources, Take
  <2>. QED  BY <1>2, <1>3, <1>8, <2>1, <2>2, <2>3
            DEF Generating, PassGate, Enter, OpenPackage, Render, ClosePackage, AnnounceLetter
<1>9. ASSUME NEW j \in Deliverers, Delivering(j) PROVE Carried(p)
  <2>1. {"fetching", "filing_letter", "threw", "returned", "recording", "delivered"} \subseteq Places
    BY DEF Places
  <2>2. j \in Actors /\ j # p
    BY <1>0, ActorsAre
  <2>3. CASE FetchPackage(j)
    BY <1>0, <1>1, <1>2, <2>1, <2>2, <2>3 DEF FetchPackage, Take
  <2>. QED  BY <1>2, <1>3, <1>9, <2>1, <2>2, <2>3
            DEF Delivering, FileLetter, RecordDelivery, AnnounceDelivery
<1>10. ASSUME NEW q \in People, Approving(q) \/ MarkingReady(q) \/ Rewriting(q) \/ Pressing(q)
       PROVE  Carried(p)
  BY <1>0, <1>1, <1>10, OwnPage
<1>. HIDE DEF Opened, Carried
<1>. QED  BY <1>1, <1>4, <1>5, <1>7, <1>8, <1>9, <1>10, ActorsAre DEF Next, vars

(* What a delivery has in hand: the letter it had, or the last approved letter. *)
Fetched(j) ==
  at'[j].place = "filing_letter" =>
    \/ at[j].place = "filing_letter" /\ at'[j].version = at[j].version
    \/ \E k \in Selections : at'[j].version = LatestApproved(k) /\ LatestApproved(k) # 0

LEMMA DeliveriesFetch ==
  ASSUME TypeOK, [Next]_vars, NEW d \in Deliverers
  PROVE  Fetched(d)
<1>0. at \in [Actors -> Hand] /\ d \in Actors /\ d \notin People /\ d \notin Generators /\ d # FilingJob
  BY ActorsAre, JobsAreNotPeople DEF TypeOK, Hand, Deliverers, DeliveryJob, FilingJob
<1>1. at'[d] = at[d] => Fetched(d)
  BY DEF Fetched
<1>. USE DEF Fetched
<1>2. ASSUME NEW q \in Actors, NEW place \in Places, Goto(q, place), q # d \/ place # "filing_letter"
      PROVE  Fetched(d)
  BY <1>0, <1>1, <1>2, GotoTypes
<1>3. ASSUME NEW q \in Actors, NEW to, NEW next \in Places, Move(q, to, next),
             q # d \/ next # "filing_letter"
      PROVE  Fetched(d)
  BY <1>0, <1>1, <1>3, MoveGoes
<1>4. ASSUME NEW q \in Actors, Beginning(q) \/ FileSigned(q) PROVE Fetched(d)
  <2>1. {"weighing", "weighing_again", "returned", "idle", "readying", "queueing", "asking"} \subseteq Places
    BY DEF Places
  <2>2. Returned(q) \in {"returned", "idle"}
    BY DEF Returned
  <2>. QED  BY <1>2, <1>3, <1>4, <2>1, <2>2
            DEF Beginning, FileSigned, AskStatus, Weigh, Ready, QueueLetter
<1>5. ASSUME NEW q \in Actors, Break(q) PROVE Fetched(d)
  <2>1. {"idle", "threw"} \subseteq Places
    BY DEF Places
  <2>. QED  BY <1>2, <1>5, <2>1 DEF Break
<1>6. ASSUME NEW j \in Jobs, Running(j) PROVE Fetched(d)
  <2>1. {"idle", "surfacing", "filing", "fetching", "gating"} \subseteq Places
    BY DEF Places
  <2>2. FirstPlace(j) \in {"filing", "fetching", "gating"}
    BY DEF FirstPlace
  <2>. QED  BY <1>2, <1>3, <1>6, <2>1, <2>2, ActorsAre DEF Running, Start, Return, Fail, Surface
<1>7. ASSUME NEW j \in Generators, Generating(j) PROVE Fetched(d)
  <2>1. {"gating", "entering", "threw", "reading", "opening", "rendering", "rendered", "announcing",
         "returned"} \subseteq Places
    BY DEF Places
  <2>2. j \in Actors /\ j # d
    BY <1>0, ActorsAre
  <2>3. CASE ReadSources(j)
    BY <1>0, <1>1, <2>2, <2>3 DEF ReadSources, Take
  <2>. QED  BY <1>2, <1>3, <1>7, <2>1, <2>2, <2>3
            DEF Generating, PassGate, Enter, OpenPackage, Render, ClosePackage, AnnounceLetter
<1>8. ASSUME NEW j \in Deliverers, Delivering(j) PROVE Fetched(d)
  <2>1. {"fetching", "filing_letter", "threw", "returned", "recording", "delivered"} \subseteq Places
    BY DEF Places
  <2>2. j \in Actors /\ j[2] \in Selections
    BY ActorsAre
  <2>3. CASE FetchPackage(j)
    <3>1. CASE Take(j, "filing_letter", j[2], LatestApproved(j[2])) /\ LatestApproved(j[2]) # 0
      <4>1. LatestApproved(j[2]) \in 0 .. MaxVersions
        <5>1. {v \in Rows(j[2]) : version[v].status = "APPROVED"} \in SUBSET Versions
          BY DEF Rows
        <5>. QED  BY <5>1, LatestExists, CoverLetterAssumption DEF LatestApproved, Versions
      <4>. HIDE DEF Fetched
      <4>2. CASE j = d
        BY <1>0, <2>1, <2>2, <3>1, <4>1, <4>2, TakeTypes DEF Fetched
      <4>3. CASE j # d
        BY <1>0, <1>1, <2>1, <2>2, <3>1, <4>1, <4>3, TakeTypes
      <4>. QED  BY <4>2, <4>3
    <3>2. CASE Goto(j, "threw") \/ Goto(j, "returned")
      BY <1>2, <2>1, <2>2, <3>2
    <3>. QED  BY <2>3, <3>1, <3>2 DEF FetchPackage
  <2>. QED  BY <1>2, <1>3, <1>8, <2>1, <2>2, <2>3
            DEF Delivering, FileLetter, RecordDelivery, AnnounceDelivery
<1>9. ASSUME NEW q \in People, Approving(q) \/ MarkingReady(q) \/ Rewriting(q) \/ Pressing(q)
      PROVE  Fetched(d)
  <2>1. q # d
    BY <1>0
  <2>. QED  BY <1>0, <1>1, <1>9, <2>1, OwnPage
<1>. HIDE DEF Fetched
<1>. QED  BY <1>1, <1>4, <1>5, <1>6, <1>7, <1>8, <1>9, ActorsAre DEF Next, vars

(* Only a delivery files a letter, and it files the one it has in hand. *)
LEMMA FilingFiles ==
  ASSUME [Next]_vars, filed' # filed
  PROVE  \E j \in Deliverers : at[j].place = "filing_letter" /\ filed' = at[j].version
<1>1. ASSUME NEW p \in Actors, Beginning(p) \/ FileSigned(p) \/ Break(p) PROVE filed' = filed
  BY <1>1 DEF Beginning, FileSigned, Break, AskStatus, Weigh, Ready, QueueLetter
<1>2. ASSUME NEW j \in Jobs, Running(j) PROVE filed' = filed
  BY <1>2 DEF Running, Start, Return, Fail, Surface
<1>3. ASSUME NEW j \in Generators, Generating(j) PROVE filed' = filed
  BY <1>3 DEF Generating, PassGate, Enter, ReadSources, OpenPackage, Render, ClosePackage, AnnounceLetter
<1>4. ASSUME NEW j \in Deliverers, FetchPackage(j) \/ RecordDelivery(j) \/ AnnounceDelivery(j)
      PROVE  filed' = filed
  BY <1>4 DEF FetchPackage, RecordDelivery, AnnounceDelivery
<1>5. ASSUME NEW p \in People, Approving(p) \/ MarkingReady(p) PROVE filed' = filed
  BY <1>5 DEF Approving, FindStale, MarkStale, Reopen, CheckLetter, CommitLetter, AnnounceApproval,
              MarkingReady, CheckReady, MarkReady, AnnounceReady, QueueDelivery
<1>6. ASSUME NEW p \in People, Rewriting(p) \/ Pressing(p) PROVE filed' = filed
  BY <1>6 DEF Rewriting, ReadNarrative, Unapprove, Pressing, Attach, PressGenerate, OpenLetter, Retry
<1>7. PICK j \in Deliverers : FileLetter(j)
  BY <1>1, <1>2, <1>3, <1>4, <1>5, <1>6, ActorsAre DEF Next, vars, Delivering
<1>. QED  BY <1>7 DEF FileLetter, At, Doing

(***************************************************************************)
(* Who approved what.                                                      *)
(***************************************************************************)
(* A letter that somebody approved who did not write it. *)
ByAnother(v) == v \in Made /\ \E u \in Users : <<v, u>> \in approvals /\ version[v].author # u

(* Whoever commits an approval did not write the letter; every approved letter was approved *)
(* by another; and so was the one that a delivery has in hand, and the one that is filed.   *)
FiledInv ==
  /\ \A p \in People : at[p].place = "committing" => version[at[p].version].author # p[2]
  /\ \A v \in Versions : version[v].status = "APPROVED" => ByAnother(v)
  /\ \A j \in Deliverers : at[j].place = "filing_letter" => ByAnother(at[j].version)
  /\ filed # 0 => ByAnother(filed)

LEMMA FiledStep ==
  ASSUME TypeOK, HandInv, FiledInv, [Next]_vars
  PROVE  HandInv' /\ FiledInv'
<1>1. Keeps
  BY RowsStay
<1>2. \A v : ByAnother(v) => ByAnother(v)'
  BY <1>1 DEF ByAnother, Keeps
<1>3. \A p \in People : at'[p].place = "committing" => version'[at'[p].version].author # p[2]
  <2>. SUFFICES ASSUME NEW p \in People, at'[p].place = "committing"
                PROVE  version'[at'[p].version].author # p[2]
    OBVIOUS
  <2>1. /\ at[p].place \in Opened /\ at'[p].version = at[p].version
        /\ at[p].place = "committing" \/ MayApprove(p)
    BY PagesKeep DEF Carried, Opened
  <2>2. version'[at[p].version].author = version[at[p].version].author
    BY <1>1, <2>1 DEF HandInv, Keeps
  <2>3. version[at[p].version].author # p[2]
    BY <2>1 DEF FiledInv, MayApprove, Doing
  <2>. QED  BY <2>1, <2>2, <2>3
<1>4. \A v \in Versions : version'[v].status = "APPROVED" => ByAnother(v)'
  <2>. SUFFICES ASSUME NEW v \in Versions, version'[v].status = "APPROVED" PROVE ByAnother(v)'
    OBVIOUS
  <2>1. CASE version[v].status = "APPROVED"
    BY <1>2, <2>1 DEF FiledInv
  <2>2. ASSUME NEW p \in People, at[p].place = "committing", at[p].version = v, <<v, p[2]>> \in approvals'
        PROVE  ByAnother(v)'
    <3>1. v \in Made /\ version[v].author # p[2] /\ p[2] \in Users
      BY <2>2, ActorsAre DEF HandInv, FiledInv, Opened
    <3>2. v \in Made' /\ version'[v].author # p[2]
      BY <1>1, <3>1 DEF Keeps
    <3>. QED  BY <2>2, <3>1, <3>2 DEF ByAnother
  <2>. QED  BY <1>1, <2>1, <2>2 DEF Keeps
<1>5. ASSUME NEW j \in Deliverers, at'[j].place = "filing_letter" PROVE ByAnother(at'[j].version)
  <2>1. CASE at[j].place = "filing_letter" /\ at'[j].version = at[j].version
    BY <2>1 DEF FiledInv
  <2>2. ASSUME NEW k \in Selections, at'[j].version = LatestApproved(k), LatestApproved(k) # 0
        PROVE  ByAnother(at'[j].version)
    <3>. DEFINE S == {v \in Rows(k) : version[v].status = "APPROVED"}
    <3>1. S \in SUBSET Versions
      BY DEF Rows
    <3>2. LatestApproved(k) \in S
      BY <2>2, <3>1, LatestExists DEF LatestApproved
    <3>. QED  BY <2>2, <3>1, <3>2 DEF FiledInv
  <2>. QED  BY <1>5, <2>1, <2>2, DeliveriesFetch DEF Fetched
<1>6. filed' # 0 => ByAnother(filed')
  BY FilingFiles DEF FiledInv
<1>7. HandInv'
  BY <1>1, PagesKeep DEF HandInv, Carried, Keeps
<1>. QED  BY <1>2, <1>3, <1>4, <1>5, <1>6, <1>7 DEF FiledInv, ByAnother

(***************************************************************************)
(* One letter at a time.                                                   *)
(***************************************************************************)
(* A package goes stale, or becomes live where no other is. *)
LEMMA PackagesAlone ==
  ASSUME TypeOK, OneLiveLetter, NEW k \in Selections, NEW to, MayBe(k, to),
         package' = [package EXCEPT ![k] = to]
  PROVE  OneLiveLetter'
<1>1. package \in [Selections -> PackageStatuses]
  BY DEF TypeOK
<1>2. \A o \in Selections : package'[o] = IF o = k THEN to ELSE package[o]
  BY <1>1
<1>. QED  BY <1>2 DEF OneLiveLetter, MayBe

LEMMA OneLiveStep ==
  ASSUME TypeOK, OneLiveLetter, [Next]_vars
  PROVE  OneLiveLetter'
<1>1. package' = package => OneLiveLetter'
  BY DEF OneLiveLetter
<1>2. \A p \in Actors : About(p) \in Selections /\ at[p].stale \subseteq Selections
  BY DEF TypeOK, About
<1>3. \A k \in Selections : MayBe(k, "STALE")
  BY DEF MayBe
<1>4. ASSUME NEW p \in Actors, Beginning(p) \/ FileSigned(p) \/ Break(p) PROVE OneLiveLetter'
  BY <1>1, <1>4 DEF Beginning, FileSigned, Break, AskStatus, Weigh, Ready, QueueLetter
<1>5. ASSUME NEW j \in Jobs, Running(j) PROVE OneLiveLetter'
  BY <1>1, <1>5 DEF Running, Start, Return, Fail, Surface
<1>6. ASSUME NEW j \in Generators, Generating(j) PROVE OneLiveLetter'
  <2>1. CASE OpenPackage(j)
    BY <1>1, <1>2, <2>1, PackagesAlone, ActorsAre DEF OpenPackage
  <2>2. CASE ClosePackage(j)
    BY <1>1, <1>2, <2>2, PackagesAlone, ActorsAre DEF ClosePackage
  <2>. QED  BY <1>1, <1>6, <2>1, <2>2 DEF Generating, PassGate, Enter, ReadSources, Render, AnnounceLetter
<1>7. ASSUME NEW j \in Deliverers, Delivering(j) PROVE OneLiveLetter'
  <2>1. CASE RecordDelivery(j)
    BY <1>1, <2>1, PackagesAlone, ActorsAre DEF RecordDelivery
  <2>. QED  BY <1>1, <1>7, <2>1 DEF Delivering, FetchPackage, FileLetter, AnnounceDelivery
<1>8. ASSUME NEW p \in People, Approving(p) PROVE OneLiveLetter'
  <2>1. CASE MarkStale(p)
    <3>1. PICK k \in at[p].stale : package' = [package EXCEPT ![k] = "STALE"]
      BY <2>1 DEF MarkStale
    <3>. QED  BY <1>2, <1>3, <3>1, PackagesAlone, ActorsAre
  <2>2. CASE CommitLetter(p)
    BY <1>1, <1>2, <2>2, PackagesAlone, ActorsAre DEF CommitLetter
  <2>. QED  BY <1>1, <1>8, <2>1, <2>2 DEF Approving, FindStale, Reopen, CheckLetter, AnnounceApproval
<1>9. ASSUME NEW p \in People, MarkingReady(p) \/ Rewriting(p) \/ Pressing(p) PROVE OneLiveLetter'
  <2>1. CASE MarkReady(p)
    BY <1>1, <1>2, <2>1, PackagesAlone, ActorsAre DEF MarkReady
  <2>2. CASE Unapprove(p)
    BY <1>2, <1>3, <2>2, PackagesAlone, ActorsAre DEF Unapprove
  <2>. QED  BY <1>1, <1>9, <2>1, <2>2
            DEF MarkingReady, CheckReady, AnnounceReady, QueueDelivery, Rewriting, ReadNarrative,
                Pressing, Attach, PressGenerate, OpenLetter, Retry
<1>. QED  BY <1>1, <1>4, <1>5, <1>6, <1>7, <1>8, <1>9, ActorsAre DEF Next, vars

(***************************************************************************)
(* Whichever is last starts the letter.                                    *)
(***************************************************************************)
(* No process has ended before its time, and no generation of the letter was ever queued. *)
Quiet == faults = 0 /\ \A j \in Generators : job[j] = "none"
Askers == People \union {FilingJob}
Weighing == Starting \ {"asking"}
Before == {"SIGNED", "COMPLETE", "READY_FOR_COVER_LETTER"}

(* Until then nothing goes on but the filing and the asking; and once the letter is filed and *)
(* the documents are in, somebody who asks has not finished.                                  *)
OnlyAsking ==
  /\ status \in Before
  /\ \A j \in Generators \union Deliverers : at[j].place = "idle"
  /\ \A j \in Deliverers : job[j] = "none"
  /\ \A p \in People : at[p].place \in {"idle"} \union Starting
  /\ at[FilingJob].place \in {"idle", "filing", "returned"} \union Starting
  /\ \A v \in Versions : version[v].status = "NONE"
  /\ status = "SIGNED" => \A p \in Askers : at[p].place \notin Weighing
SomebodyAsks == status # "SIGNED" /\ selection # 0 => \E p \in Askers : at[p].place \in Starting
LastInv == Quiet => OnlyAsking /\ SomebodyAsks

LEMMA FilingIsApart ==
  /\ FilingJob \notin Generators \union Deliverers /\ FilingJob \notin People
  /\ Askers \intersect (Generators \union Deliverers) = {}
  /\ Jobs = {FilingJob} \union Generators \union Deliverers
  BY DEF FilingJob, Generators, Deliverers, AutoJob, DeliveryJob, People, Jobs, Askers

(* What an asking step does to the others, to the status and to the jobs. *)
LEMMA AskersGo ==
  ASSUME TypeOK, NEW p \in Askers, NEW place \in Places, Goto(p, place)
  PROVE  at'[p].place = place /\ \A q \in Actors \ {p} : at'[q] = at[q]
<1>1. p \in Actors /\ at \in [Actors -> Hand]
  BY ActorsAre DEF Askers, TypeOK, Hand
<1>. QED  BY <1>1, GotoTypes

(* A step of one who asks, while the filing and the asking are all that goes on. *)
LEMMA AskingStep ==
  ASSUME TypeOK, LastInv, Quiet, Quiet', NEW p \in Askers, Beginning(p) \/ FileSigned(p)
  PROVE  OnlyAsking' /\ SomebodyAsks'
<1>0. /\ OnlyAsking /\ SomebodyAsks /\ p \in Actors /\ Askers \subseteq Actors
      /\ Generators \union Deliverers \subseteq Actors \ {p}
  BY ActorsAre, FilingIsApart DEF LastInv, Askers
<1>1. ASSUME NEW next \in {"idle", "returned"} \union Starting, Goto(p, next),
             UNCHANGED <<selection, letters, job>>, status' \in Before,
             status # "SIGNED" => status' # "SIGNED",
             next = "returned" => p = FilingJob, next = "idle" => p \in People,
             status' = "SIGNED" => next \notin Weighing,
             status' # "SIGNED" /\ selection # 0 => next \in Starting
      PROVE  OnlyAsking' /\ SomebodyAsks'
  <2>1. at'[p].place = next /\ \A q \in Actors \ {p} : at'[q] = at[q]
    BY <1>1, AskersGo DEF Places, Starting
  <2>2. \A q \in People \ {p} : at'[q].place \in {"idle"} \union Starting
    BY <1>0, <2>1, ActorsAre DEF OnlyAsking
  <2>3. p \in People => at'[p].place \in {"idle"} \union Starting
    BY <1>1, <2>1, FilingIsApart
  <2>4. at'[FilingJob].place \in {"idle", "filing", "returned"} \union Starting
    BY <1>0, <1>1, <2>1, ActorsAre DEF OnlyAsking
  <2>5. status' = "SIGNED" => \A q \in Askers : at'[q].place \notin Weighing
    BY <1>0, <1>1, <2>1 DEF OnlyAsking
  <2>6. OnlyAsking'
    BY <1>0, <1>1, <2>1, <2>2, <2>3, <2>4, <2>5 DEF OnlyAsking
  <2>7. SomebodyAsks'
    BY <1>1, <2>1 DEF SomebodyAsks
  <2>. QED  BY <2>6, <2>7
<1>2. /\ Returned(p) \in {"returned", "idle"}
      /\ Returned(p) = "returned" => p = FilingJob
      /\ Returned(p) = "idle" => p \in People
  BY ActorsAre, FilingIsApart DEF Returned, Askers
<1>3. CASE AskStatus(p)
  <2>. DEFINE next == CASE status = "COMPLETE" -> "weighing"
                        [] status = "READY_FOR_COVER_LETTER" -> "weighing_again"
                        [] OTHER -> Returned(p)
  <2>1. /\ status = "SIGNED" => next = Returned(p)
        /\ status # "SIGNED" => next \in Weighing
    BY <1>0 DEF OnlyAsking, Before, Weighing, Starting
  <2>2. Goto(p, next) /\ UNCHANGED <<status, selection, letters, job>>
    BY <1>3 DEF AskStatus
  <2>. HIDE DEF next
  <2>3. next \in {"idle", "returned"} \union Starting /\ Weighing \subseteq Starting
        /\ "idle" \notin Starting /\ "returned" \notin Starting
    BY <1>2, <2>1 DEF Weighing, Starting
  <2>. QED  BY <1>0, <1>1, <1>2, <2>1, <2>2, <2>3 DEF OnlyAsking
<1>4. CASE Weigh(p)
  <2>. DEFINE next == IF selection = 0 THEN Returned(p)
                      ELSE IF At(p, "weighing") THEN "readying" ELSE "queueing"
  <2>1. /\ selection = 0 => next = Returned(p)
        /\ selection # 0 => next \in Starting
    BY DEF Starting
  <2>2. Goto(p, next) /\ UNCHANGED <<status, selection, letters, job>>
    BY <1>4 DEF Weigh
  <2>3. status # "SIGNED"
    BY <1>0, <1>4 DEF Weigh, OnlyAsking, Weighing, Starting
  <2>. HIDE DEF next
  <2>4. next \in {"idle", "returned"} \union Starting /\ "idle" \notin Starting /\ "returned" \notin Starting
    BY <1>2, <2>1 DEF Starting
  <2>. QED  BY <1>0, <1>1, <1>2, <2>1, <2>2, <2>3, <2>4 DEF OnlyAsking
<1>5. CASE Ready(p)
  <2>1. status \in {"COMPLETE", "READY_FOR_COVER_LETTER"}
    BY <1>0, <1>5 DEF Ready, At, OnlyAsking, Before, Weighing, Starting
  <2>2. status' = "READY_FOR_COVER_LETTER" /\ Goto(p, "queueing")
    BY <1>5, <2>1 DEF Ready, Move, canTransition, Successors
  <2>3. UNCHANGED <<selection, letters, job>>
    BY <1>5 DEF Ready
  <2>. QED  BY <1>1, <2>1, <2>2, <2>3 DEF Before, Starting, Weighing
<1>6. CASE FileSigned(p)
  <2>1. Goto(p, "asking") /\ UNCHANGED <<selection, letters, job>>
        /\ status' = IF status = "SIGNED" THEN "COMPLETE" ELSE status
    BY <1>6 DEF FileSigned, Move, canTransition, Successors
  <2>. QED  BY <1>0, <1>1, <2>1 DEF OnlyAsking, Before, Starting, Weighing
<1>7. CASE QueueLetter(p)
  <2>1. AutoJob(selection) \in Generators /\ AutoJob(selection) \in Jobs
    BY ActorsAre DEF TypeOK, Generators
  <2>2. job'[AutoJob(selection)] # "none"
    BY <1>7, <2>1 DEF QueueLetter, Enqueue, TypeOK
  <2>. QED  BY <2>1, <2>2 DEF Quiet
<1>. QED  BY <1>3, <1>4, <1>5, <1>6, <1>7 DEF Beginning

(* Nobody who is not there takes a step. *)
LEMMA OthersRest ==
  ASSUME TypeOK, OnlyAsking
  PROVE  /\ \A j \in Generators : ~Generating(j)
         /\ \A j \in Deliverers : ~Delivering(j)
         /\ \A p \in People : ~Approving(p) /\ ~MarkingReady(p) /\ ~Rewriting(p) /\ ~OpenLetter(p)
         /\ \A j \in Jobs : ~Fail(j) /\ ~Surface(j)
<1>1. \A j \in Generators : ~Generating(j)
  BY DEF OnlyAsking, Generating, PassGate, Enter, ReadSources, OpenPackage, Render, ClosePackage,
         AnnounceLetter, At
<1>2. \A j \in Deliverers : ~Delivering(j)
  BY DEF OnlyAsking, Delivering, FetchPackage, FileLetter, RecordDelivery, AnnounceDelivery, At
<1>3. \A p \in People : ~Approving(p)
  BY DEF OnlyAsking, Starting, Approving, FindStale, MarkStale, Reopen, CheckLetter, CommitLetter,
         AnnounceApproval, At
<1>4. \A p \in People : ~MarkingReady(p) /\ ~Rewriting(p)
  BY DEF OnlyAsking, Starting, MarkingReady, CheckReady, MarkReady, AnnounceReady, QueueDelivery,
         Rewriting, ReadNarrative, Unapprove, At
<1>5. \A p \in People : ~OpenLetter(p)
  <2>1. \A k \in Selections : Rows(k) = {}
    BY DEF OnlyAsking, Rows
  <2>. QED  BY <2>1 DEF OpenLetter
<1>6. \A j \in Jobs : ~Fail(j) /\ ~Surface(j)
  BY FilingIsApart DEF OnlyAsking, Starting, Fail, Surface, At
<1>. QED  BY <1>1, <1>2, <1>3, <1>4, <1>5, <1>6

LEMMA LastStep ==
  ASSUME TypeOK, HandInv, LastInv, [Next]_vars
  PROVE  LastInv'
<1>. SUFFICES ASSUME Quiet' PROVE OnlyAsking' /\ SomebodyAsks'
  BY DEF LastInv
<1>1. CASE UNCHANGED vars
  <2>1. Quiet
    BY <1>1 DEF vars, Quiet
  <2>. QED  BY <1>1, <2>1 DEF vars, LastInv, OnlyAsking, SomebodyAsks
<1>2. CASE Next
  <2>1. ~\E p \in Actors : Break(p)
    BY SMTT(30) DEF Break, Quiet, TypeOK
  <2>2. Quiet
    <3>1. faults = 0
      BY <1>2, <2>1 DEF Next, Quiet, Beginning, AskStatus, Weigh, Ready, QueueLetter, FileSigned,
              Running, Start, Return, Fail, Surface, Generating, PassGate, Enter, ReadSources,
              OpenPackage, Render, ClosePackage, AnnounceLetter, Delivering, FetchPackage, FileLetter,
              RecordDelivery, AnnounceDelivery, Approving, FindStale, MarkStale, Reopen, CheckLetter,
              CommitLetter, AnnounceApproval, MarkingReady, CheckReady, MarkReady, AnnounceReady,
              QueueDelivery, Rewriting, ReadNarrative, Unapprove, Pressing, Attach, PressGenerate,
              OpenLetter, Retry
    <3>2. \A j \in Jobs : job'[j] = "none" => job[j] = "none"
      BY <1>2, <2>1 DEF Next, TypeOK, Enqueue, Beginning, AskStatus, Weigh, Ready, QueueLetter, FileSigned,
              Running, Start, Return, Fail, Surface, Generating, PassGate, Enter, ReadSources,
              OpenPackage, Render, ClosePackage, AnnounceLetter, Delivering, FetchPackage, FileLetter,
              RecordDelivery, AnnounceDelivery, Approving, FindStale, MarkStale, Reopen, CheckLetter,
              CommitLetter, AnnounceApproval, MarkingReady, CheckReady, MarkReady, AnnounceReady,
              QueueDelivery, Rewriting, ReadNarrative, Unapprove, Pressing, Attach, PressGenerate,
              OpenLetter, Retry
    <3>. QED  BY <3>1, <3>2, ActorsAre, SMTT(30) DEF Quiet
  <2>3. OnlyAsking /\ SomebodyAsks
    BY <2>2 DEF LastInv
  <2>4. ASSUME NEW j \in Jobs, Start(j) \/ Return(j) PROVE OnlyAsking' /\ SomebodyAsks'
    <3>1. j = FilingJob
      BY <2>2, <2>3, <2>4, FilingIsApart DEF Start, Return, At, Quiet, OnlyAsking
    <3>2. PICK place \in {"idle", "filing"} : Goto(j, place) /\ (Start(j) => place = "filing")
      BY <2>4, <3>1 DEF Start, Return, FirstPlace, FilingJob, Kind
    <3>3. at[j].place \in {"idle", "returned"}
      BY <2>4 DEF Start, Return, At
    <3>4. at'[j].place = place /\ \A q \in Actors \ {j} : at'[q] = at[q]
      BY <3>1, <3>2, AskersGo DEF Askers, Places
    <3>5. /\ UNCHANGED <<status, selection, letters>>
          /\ \A i \in Deliverers : job'[i] = job[i]
      BY <2>4, <3>1, ActorsAre, FilingIsApart DEF Start, Return, TypeOK
    <3>6. Askers \subseteq Actors /\ Generators \union Deliverers \subseteq Actors \ {j}
          /\ People \subseteq Actors \ {j}
      BY <3>1, ActorsAre, FilingIsApart DEF Askers
    <3>7. \A q \in Askers : at[q].place \in Starting <=> at'[q].place \in Starting
      BY <3>2, <3>3, <3>4, <3>6 DEF Starting
    <3>8. \A q \in Askers : at'[q].place \in Weighing => at[q].place \in Weighing
      BY <3>2, <3>3, <3>4, <3>6 DEF Weighing, Starting
    <3>9. OnlyAsking'
      BY <2>3, <3>1, <3>2, <3>4, <3>5, <3>6, <3>8 DEF OnlyAsking
    <3>10. SomebodyAsks'
      BY <2>3, <3>5, <3>7 DEF SomebodyAsks
    <3>. QED  BY <3>9, <3>10
  <2>5. ASSUME NEW p \in People, Attach(p) PROVE OnlyAsking' /\ SomebodyAsks'
    <3>1. p \in Askers /\ Askers \subseteq Actors
      BY ActorsAre DEF Askers
    <3>2. at'[p].place = "asking" /\ \A q \in Actors \ {p} : at'[q] = at[q]
      BY <2>5, <3>1, AskersGo DEF Attach, Places
    <3>3. UNCHANGED <<status, letters, job>>
      BY <2>5 DEF Attach
    <3>4. "asking" \in Starting /\ "asking" \notin Weighing
      BY DEF Starting, Weighing
    <3>5. OnlyAsking'
      BY <2>3, <3>1, <3>2, <3>3, <3>4, ActorsAre, FilingIsApart DEF OnlyAsking
    <3>. QED  BY <3>1, <3>2, <3>4, <3>5 DEF SomebodyAsks
  <2>6. ASSUME NEW p \in People, PressGenerate(p) \/ Retry(p) PROVE OnlyAsking' /\ SomebodyAsks'
    <3>1. ~PressGenerate(p)
      <4>1. <<"press", p[2]>> \in Generators /\ <<"press", p[2]>> \in Jobs
        BY ActorsAre DEF Generators
      <4>2. PressGenerate(p) => job'[<<"press", p[2]>>] = "pending"
        BY <4>1 DEF PressGenerate, TypeOK
      <4>. QED  BY <4>1, <4>2 DEF Quiet
    <3>2. \A i \in Deliverers : job[i] = "none" => job'[i] = "none"
      BY <2>6, <3>1, ActorsAre DEF Retry, TypeOK
    <3>3. UNCHANGED <<status, selection, letters, at>>
      BY <2>6, <3>1 DEF Retry
    <3>. QED  BY <2>3, <3>2, <3>3 DEF OnlyAsking, SomebodyAsks
  <2>7. ASSUME NEW p \in Askers, Beginning(p) \/ FileSigned(p) PROVE OnlyAsking' /\ SomebodyAsks'
    BY <2>2, <2>7, AskingStep
  <2>8. \/ \E p \in Askers : Beginning(p) \/ FileSigned(p)
        \/ \E j \in Jobs : Start(j) \/ Return(j)
        \/ \E p \in People : Attach(p) \/ PressGenerate(p) \/ Retry(p)
    BY <1>2, <2>1, <2>3, OthersRest DEF Next, Askers, Running, Pressing
  <2>. QED  BY <2>4, <2>5, <2>6, <2>7, <2>8
<1>. QED  BY <1>1, <1>2

-----------------------------------------------------------------------------
LEMMA BeginsWell == Init => TypeOK /\ HandInv /\ FiledInv /\ OneLiveLetter /\ LastInv
<1>. SUFFICES ASSUME Init PROVE HandInv /\ FiledInv /\ OneLiveLetter /\ LastInv
  BY TypeInit
<1>1. \A p \in Actors : at[p].place = "idle"
  BY DEF Init, Idle
<1>2. HandInv
  BY <1>1, ActorsAre DEF HandInv, Opened
<1>3. FiledInv
  BY <1>1, ActorsAre DEF Init, FiledInv, NoVersion
<1>4. OneLiveLetter
  BY DEF Init, OneLiveLetter
<1>5. LastInv
  <2>1. OnlyAsking
    BY <1>1, ActorsAre, FilingIsApart DEF Init, NoVersion, OnlyAsking, Askers, Before, Weighing, Starting
  <2>. QED  BY <2>1 DEF Init, LastInv, SomebodyAsks
<1>. QED  BY <1>2, <1>3, <1>4, <1>5

(* All that holds together through every step. *)
LEMMA Together == Spec => [](TypeOK /\ HandInv /\ FiledInv /\ OneLiveLetter /\ LastInv)
<1>1. TypeOK /\ HandInv /\ FiledInv /\ OneLiveLetter /\ LastInv /\ [Next]_vars
        => (TypeOK /\ HandInv /\ FiledInv /\ OneLiveLetter /\ LastInv)'
  BY TypeStep, FiledStep, OneLiveStep, LastStep
<1>. QED  BY BeginsWell, <1>1, PTL DEF Spec

(* Every variable of the cover letter's life holds a value of its kind: in particular, every *)
(* process that holds a package and a letter holds ones that may have a row.                 *)
THEOREM TypeCorrect == Spec => []TypeOK
  BY Together, PTL

(* However many documents are attached, letters generated and packages marked stale, the     *)
(* engagement never has two packages that somebody could still approve or deliver: the index *)
(* cover_letter_one_live_per_target refuses the second, and its refusal ends the call        *)
(* (cover-letter-service.ts).                                                                *)
THEOREM OneLetterLives == Spec => []OneLiveLetter
  BY Together, PTL

(* Any number of people who approve, rewrite and deliver at the same time, with any number   *)
(* of processes that end in between, never put into the client's Karbon documents a letter   *)
(* that nobody but its author approved (assertSeparationOfDuties, in                         *)
(* CoverLetterService.approve, and the choice of the last approved version in                *)
(* CompletionDeliveryService.deliver).                                                       *)
THEOREM OthersApprovedTheFiled == Spec => []FiledWasApproved
<1>1. FiledInv => FiledWasApproved
  BY DEF FiledInv, FiledWasApproved, ByAnother
<1>. QED  BY Together, <1>1, PTL

(* Of any number of people who attach documents and the job that files the signed letter,    *)
(* whichever is last starts the cover letter: each reads the status, the gate and the        *)
(* documents one after the other, and none of them can leave it to one who has finished      *)
(* (maybeStartCoverLetter, cover-letter-autostart.ts).  What a process that ended early did  *)
(* not ask is not asked again, so the theorem, as the property, is about runs without one.   *)
THEOREM TheLastStartsIt == Spec => []LastOneStarts
<1>1. LastInv => LastOneStarts
  <2>. SUFFICES ASSUME LastInv, Quiet, status # "SIGNED", selection # 0,
                       \A p \in Actors : at[p].place \notin Starting
                PROVE  FALSE
    BY DEF LastOneStarts, Quiet
  <2>. QED  BY ActorsAre DEF LastInv, SomebodyAsks, Askers
<1>. QED  BY Together, <1>1, PTL
=============================================================================
