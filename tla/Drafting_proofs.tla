-------------------------- MODULE Drafting_proofs --------------------------
(***************************************************************************)
(* What holds of module Drafting for every number of documents, drafts,    *)
(* attempts, workers, buttons pressed and faults.                          *)
(***************************************************************************)
EXTENDS Drafting, TLAPS

(* Whatever a process asks for is a status of the table. *)
LEMMA TargetsAre == \A place : Target(place) \in EngagementStatuses
  BY DEF Target, EngagementStatuses, Open

LEMMA ProcessesAre ==
  /\ Jobs \subseteq Processes /\ {Chooser, Reviewer, Sweep} \subseteq Processes
  /\ Chooser \notin Jobs /\ Reviewer \notin Jobs /\ Sweep \notin Jobs
  /\ <<"prepare", 0>> \in Jobs /\ <<"scan", 0>> \in Jobs
  /\ \A d \in Documents : <<"extract", d>> \in Jobs /\ <<"after", d>> \in Jobs
  /\ \A n \in Attempts : <<"generate", n>> \in Jobs /\ <<"upload", n>> \in Jobs
  BY DEF Processes, Jobs, Chooser, Reviewer, Sweep

LEMMA KindsAre ==
  \A j \in Jobs : /\ Kind(j) = "generate" => j[2] \in Attempts
                  /\ Kind(j) \in {"extract", "after"} => j[2] \in Documents
  BY DEF Jobs, Kind

(* The tuples that UNCHANGED names. *)
USE DEF rows, queue, counts

(***************************************************************************)
(* Types.                                                                  *)
(***************************************************************************)
(* What is in the database and in the counters. *)
Rows ==
  /\ gateOpen \in BOOLEAN /\ stalled \in BOOLEAN
  /\ drafts \in 0 .. MaxDrafts
  /\ made \in [Attempts -> 0 .. MaxDrafts]
  /\ chosen \subseteq Documents /\ read \subseteq Documents
  /\ presses \in 0 .. MaxPresses /\ faults \in 0 .. MaxFaults

JobStatuses == {"none", "pending", "running", "succeeded", "dead"}
(* The queue, and the processes that work from it. *)
Workers ==
  /\ status \in EngagementStatuses
  /\ job \in [Jobs -> JobStatuses]
  /\ tries \in [Jobs -> Nat]
  /\ at \in [Processes -> Places]
  /\ writing \in [Processes -> EngagementStatuses \union {"NONE"}]
  /\ \A j \in Jobs : at[j] \notin {"idle", "surfacing"} => job[j] = "running"
  /\ \A p \in Processes : writing[p] # "NONE" => at[p] \in Moving /\ writing[p] = Target(at[p])
  /\ \A j \in Jobs : at[j] = "reading" => Kind(j) = "extract"

LEMMA TypeParts == Rows /\ Workers => TypeOK
  BY DEF TypeOK, Rows, Workers, JobStatuses

(* Whatever becomes of one process's place, job and transition, the others keep theirs; and a *)
(* job that is asked for, retried or purged is not running.                                   *)
LEMMA Steps ==
  ASSUME Workers, NEW p \in Processes, NEW place \in Places, at' = [at EXCEPT ![p] = place],
         job' \in [Jobs -> JobStatuses], tries' \in [Jobs -> Nat], status' \in EngagementStatuses,
         writing' \in [Processes -> EngagementStatuses \union {"NONE"}],
         \A q \in Processes \ {p} : writing'[q] = writing[q],
         writing'[p] # "NONE" => place \in Moving /\ writing'[p] = Target(place),
         \A j \in Jobs \ {p} : job[j] = "running" => job'[j] = "running",
         p \in Jobs => place \in {"idle", "surfacing"} \/ job'[p] = "running",
         p \in Jobs /\ place = "reading" => Kind(p) = "extract"
  PROVE  Workers'
<1>1. at' \in [Processes -> Places] /\ at'[p] = place /\ \A q \in Processes \ {p} : at'[q] = at[q]
  BY DEF Workers
<1>2. \A j \in Jobs : at'[j] \notin {"idle", "surfacing"} => job'[j] = "running"
  <2>. SUFFICES ASSUME NEW j \in Jobs, at'[j] \notin {"idle", "surfacing"} PROVE job'[j] = "running"
    OBVIOUS
  <2>1. CASE j = p
    BY <1>1, <2>1
  <2>2. CASE j # p
    BY <1>1, <2>2, ProcessesAre DEF Workers
  <2>. QED  BY <2>1, <2>2
<1>3. \A q \in Processes : writing'[q] # "NONE" => at'[q] \in Moving /\ writing'[q] = Target(at'[q])
  BY <1>1 DEF Workers
<1>4. \A j \in Jobs : at'[j] = "reading" => Kind(j) = "extract"
  BY <1>1, ProcessesAre DEF Workers
<1>. QED  BY <1>1, <1>2, <1>3, <1>4 DEF Workers

(* A process that goes from one piece of its work to the next, jobs being asked for meanwhile. *)
LEMMA Goes ==
  ASSUME Workers, NEW p \in Processes, NEW place \in Places, Goto(p, place),
         at[p] \in {"idle", "surfacing"} => p \notin Jobs \/ place = "idle",
         writing[p] = "NONE", status' \in EngagementStatuses, UNCHANGED writing, place # "reading",
         job' \in [Jobs -> JobStatuses], tries' \in [Jobs -> Nat],
         \A j \in Jobs : job[j] = "running" => job'[j] = "running"
  PROVE  Workers'
<1>1. at' = [at EXCEPT ![p] = place]
  BY DEF Goto
<1>2. p \in Jobs => place \in {"idle", "surfacing"} \/ job'[p] = "running"
  BY DEF Workers
<1>. QED  BY <1>1, <1>2, Steps DEF Workers

(* A process outside a transition is not writing. *)
LEMMA NotWriting ==
  ASSUME Workers, NEW p \in Processes, at[p] \notin Moving
  PROVE  writing[p] = "NONE"
  BY DEF Workers

(* Asking for a job disturbs none that runs. *)
LEMMA Enqueued ==
  ASSUME Workers, NEW j
  PROVE  /\ Enqueue(j) =>
              job' \in [Jobs -> JobStatuses] /\ \A k \in Jobs : job[k] = "running" => job'[k] = "running"
         /\ EnqueueAgain(j) =>
              /\ job' \in [Jobs -> JobStatuses] /\ tries' \in [Jobs -> Nat]
              /\ \A k \in Jobs : job[k] = "running" => job'[k] = "running"
<1>1. job \in [Jobs -> JobStatuses] /\ tries \in [Jobs -> Nat]
  BY DEF Workers
<1>2. ASSUME Enqueue(j)
      PROVE  job' \in [Jobs -> JobStatuses] /\ \A k \in Jobs : job[k] = "running" => job'[k] = "running"
  BY <1>1, <1>2 DEF Enqueue, JobStatuses
<1>3. ASSUME EnqueueAgain(j)
      PROVE  /\ job' \in [Jobs -> JobStatuses] /\ tries' \in [Jobs -> Nat]
             /\ \A k \in Jobs : job[k] = "running" => job'[k] = "running"
  BY <1>1, <1>3 DEF EnqueueAgain, Live, JobStatuses
<1>. QED  BY <1>2, <1>3

(* A worker gives its job back, or the queue takes it. *)
LEMMA Settled ==
  ASSUME Workers, Rows, NEW j \in Jobs, NEW state \in JobStatuses, NEW count \in Nat,
         NEW place \in {"idle", "surfacing"}, Settle(j, state, count), Goto(j, place),
         status' = status, UNCHANGED <<gateOpen, stalled, presses>>, faults' \in 0 .. MaxFaults,
         writing' = [writing EXCEPT ![j] = "NONE"] \/ (writing' = writing /\ writing[j] = "NONE")
  PROVE  Rows' /\ Workers'
<1>1. /\ job' = [job EXCEPT ![j] = state] /\ tries' = [tries EXCEPT ![j] = count]
      /\ at' = [at EXCEPT ![j] = place] /\ UNCHANGED <<drafts, chosen, read>>
  BY DEF Settle, Goto
<1>2. made' \in [Attempts -> 0 .. MaxDrafts]
  <2>1. MaxDrafts \in Nat
    BY DraftingAssumption
  <2>. QED  BY <2>1, KindsAre DEF Settle, Rows
<1>3. /\ j \in Processes /\ place \in Places /\ status' \in EngagementStatuses
      /\ job' \in [Jobs -> JobStatuses] /\ tries' \in [Jobs -> Nat]
      /\ \A k \in Jobs \ {j} : job[k] = "running" => job'[k] = "running"
  BY <1>1, ProcessesAre DEF Workers, Places, Moving
<1>4. /\ writing' \in [Processes -> EngagementStatuses \union {"NONE"}]
      /\ \A q \in Processes \ {j} : writing'[q] = writing[q]
      /\ writing'[j] = "NONE"
  BY <1>3 DEF Workers
<1>5. Workers'
  BY <1>1, <1>3, <1>4, Steps
<1>. QED  BY <1>1, <1>2, <1>5 DEF Rows

LEMMA TypeInit == Init => Rows /\ Workers
<1>. SUFFICES ASSUME Init PROVE Rows /\ Workers
  OBVIOUS
<1>1. Rows
  <2>1. made \in [Attempts -> 0 .. MaxDrafts] /\ 0 \in 0 .. MaxPresses /\ 0 \in 0 .. MaxFaults
    BY DraftingAssumption DEF Init
  <2>2. gateOpen \in BOOLEAN /\ stalled \in BOOLEAN
    BY Zenon DEF Init
  <2>. QED  BY <2>1, <2>2, DraftingAssumption DEF Init, Rows
<1>2. job \in [Jobs -> JobStatuses] /\ tries \in [Jobs -> Nat]
  BY DEF Init, JobStatuses
<1>3. "idle" \in Places /\ "NOT_STARTED" \in EngagementStatuses
  BY DEF Places, EngagementStatuses, Open
<1>4. /\ at \in [Processes -> Places] /\ \A p \in Processes : at[p] = "idle"
      /\ writing \in [Processes -> EngagementStatuses \union {"NONE"}]
      /\ \A p \in Processes : writing[p] = "NONE"
  BY <1>3 DEF Init
<1>. QED  BY <1>2, <1>1, <1>3, <1>4, ProcessesAre DEF Init, Workers

(* A transition goes on to a place, or out. *)
LEMMA PlacesFollow ==
  /\ \A place : Moved(place) \in Places \ {"reading"} /\ Refused(place) \in Places \ {"reading"}
  /\ Moved("surfacing") = "idle" /\ Refused("surfacing") = "idle"
<1>1. \A place :
        /\ Moved(place) \in {"asking", "admitting", "handing", "threw", "threw_retryable", "returned", "idle"}
        /\ Refused(place) \in {"failing", "threw", "idle"}
  BY DEF Moved, Refused
<1>2. {"asking", "admitting", "handing", "threw", "threw_retryable", "returned", "idle", "failing"}
        \subseteq Places \ {"reading"}
  BY DEF Places, Moving
<1>. QED  BY <1>1, <1>2 DEF Moved, Refused

LEMMA TransitionTypes ==
  ASSUME Rows, Workers, NEW p \in Processes, Transition(p)
  PROVE  Rows' /\ Workers'
<1>1. CASE ReadStatus(p)
  <2>1. /\ at[p] \in Moving /\ writing[p] = "NONE"
        /\ UNCHANGED <<status, job, tries>> /\ Rows'
    BY <1>1 DEF ReadStatus, Rows
  <2>2. CASE \E place \in {Moved(at[p]), Refused(at[p])} : Goto(p, place) /\ UNCHANGED writing
    BY <2>1, <2>2, PlacesFollow, Goes DEF Workers, Moving
  <2>3. CASE writing' = [writing EXCEPT ![p] = Target(at[p])] /\ UNCHANGED at
    BY <2>1, <2>3, TargetsAre DEF Workers
  <2>. QED  BY <1>1, <2>1, <2>2, <2>3 DEF ReadStatus
<1>2. CASE WriteStatus(p)
  <2>1. /\ writing[p] # "NONE" /\ at[p] \in Moving
        /\ writing' = [writing EXCEPT ![p] = "NONE"] /\ UNCHANGED <<job, tries>>
        /\ status' \in {status, writing[p]} /\ stalled' \in {stalled, FALSE}
        /\ UNCHANGED <<gateOpen, drafts, made, chosen, read, presses, faults>>
    BY <1>2 DEF WriteStatus, Workers
  <2>2. PICK place \in {Moved(at[p]), Refused(at[p])} : at' = [at EXCEPT ![p] = place]
    BY <1>2 DEF WriteStatus, Goto
  <2>3. Rows'
    BY <2>1 DEF Rows
  <2>4. place \in Places \ {"reading"} /\ (p \in Jobs => place = "idle" \/ job'[p] = "running")
    BY <2>1, <2>2, PlacesFollow DEF Workers, Moving
  <2>5. Workers'
    BY <2>1, <2>2, <2>4, Steps DEF Workers
  <2>. QED  BY <2>3, <2>5
<1>. QED  BY <1>1, <1>2 DEF Transition

(* The worker process. *)
LEMMA WorkerTypes ==
  ASSUME Rows, Workers, NEW j \in Jobs, Start(j) \/ Return(j) \/ Fail(j) \/ Breaks(j) \/ Die(j)
  PROVE  Rows' /\ Workers'
<1>0. j \in Processes
  BY ProcessesAre
<1>1. CASE Start(j)
  <2>1. FirstPlace(Kind(j)) = "reading" => Kind(j) = "extract"
    BY DEF FirstPlace, Jobs, Kind
  <2>2. FirstPlace(Kind(j)) \in Places
    <3>1. Kind(j) \in {"prepare", "scan", "extract", "after", "generate", "upload"}
      BY DEF Jobs, Kind
    <3>2. {"preparing", "scanning", "reading", "regenerating", "generating", "publishing"} \subseteq Places
      BY DEF Places, Moving
    <3>. QED  BY <3>1, <3>2 DEF FirstPlace
  <2>3. job' = [job EXCEPT ![j] = "running"] /\ tries' = [tries EXCEPT ![j] = @ + 1]
    BY <1>1 DEF Start
  <2>4. /\ job' \in [Jobs -> JobStatuses] /\ tries' \in [Jobs -> Nat] /\ job'[j] = "running"
        /\ \A k \in Jobs \ {j} : job[k] = "running" => job'[k] = "running"
    BY <2>3 DEF Workers, JobStatuses
  <2>5. writing[j] = "NONE"
    BY <1>0, <1>1, NotWriting DEF Start, Moving
  <2>6. Rows' /\ UNCHANGED <<status, writing>> /\ at' = [at EXCEPT ![j] = FirstPlace(Kind(j))]
    BY <1>1 DEF Start, Rows, Goto
  <2>. QED  BY <1>0, <2>1, <2>2, <2>4, <2>5, <2>6, Steps DEF Workers
<1>2. CASE Return(j)
  <2>1. writing[j] = "NONE"
    BY <1>0, <1>2, NotWriting DEF Return, Moving
  <2>2. faults' \in 0 .. MaxFaults /\ "succeeded" \in JobStatuses
    BY <1>2 DEF Return, Rows, JobStatuses
  <2>. QED  BY <1>2, <2>1, <2>2, Settled DEF Return
<1>3. CASE Fail(j)
  <2>1. writing[j] = "NONE"
    BY <1>0, <1>3, NotWriting DEF Fail, Moving
  <2>2. faults' \in 0 .. MaxFaults /\ {"pending", "dead"} \subseteq JobStatuses /\ tries[j] \in Nat
    BY <1>3 DEF Fail, Rows, JobStatuses, Workers
  <2>3. CASE Settle(j, "pending", tries[j]) /\ Goto(j, "idle")
    BY <1>3, <2>1, <2>2, <2>3, Settled DEF Fail
  <2>4. CASE Settle(j, "dead", 0) /\ Goto(j, "surfacing")
    BY <1>3, <2>1, <2>2, <2>4, Settled DEF Fail
  <2>5. \/ Settle(j, "pending", tries[j]) /\ Goto(j, "idle")
        \/ Settle(j, "dead", 0) /\ Goto(j, "surfacing")
    <3>1. CASE at[j] = "threw_retryable" /\ tries[j] < MaxTries
      BY <1>3, <3>1 DEF Fail
    <3>2. CASE ~(at[j] = "threw_retryable" /\ tries[j] < MaxTries)
      BY <1>3, <3>2 DEF Fail
    <3>. QED  BY <3>1, <3>2
  <2>. QED  BY <2>3, <2>4, <2>5
<1>4. CASE Breaks(j)
  <2>1. /\ at[j] \notin Moving /\ at[j] \notin {"idle", "surfacing"} /\ UNCHANGED <<status, job, tries, writing>>
    BY <1>4 DEF Breaks, Moving
  <2>2. faults' \in 0 .. MaxFaults
    BY <1>4, DraftingAssumption DEF Breaks, Happens, Rows
  <2>3. Rows'
    BY <1>4, <2>2 DEF Breaks, Rows
  <2>4. PICK place \in {"faltering", "threw_retryable", "failing", "threw"} : Goto(j, place)
    BY <1>4 DEF Breaks
  <2>5. place \in Places
    BY DEF Places, Moving
  <2>. QED  BY <1>0, <2>1, <2>3, <2>4, <2>5, Goes, NotWriting DEF Workers
<1>5. CASE Die(j)
  <2>1. faults' \in 0 .. MaxFaults
    BY <1>5, DraftingAssumption DEF Die, Happens, Rows
  <2>2. writing' = [writing EXCEPT ![j] = "NONE"] /\ UNCHANGED <<status, gateOpen, stalled, presses>>
        /\ Goto(j, "idle")
    BY <1>5 DEF Die, Forget
  <2>3. CASE job[j] = "running"
    <3>1. {"pending", "dead"} \subseteq JobStatuses /\ tries[j] \in Nat
      BY DEF JobStatuses, Workers
    <3>2. PICK state \in {"pending", "dead"} : Settle(j, state, tries[j])
      BY <1>5, <2>3 DEF Die
    <3>3. state \in JobStatuses
      BY <3>1, <3>2
    <3>4. status' = status /\ UNCHANGED <<gateOpen, stalled, presses>>
      BY <2>2
    <3>. QED  BY <2>1, <2>2, <3>1, <3>2, <3>3, <3>4, Settled
  <2>4. CASE job[j] # "running"
    <3>1. Rows' /\ UNCHANGED <<job, tries>>
      BY <1>5, <2>1, <2>2, <2>4 DEF Die, Rows
    <3>2. /\ writing' \in [Processes -> EngagementStatuses \union {"NONE"}] /\ writing'[j] = "NONE"
          /\ \A q \in Processes \ {j} : writing'[q] = writing[q]
      BY <1>0, <2>2 DEF Workers
    <3>3. at' = [at EXCEPT ![j] = "idle"] /\ "idle" \in Places
      BY <2>2 DEF Goto, Places
    <3>. QED  BY <1>0, <2>2, <3>1, <3>2, <3>3, Steps DEF Workers
  <2>. QED  BY <2>3, <2>4
<1>. QED  BY <1>1, <1>2, <1>3, <1>4, <1>5

(* Preparation, extraction and the scan. *)
LEMMA PrepareTypes ==
  ASSUME Rows, Workers, NEW j \in Jobs,
         Prepare(j) \/ AskStatus(j) \/ Autostart(j) \/ Extract(j) \/ QueuePreparation(j) \/ FinishScan(j)
  PROVE  Rows' /\ Workers'
<1>0. j \in Processes
  BY ProcessesAre
<1>1. /\ at[j] \notin Moving /\ at[j] \notin {"idle", "surfacing"}
      /\ UNCHANGED <<status, writing, drafts, made, chosen, stalled, presses, faults>>
  BY DEF Prepare, AskStatus, Autostart, Extract, QueuePreparation, FinishScan, Moving
<1>2. \E place \in {"announcing", "counting", "returned", "blocked", "handing"} : Goto(j, place)
  BY DEF Prepare, AskStatus, Autostart, Extract, QueuePreparation, FinishScan
<1>3. {"announcing", "counting", "returned", "blocked", "handing"} \subseteq Places
  BY DEF Places, Moving
<1>4. gateOpen' \in BOOLEAN
  BY Zenon DEF Rows, Prepare, AskStatus, Autostart, Extract, QueuePreparation, FinishScan
<1>5. read' \subseteq Documents
  <2>1. CASE Extract(j)
    <3>1. Kind(j) = "extract"
      BY <2>1 DEF Extract, Workers
    <3>2. j[2] \in Documents
      BY <3>1, KindsAre
    <3>3. read' = read \/ read' = read \union {j[2]}
      BY <2>1 DEF Extract
    <3>. QED  BY <3>2, <3>3 DEF Rows
  <2>. QED  BY <2>1 DEF Rows, Prepare, AskStatus, Autostart, QueuePreparation, FinishScan
<1>6. /\ job' \in [Jobs -> JobStatuses] /\ tries' \in [Jobs -> Nat]
      /\ \A k \in Jobs : job[k] = "running" => job'[k] = "running"
  <2>1. CASE Autostart(j)
    <3>1. UNCHANGED tries /\ (UNCHANGED job \/ Enqueue(<<"generate", drafts + 1>>))
      BY <2>1 DEF Autostart
    <3>. QED  BY <3>1, Enqueued DEF Workers
  <2>2. CASE QueuePreparation(j)
    BY <2>2, Enqueued DEF QueuePreparation, Workers
  <2>3. CASE FinishScan(j)
    BY <2>3, Enqueued DEF FinishScan, Workers
  <2>. QED  BY <2>1, <2>2, <2>3 DEF Prepare, AskStatus, Extract, Workers
<1>7. Rows'
  BY <1>1, <1>4, <1>5 DEF Rows
<1>8. Workers'
  BY <1>0, <1>1, <1>2, <1>3, <1>6, Goes, NotWriting DEF Workers
<1>. QED  BY <1>7, <1>8

(* Generation and publication. *)
LEMMA GenerateTypes ==
  ASSUME Rows, Workers, NEW j \in Jobs, Admit(j) \/ Render(j) \/ QueueUpload(j) \/ Publish(j)
  PROVE  Rows' /\ Workers'
<1>0. j \in Processes
  BY ProcessesAre
<1>1. /\ at[j] \notin Moving /\ at[j] \notin {"idle", "surfacing"}
      /\ UNCHANGED <<status, gateOpen, writing, chosen, read, stalled, presses, faults, tries>>
  BY DEF Admit, Render, QueueUpload, Publish, Moving
<1>2. \E place \in {"rendering", "failing", "drafted", "readied", "unready", "returned"} : Goto(j, place)
  BY DEF Admit, Render, QueueUpload, Publish
<1>3. {"rendering", "failing", "drafted", "readied", "unready", "returned"} \subseteq Places
  BY DEF Places, Moving
<1>4. drafts' \in 0 .. MaxDrafts /\ made' \in [Attempts -> 0 .. MaxDrafts]
  <2>1. CASE Render(j)
    <3>1. drafts + 1 \in 0 .. MaxDrafts
      BY <2>1, DraftingAssumption DEF Render, Rows
    <3>. QED  BY <2>1, <3>1 DEF Render, Rows
  <2>. QED  BY <1>0, <2>1 DEF Admit, QueueUpload, Publish, Rows
<1>5. /\ job' \in [Jobs -> JobStatuses] /\ \A k \in Jobs : job[k] = "running" => job'[k] = "running"
  <2>1. CASE QueueUpload(j)
    BY <2>1, Enqueued DEF QueueUpload
  <2>. QED  BY <2>1 DEF Admit, Render, Publish, Workers
<1>6. Rows'
  BY <1>1, <1>4 DEF Rows
<1>7. Workers'
  BY <1>0, <1>1, <1>2, <1>3, <1>5, Goes, NotWriting DEF Workers
<1>. QED  BY <1>6, <1>7

(* The sweep, and time. *)
LEMMA SweepTypes ==
  ASSUME Rows, Workers, HalfHourPasses \/ SweepOnce
  PROVE  Rows' /\ Workers'
<1>1. CASE HalfHourPasses
  BY <1>1 DEF HalfHourPasses, Rows, Workers
<1>2. CASE SweepOnce
  <2>1. Rows' /\ UNCHANGED <<status, job, tries, writing>> /\ at[Sweep] \notin Moving
    BY <1>2 DEF SweepOnce, SelectParked, CountLive, FindLastFailure, Rows, Moving
  <2>2. \E place \in {"considering", "idle", "looking", "burying", "returning"} : Goto(Sweep, place)
    BY <1>2 DEF SweepOnce, SelectParked, CountLive, FindLastFailure
  <2>3. {"considering", "idle", "looking", "burying", "returning"} \subseteq Places
    BY DEF Places, Moving
  <2>. QED  BY <2>1, <2>2, <2>3, Goes, NotWriting, ProcessesAre DEF Workers
<1>. QED  BY <1>1, <1>2

(* People and the purge, who ask for jobs and take them back, or begin a transition. *)
LEMMA PeopleTypes ==
  ASSUME Rows, Workers, People \/ \E j \in Jobs : PurgeJob(j)
  PROVE  Rows' /\ Workers'
<1>. DEFINE Pressed ==
              /\ presses' \in 0 .. MaxPresses /\ gateOpen' \in BOOLEAN /\ chosen' \subseteq Documents
              /\ UNCHANGED <<status, drafts, made, read, stalled, faults, writing>>
<1>1. Pressed => Rows'
  BY DEF Rows
<1>2. Press => presses' \in 0 .. MaxPresses /\ UNCHANGED faults
  BY DraftingAssumption DEF Press, Rows
<1>. HIDE DEF Pressed
<1>. USE DEF Rows
<1>3. ASSUME NEW d \in Documents, Choose(d) PROVE Rows' /\ Workers'
  <2>1. Rows'
    BY <1>2, <1>3 DEF Choose
  <2>2. /\ Goto(Chooser, "choosing") /\ "choosing" \in Places /\ "choosing" # "reading"
        /\ at[Chooser] = "idle" /\ UNCHANGED <<status, writing>> /\ EnqueueAgain(<<"extract", d>>)
    BY <1>3 DEF Choose, Places, Moving
  <2>3. writing[Chooser] = "NONE"
    BY <2>2, NotWriting, ProcessesAre DEF Moving
  <2>4. Workers'
    BY <2>2, <2>3, Goes, Enqueued, ProcessesAre DEF Workers
  <2>. QED  BY <2>1, <2>4
<1>4. ASSUME StartReview \/ RequestChanges PROVE Rows' /\ Workers'
  <2>1. Rows' /\ UNCHANGED <<status, writing, job, tries>> /\ at[Reviewer] = "idle"
    BY <1>4 DEF StartReview, RequestChanges
  <2>2. PICK place \in {"reviewing", "changing"} : Goto(Reviewer, place)
    BY <1>4 DEF StartReview, RequestChanges
  <2>3. place \in Places /\ place # "reading"
    BY DEF Places, Moving
  <2>4. writing[Reviewer] = "NONE"
    BY <2>1, NotWriting, ProcessesAre DEF Moving
  <2>5. Workers'
    BY <2>1, <2>2, <2>3, <2>4, Goes, ProcessesAre DEF Workers
  <2>. QED  BY <2>1, <2>5
<1>5. ASSUME UNCHANGED <<status, at, writing>>, job' \in [Jobs -> JobStatuses], tries' \in [Jobs -> Nat],
             \A k \in Jobs : job[k] = "running" => job'[k] = "running"
      PROVE  Workers'
  BY <1>5 DEF Workers
<1>6. ASSUME PressGenerate \/ PressScan \/ ResolveBlockers \/ \E d \in Documents : Attach(d)
      PROVE  Rows' /\ Workers'
  <2>1. gateOpen' \in BOOLEAN
    <3>1. gateOpen' = gateOpen \/ gateOpen' = TRUE
      BY <1>6 DEF PressGenerate, PressScan, ResolveBlockers, Attach
    <3>. QED  BY <3>1, Zenon
  <2>2. Rows' /\ UNCHANGED <<status, at, writing>>
    BY <1>2, <1>6, <2>1 DEF PressGenerate, PressScan, ResolveBlockers, Attach
  <2>3. \/ UNCHANGED <<job, tries>>
        \/ \E j : Enqueue(j) /\ UNCHANGED tries
        \/ \E j : EnqueueAgain(j)
    BY <1>6 DEF PressGenerate, PressScan, ResolveBlockers, Attach
  <2>4. /\ job' \in [Jobs -> JobStatuses] /\ tries' \in [Jobs -> Nat]
        /\ \A k \in Jobs : job[k] = "running" => job'[k] = "running"
    BY <2>3, Enqueued DEF Workers
  <2>. QED  BY <1>5, <2>2, <2>4
<1>7. ASSUME NEW j \in Jobs, Retry(j) \/ PurgeJob(j) PROVE Rows' /\ Workers'
  <2>1. Rows' /\ UNCHANGED <<status, at, writing>>
    BY <1>2, <1>7 DEF Retry, PurgeJob
  <2>2. /\ job' \in [Jobs -> JobStatuses] /\ tries' \in [Jobs -> Nat]
        /\ \A k \in Jobs : job[k] = "running" => job'[k] = "running"
    BY <1>7 DEF Retry, PurgeJob, Workers, JobStatuses
  <2>. QED  BY <1>5, <2>1, <2>2
<1>. HIDE DEF Rows
<1>. QED  BY <1>3, <1>4, <1>6, <1>7 DEF People

LEMMA TypeStep ==
  ASSUME Rows, Workers, [Next]_vars
  PROVE  Rows' /\ Workers'
<1>1. CASE UNCHANGED vars
  BY <1>1 DEF vars, Rows, Workers
<1>2. ASSUME NEW j \in Jobs, Work(j) PROVE Rows' /\ Workers'
  BY <1>2, WorkerTypes, PrepareTypes, GenerateTypes DEF Work
<1>. QED  BY <1>1, <1>2, TransitionTypes, WorkerTypes, SweepTypes, PeopleTypes DEF Next

(***************************************************************************)
(* The status.                                                             *)
(***************************************************************************)
(* Only the write of a transition moves the status. *)
LEMMA OnlyTransitions ==
  ASSUME [Next]_vars, status' # status
  PROVE  \E p \in Processes : WriteStatus(p)
<1>1. ASSUME NEW j \in Jobs, Start(j) \/ Work(j) PROVE status' = status
  BY <1>1 DEF Start, Work, Return, Fail, Prepare, AskStatus, Autostart, Extract, QueuePreparation,
              FinishScan, Admit, Render, QueueUpload, Publish
<1>2. ASSUME NEW j \in Jobs, Breaks(j) \/ Die(j) \/ PurgeJob(j) PROVE status' = status
  BY <1>2 DEF Breaks, Die, PurgeJob
<1>3. ASSUME HalfHourPasses \/ SweepOnce PROVE status' = status
  BY <1>3 DEF HalfHourPasses, SweepOnce, SelectParked, CountLive, FindLastFailure
<1>4. ASSUME People PROVE status' = status
  BY <1>4 DEF People, Choose, Attach, PressGenerate, PressScan, ResolveBlockers, StartReview,
              RequestChanges, Retry
<1>5. \A p \in Processes : ReadStatus(p) => status' = status
  BY DEF ReadStatus
<1>. QED  BY <1>1, <1>2, <1>3, <1>4, <1>5 DEF Next, vars, Transition

(* A process that is about to say that there is a draft, or that one is ready, knows of one. *)
DraftInv ==
  /\ ReviewHasDraft
  /\ \A p \in Processes : at[p] \in {"drafted", "readied"} => drafts > 0

LEMMA DraftStep ==
  ASSUME Rows, Workers, DraftInv, [Next]_vars
  PROVE  DraftInv'
<1>0. /\ at \in [Processes -> Places] /\ drafts \in Nat
      /\ \A p \in Processes : writing[p] # "NONE" => writing[p] = Target(at[p])
  BY DraftingAssumption DEF Rows, Workers
<1>1. drafts' \in {drafts, drafts + 1}
  <2>1. ASSUME NEW p \in Processes, Transition(p) PROVE drafts' = drafts
    BY <2>1 DEF Transition, ReadStatus, WriteStatus
  <2>2. ASSUME NEW j \in Jobs, Start(j) \/ Return(j) \/ Fail(j) \/ Breaks(j) \/ Die(j) \/ PurgeJob(j)
        PROVE  drafts' = drafts
    BY <2>2 DEF Start, Return, Fail, Breaks, Die, PurgeJob, Settle
  <2>3. ASSUME NEW j \in Jobs, Work(j) PROVE drafts' \in {drafts, drafts + 1}
    BY <2>2, <2>3 DEF Work, Prepare, AskStatus, Autostart, Extract, QueuePreparation, FinishScan,
                      Admit, Render, QueueUpload, Publish
  <2>4. ASSUME HalfHourPasses \/ SweepOnce \/ People PROVE drafts' = drafts
    BY <2>4 DEF HalfHourPasses, SweepOnce, SelectParked, CountLive, FindLastFailure, People, Choose,
                Attach, PressGenerate, PressScan, ResolveBlockers, StartReview, RequestChanges, Retry
  <2>. QED  BY <2>1, <2>2, <2>3, <2>4 DEF Next, vars
<1>2. drafts > 0 => drafts' > 0
  BY <1>0, <1>1
<1>3. status' \in {"DRAFT_READY", "REVIEW_REQUIRED"} => drafts' > 0
  <2>1. CASE status' = status
    BY <1>2, <2>1 DEF DraftInv, ReviewHasDraft
  <2>2. CASE status' # status
    <3>1. PICK p \in Processes : WriteStatus(p)
      BY <2>2, OnlyTransitions
    <3>2. status' = Target(at[p])
      BY <1>0, <2>2, <3>1 DEF WriteStatus
    <3>3. status' \in {"DRAFT_READY", "REVIEW_REQUIRED"} => at[p] \in {"drafted", "readied"}
      BY <3>2 DEF Target
    <3>. QED  BY <1>2, <3>3 DEF DraftInv
  <2>. QED  BY <2>1, <2>2
<1>4. ASSUME NEW p \in Processes, at'[p] \in {"drafted", "readied"} PROVE drafts' > 0
  <2>1. CASE at'[p] = at[p]
    BY <1>2, <1>4, <2>1 DEF DraftInv
  <2>2. ASSUME NEW q \in Processes, NEW place, Goto(q, place), place \notin {"drafted", "readied"}
        PROVE  drafts' > 0
    BY <1>0, <1>2, <1>4, <2>2 DEF Goto, DraftInv
  <2>3. ASSUME NEW q \in Processes, Transition(q) PROVE drafts' > 0
    <3>1. Moved(at[q]) \notin {"drafted", "readied"} /\ Refused(at[q]) \notin {"drafted", "readied"}
      BY DEF Moved, Refused
    <3>. QED  BY <2>1, <2>2, <2>3, <3>1 DEF Transition, ReadStatus, WriteStatus
  <2>4. ASSUME NEW j \in Jobs, Start(j) \/ Return(j) \/ Fail(j) \/ Breaks(j) \/ Die(j) \/ PurgeJob(j)
        PROVE  drafts' > 0
    <3>1. FirstPlace(Kind(j)) \notin {"drafted", "readied"}
      BY DEF FirstPlace, Jobs, Kind
    <3>. QED  BY <2>1, <2>2, <2>4, <3>1, ProcessesAre DEF Start, Return, Fail, Breaks, Die, PurgeJob
  <2>5. ASSUME NEW j \in Jobs, Prepare(j) \/ AskStatus(j) \/ Autostart(j) \/ Extract(j) \/ QueuePreparation(j)
        PROVE  drafts' > 0
    BY <2>2, <2>5, ProcessesAre DEF Prepare, AskStatus, Autostart, Extract, QueuePreparation
  <2>6. ASSUME NEW j \in Jobs, FinishScan(j) \/ Admit(j) \/ QueueUpload(j) PROVE drafts' > 0
    BY <2>2, <2>6, ProcessesAre DEF FinishScan, Admit, QueueUpload
  <2>7. ASSUME NEW j \in Jobs, Render(j) PROVE drafts' > 0
    BY <1>0, <2>7 DEF Render
  <2>8. ASSUME NEW j \in Jobs, Publish(j) PROVE drafts' > 0
    BY <1>0, <1>2, <2>2, <2>8, ProcessesAre DEF Publish, DraftInv, ReviewHasDraft
  <2>9. ASSUME HalfHourPasses \/ SweepOnce \/ People PROVE drafts' > 0
    BY <2>1, <2>2, <2>9, ProcessesAre
       DEF HalfHourPasses, SweepOnce, SelectParked, CountLive, FindLastFailure, People, Choose, Attach,
           PressGenerate, PressScan, ResolveBlockers, StartReview, RequestChanges, Retry
  <2>. QED  BY <2>1, <2>3, <2>4, <2>5, <2>6, <2>7, <2>8, <2>9 DEF Next, Work, vars
<1>. QED  BY <1>3, <1>4 DEF DraftInv, ReviewHasDraft

-----------------------------------------------------------------------------
LEMMA BeginsWell == Init => Rows /\ Workers /\ DraftInv
<1>1. Init => Rows /\ Workers
  BY TypeInit
<1>2. Init => DraftInv
  BY DEF Init, DraftInv, ReviewHasDraft
<1>. QED  BY <1>1, <1>2

(* All that holds together through every step. *)
LEMMA Together == Spec => [](Rows /\ Workers /\ DraftInv)
<1>1. Rows /\ Workers /\ DraftInv /\ [Next]_vars => (Rows /\ Workers /\ DraftInv)'
  BY TypeStep, DraftStep
<1>. QED  BY BeginsWell, <1>1, PTL DEF Spec

(* Every variable of the drafting of an engagement holds a value of its kind, however its jobs *)
(* fail, die and are run again: a handler is at work only while its job runs, and a process    *)
(* writes only the status that the place it is at asks for (handlers.ts, index.ts).            *)
THEOREM TypeCorrect == Spec => []TypeOK
<1>1. Rows /\ Workers => TypeOK
  BY TypeParts
<1>. QED  BY Together, <1>1, PTL

(* An engagement that says DRAFT_READY or REVIEW_REQUIRED has a version to read: the only     *)
(* writers of those statuses are the generation that has rendered one and the publication     *)
(* that found DRAFT_READY, and no version of it is deleted (handlers.ts, generation-service.ts). *)
THEOREM ReviewersHaveADraft == Spec => []ReviewHasDraft
<1>1. DraftInv => ReviewHasDraft
  BY DEF DraftInv
<1>. QED  BY Together, <1>1, PTL
=============================================================================
