--------------------------- MODULE JobQueue_proofs ---------------------------
(***************************************************************************)
(* What JobQueue promises for every number of keys, rows, workers, slots,  *)
(* callers, pages and attempts.  Three inductive invariants: the types;    *)
(* the history invariant, which needs no assumption about the environment; *)
(* and the lease invariant, which holds when no lock outlives its worker's *)
(* patience (~SlowHandlers) and Retry finds what its page showed           *)
(* (~StalePages).                                                          *)
(***************************************************************************)
EXTENDS JobQueue, TLAPS

(* Every step of the queue keeps every variable in its type, attempts within *)
(* maxAttempts included: the bound in the claim query is what does it.       *)
THEOREM TypeCorrect == Spec => []TypeOK
<1>1. Init => TypeOK
  BY QueueAssumption DEF Init, TypeOK, Statuses, Places
<1>2. TypeOK /\ [Next]_vars => TypeOK'
  <2> SUFFICES ASSUME TypeOK, [Next]_vars PROVE TypeOK'
    OBVIOUS
  <2> USE QueueAssumption DEF TypeOK, Statuses, Places, rowVars, slotVars, passVars
  <2>1. CASE \E c \in Callers : Enqueue(c)
    <3>1. PICK c \in Callers : Enqueue(c)
      BY <2>1
    <3>2. CASE EnqueueCreate(c)
      BY <3>2 DEF EnqueueCreate
    <3>3. CASE EnqueueRaced(c)
      BY <3>3 DEF EnqueueRaced
    <3>4. CASE \E k \in Keys : EnqueueFind(c, k)
      BY <3>4 DEF EnqueueFind
    <3>5. CASE \E k \in Keys : EnqueueAgain(c, k)
      <4>1. PICK k \in Keys : EnqueueAgain(c, k)
        BY <3>5
      <4>2. PICK again \in Reruns[k] : calling' = [calling EXCEPT ![c] = again]
        BY <4>1 DEF EnqueueAgain
      <4>3. again \in Keys
        OBVIOUS
      <4> QED
        BY <4>1, <4>2, <4>3 DEF EnqueueAgain
    <3> QED
      BY <3>1, <3>2, <3>3, <3>4, <3>5 DEF Enqueue
  <2>2. CASE \E s \in Slots, j \in JobIds : Claim(s, j)
    <3>1. PICK s \in Slots, j \in JobIds : Claim(s, j)
      BY <2>2
    <3>2. attempt[j] + 1 \in 0 .. MaxAttempts /\ s[1] \in Workers
      BY <3>1 DEF Claim, Claimable, Slots
    <3> QED
      BY <3>1, <3>2 DEF Claim
  <2>3. CASE \E s \in Slots : Outcome(s)
    <3>1. PICK s \in Slots : Outcome(s)
      BY <2>3
    <3>2. CASE HandlerReturns(s) \/ HandlerThrows(s) \/ SucceedThrows(s)
      BY <3>2 DEF HandlerReturns, HandlerThrows, SucceedThrows
    <3>3. CASE Succeed(s)
      BY <3>3 DEF Succeed, FreeSlot
    <3>4. CASE Fail(s)
      BY <3>4, SMTT(30) DEF Fail, FreeSlot
    <3>5. CASE FailThrows(s) \/ Surface(s)
      BY <3>5 DEF FailThrows, Surface, FreeSlot
    <3> QED
      BY <3>1, <3>2, <3>3, <3>4, <3>5 DEF Outcome
  <2>4. CASE \E w \in Workers : Crash(w) \/ Maintain(w)
    <3>1. PICK w \in Workers : Crash(w) \/ Maintain(w)
      BY <2>4
    <3>2. CASE Crash(w)
      BY <3>2 DEF Crash
    <3>3. CASE ReclaimBury(w)
      BY <3>3 DEF ReclaimBury, Stuck, Exhausted
    <3>4. CASE ReclaimRelease(w)
      BY <3>4 DEF ReclaimRelease, Releasable
    <3> QED
      BY <3>1, <3>2, <3>3, <3>4 DEF Maintain
  <2>5. CASE PurgeSucceeded
    BY <2>5 DEF PurgeSucceeded, Retired
  <2>6. CASE \E a \in Admins : Retry(a) \/ ClosePage(a) \/ (\E j \in JobIds : ViewPage(a, j))
    BY <2>6 DEF Retry, ClosePage, ViewPage, Rows
  <2>7. CASE \E j \in JobIds : TimePasses(j)
    BY <2>7 DEF TimePasses
  <2>8. CASE UNCHANGED vars
    BY <2>8 DEF vars
  <2> QED
    BY <2>1, <2>2, <2>3, <2>4, <2>5, <2>6, <2>7, <2>8 DEF Next
<1> QED
  BY <1>1, <1>2, PTL DEF Spec

-----------------------------------------------------------------------------
(* The unique index and the statements that write keys keep one row per key, *)
(* however callers interleave between their SELECT and their INSERT.         *)
THEOREM KeysUnique == Spec => []OneRowPerKey
<1> USE DEF rowVars, slotVars, passVars
<1>1. Init => OneRowPerKey
  BY DEF Init, OneRowPerKey, Rows
<1>2. TypeOK /\ OneRowPerKey /\ [Next]_vars => OneRowPerKey'
  <2> SUFFICES ASSUME TypeOK, OneRowPerKey, [Next]_vars PROVE OneRowPerKey'
    OBVIOUS
  <2> USE DEF TypeOK, OneRowPerKey, Rows
  <2>1. CASE \E c \in Callers : EnqueueCreate(c)
    <3>1. PICK c \in Callers, j \in JobIds :
            /\ status[j] = "ABSENT"
            /\ ~KeyTaken(calling[c])
            /\ status' = [status EXCEPT ![j] = "PENDING"]
            /\ keyOf' = [keyOf EXCEPT ![j] = calling[c]]
      BY <2>1 DEF EnqueueCreate
    <3>2. \A i \in JobIds \ {j} : status'[i] = status[i] /\ keyOf'[i] = keyOf[i]
      BY <3>1
    <3>3. \A i \in JobIds \ {j} :
            status[i] \notin {"ABSENT", "PURGED"} => keyOf[i] # keyOf'[j]
      BY <3>1 DEF KeyTaken
    <3> QED
      BY <3>2, <3>3
  <2>2. ASSUME keyOf' = keyOf,
               \A j \in JobIds : status[j] \in {"ABSENT", "PURGED"}
                                  => status'[j] \in {"ABSENT", "PURGED"}
        PROVE  OneRowPerKey'
    BY <2>2
  <2>3. CASE \E c \in Callers : Enqueue(c) /\ ~EnqueueCreate(c)
    BY <2>2, <2>3 DEF Enqueue, EnqueueRaced, EnqueueFind, EnqueueAgain
  <2>4. CASE \E s \in Slots, j \in JobIds : Claim(s, j)
    BY <2>2, <2>4 DEF Claim, Claimable
  <2>5. CASE \E s \in Slots : Outcome(s)
    BY <2>2, <2>5 DEF Outcome, HandlerReturns, HandlerThrows, Succeed, SucceedThrows,
                      Fail, FailThrows, Surface
  <2>6. CASE \E w \in Workers : Crash(w) \/ Maintain(w)
    BY <2>2, <2>6 DEF Crash, Maintain, ReclaimBury, ReclaimRelease, Stuck, Exhausted, Releasable
  <2>7. CASE PurgeSucceeded
    <3>1. \A j \in JobIds : status'[j] # "PURGED" => status'[j] = status[j] /\ keyOf'[j] = keyOf[j]
      BY <2>7 DEF PurgeSucceeded
    <3> QED
      BY <3>1
  <2>8. CASE \E a \in Admins : Retry(a) \/ ClosePage(a) \/ (\E j \in JobIds : ViewPage(a, j))
    BY <2>2, <2>8 DEF Retry, ClosePage, ViewPage
  <2>9. CASE (\E j \in JobIds : TimePasses(j)) \/ UNCHANGED vars
    BY <2>2, <2>9 DEF TimePasses, vars
  <2> QED
    BY <2>1, <2>3, <2>4, <2>5, <2>6, <2>7, <2>8, <2>9 DEF Next
<1> QED
  BY <1>1, <1>2, TypeCorrect, PTL DEF Spec

-----------------------------------------------------------------------------
(* A row leaves the queue's care only after a handler ran to its end for it: a *)
(* slot about to record success has really finished.                          *)
HistoryInv ==
  /\ NothingLost
  /\ \A s \in Slots : pc[s] = "returned" => jobOf[s] \in finished

(* No work is dropped, whatever the timing: this needs no assumption about slow *)
(* handlers or stale pages.                                                    *)
THEOREM NoWorkLost == Spec => []NothingLost
<1> USE DEF rowVars, slotVars, passVars
<1>1. Init => HistoryInv
  BY DEF Init, HistoryInv, NothingLost
<1>2. TypeOK /\ HistoryInv /\ [Next]_vars => HistoryInv'
  <2> SUFFICES ASSUME TypeOK, HistoryInv, [Next]_vars PROVE HistoryInv'
    OBVIOUS
  <2> USE DEF TypeOK, HistoryInv, NothingLost
  <2>1. CASE \E c \in Callers : Enqueue(c)
    BY <2>1 DEF Enqueue, EnqueueCreate, EnqueueRaced, EnqueueFind, EnqueueAgain
  <2>2. CASE \E s \in Slots, j \in JobIds : Claim(s, j)
    BY <2>2 DEF Claim, Claimable
  <2>3. CASE \E s \in Slots : HandlerReturns(s) \/ HandlerThrows(s) \/ SucceedThrows(s)
    BY <2>3 DEF HandlerReturns, HandlerThrows, SucceedThrows
  <2>4. CASE \E s \in Slots : Succeed(s)
    BY <2>4 DEF Succeed, FreeSlot
  <2>5. CASE \E s \in Slots : Fail(s)
    BY <2>5 DEF Fail, FreeSlot
  <2>6. CASE \E s \in Slots : FailThrows(s) \/ Surface(s)
    BY <2>6 DEF FailThrows, Surface, FreeSlot
  <2>7. CASE \E w \in Workers : Crash(w) \/ Maintain(w)
    BY <2>7 DEF Crash, Maintain, ReclaimBury, ReclaimRelease
  <2>8. CASE PurgeSucceeded
    BY <2>8 DEF PurgeSucceeded, Retired
  <2>9. CASE \E a \in Admins : Retry(a) \/ ClosePage(a) \/ (\E j \in JobIds : ViewPage(a, j))
    BY <2>9 DEF Retry, ClosePage, ViewPage
  <2>10. CASE (\E j \in JobIds : TimePasses(j)) \/ UNCHANGED vars
    BY <2>10 DEF TimePasses, vars
  <2> QED
    BY <2>1, <2>2, <2>3, <2>4, <2>5, <2>6, <2>7, <2>8, <2>9, <2>10 DEF Next, Outcome
<1>3. HistoryInv => NothingLost
  BY DEF HistoryInv
<1> QED
  BY <1>1, <1>2, <1>3, TypeCorrect, PTL DEF Spec

-----------------------------------------------------------------------------
(* The lease invariant: why reclaiming never takes a job from a live worker.  *)
(* The first conjunct is what readers see; OldLocksAreDead and StuckStillOld *)
(* carry it across the two statements of a reclaim pass.                     *)
OldLocksAreDead ==
  \A s \in Slots : Holding(s) => jobOf[s] \notin aged

StuckStillOld ==
  \A w \in Workers : \A j \in stuck[w] :
    status[j] = "RUNNING" => j \in aged /\ attempt[j] < MaxAttempts

LeaseInv ==
  /\ HolderOwnsRow
  /\ ExclusiveJobs
  /\ OldLocksAreDead
  /\ StuckStillOld
  /\ PendingIsLive

(* Every step keeps the lease invariant, given that locks only grow old once *)
(* their worker is gone and Retry acts on what the page showed.             *)
LEMMA LeaseStep ==
  ASSUME ~SlowHandlers, ~StalePages, TypeOK, LeaseInv, [Next]_vars
  PROVE  LeaseInv'
<1> USE QueueAssumption DEF rowVars, slotVars, passVars, TypeOK, LeaseInv, HolderOwnsRow,
        ExclusiveJobs, OldLocksAreDead, StuckStillOld, PendingIsLive, Holding
<1>1. CASE \E c \in Callers : Enqueue(c)
  <2>1. CASE \E c \in Callers : EnqueueCreate(c)
    <3>1. PICK j \in JobIds :
            /\ status[j] = "ABSENT"
            /\ status' = [status EXCEPT ![j] = "PENDING"]
            /\ aged' = aged \union {j}
            /\ attempt' = [attempt EXCEPT ![j] = 0]
            /\ UNCHANGED <<lockedBy, pc, jobOf, tryOf, stuck>>
      BY <2>1 DEF EnqueueCreate
    <3> QED
      BY <3>1
  <2>2. CASE \E c \in Callers : Enqueue(c) /\ ~EnqueueCreate(c)
    BY <2>2 DEF Enqueue, EnqueueRaced, EnqueueFind, EnqueueAgain
  <2> QED
    BY <1>1, <2>1, <2>2
<1>2. CASE \E s \in Slots, j \in JobIds : Claim(s, j)
  <2>1. PICK s \in Slots, j \in JobIds : Claim(s, j)
    BY <1>2
  <2>2. \A t \in Slots : Holding(t) => jobOf[t] # j
    BY <2>1 DEF Claim, Claimable
  <2>3. s[1] \in Workers
    BY DEF Slots
  <2>4. (HolderOwnsRow /\ ExclusiveJobs /\ OldLocksAreDead)'
    BY <2>1, <2>2, <2>3 DEF Claim, Claimable
  <2>5. (StuckStillOld /\ PendingIsLive)'
    BY <2>1 DEF Claim, Claimable
  <2> QED
    BY <2>4, <2>5
<1>3. CASE \E s \in Slots : HandlerReturns(s) \/ HandlerThrows(s) \/ SucceedThrows(s)
  BY <1>3 DEF HandlerReturns, HandlerThrows, SucceedThrows
<1>4. CASE \E s \in Slots : Succeed(s)
  BY <1>4 DEF Succeed, FreeSlot
<1>5. CASE \E s \in Slots : Fail(s)
  <2>1. PICK s \in Slots : Fail(s)
    BY <1>5
  <2>2. \A t \in Slots \ {s} : Holding(t) => jobOf[t] # jobOf[s]
    BY <2>1 DEF Fail
  <2>3. \A t \in Slots \ {s} : Holding(t)' <=> Holding(t)
    BY <2>1 DEF Fail, FreeSlot
  <2>4. ~Holding(s)'
    BY <2>1 DEF Fail, FreeSlot
  <2>5. \A t \in Slots \ {s} : jobOf'[t] = jobOf[t] /\ tryOf'[t] = tryOf[t]
    BY <2>1 DEF Fail, FreeSlot
  <2>6. WillRetry(s) => attempt[jobOf[s]] < MaxAttempts
    BY <2>1 DEF Fail, WillRetry
  <2>7. \A j \in JobIds \ {jobOf[s]} : status'[j] = status[j] /\ lockedBy'[j] = lockedBy[j]
    BY <2>1 DEF Fail
  <2>8. status'[jobOf[s]] = "DEAD_LETTER" \/ (status'[jobOf[s]] = "PENDING" /\ WillRetry(s))
    BY <2>1 DEF Fail
  <2>9. attempt' = attempt /\ stuck' = stuck /\ aged' = aged \ {jobOf[s]}
    BY <2>1 DEF Fail
  <2>10. (HolderOwnsRow /\ ExclusiveJobs /\ OldLocksAreDead)'
    BY <2>2, <2>3, <2>4, <2>5, <2>7, <2>9
  <2>11. StuckStillOld'
    BY <2>7, <2>8, <2>9
  <2>12. PendingIsLive'
    BY <2>6, <2>7, <2>8, <2>9
  <2> QED
    BY <2>10, <2>11, <2>12
<1>6. CASE \E s \in Slots : FailThrows(s) \/ Surface(s)
  BY <1>6, SMTT(30) DEF FailThrows, Surface, FreeSlot
<1>7. CASE \E w \in Workers : Crash(w)
  BY <1>7 DEF Crash
<1>8. CASE \E w \in Workers : ReclaimBury(w)
  BY <1>8 DEF ReclaimBury, Stuck, Exhausted
<1>9. CASE \E w \in Workers : ReclaimRelease(w)
  BY <1>9 DEF ReclaimRelease, Releasable
<1>10. CASE PurgeSucceeded
  BY <1>10 DEF PurgeSucceeded, Retired
<1>11. CASE \E a \in Admins : Retry(a) \/ ClosePage(a) \/ (\E j \in JobIds : ViewPage(a, j))
  BY <1>11, SMTT(30) DEF Retry, ClosePage, ViewPage, Rows
<1>12. CASE \E j \in JobIds : TimePasses(j)
  BY <1>12 DEF TimePasses, Rows
<1>13. CASE UNCHANGED vars
  BY <1>13 DEF vars
<1> QED
  BY <1>1, <1>2, <1>3, <1>4, <1>5, <1>6, <1>7, <1>8, <1>9, <1>10, <1>11, <1>12, <1>13
     DEF Next, Outcome, Maintain

(* Concurrent workers take different jobs, and the row a slot will write by id *)
(* is still the row it claimed.                                               *)
THEOREM LeaseHeld ==
  ASSUME ~SlowHandlers, ~StalePages
  PROVE  Spec => [](ExclusiveJobs /\ HolderOwnsRow)
<1>1. Init => LeaseInv
  BY QueueAssumption DEF Init, LeaseInv, HolderOwnsRow, ExclusiveJobs, OldLocksAreDead,
     StuckStillOld, PendingIsLive, Holding
<1>2. TypeOK /\ LeaseInv /\ [Next]_vars => LeaseInv'
  BY LeaseStep
<1>3. LeaseInv => ExclusiveJobs /\ HolderOwnsRow
  BY DEF LeaseInv
<1> QED
  BY <1>1, <1>2, <1>3, TypeCorrect, PTL DEF Spec

(* No row waits with its attempts used up: off by one in either statement of the *)
(* reclaim pass and a job would sit in PENDING where no claim can reach it.     *)
THEOREM WaitingRowsAreLive ==
  ASSUME ~SlowHandlers, ~StalePages
  PROVE  Spec => []PendingIsLive
<1>1. Init => LeaseInv
  BY QueueAssumption DEF Init, LeaseInv, HolderOwnsRow, ExclusiveJobs, OldLocksAreDead,
     StuckStillOld, PendingIsLive, Holding
<1>2. TypeOK /\ LeaseInv /\ [Next]_vars => LeaseInv'
  BY LeaseStep
<1>3. LeaseInv => PendingIsLive
  BY DEF LeaseInv
<1> QED
  BY <1>1, <1>2, <1>3, TypeCorrect, PTL DEF Spec

(* A row that succeeded is never run again: the only step it can take is the *)
(* retention purge.                                                          *)
THEOREM SuccessIsFinal ==
  ASSUME ~SlowHandlers, ~StalePages
  PROVE  Spec => SucceededIsFinal
<1> DEFINE Final == \A j \in JobIds :
                      status[j] = "SUCCEEDED" => status'[j] \in {"SUCCEEDED", "PURGED"}
<1>1. Init => LeaseInv
  BY QueueAssumption DEF Init, LeaseInv, HolderOwnsRow, ExclusiveJobs, OldLocksAreDead,
     StuckStillOld, PendingIsLive, Holding
<1>2. TypeOK /\ LeaseInv /\ [Next]_vars => LeaseInv'
  BY LeaseStep
<1>3. TypeOK /\ LeaseInv /\ [Next]_vars => [Final]_vars
  <2> SUFFICES ASSUME TypeOK, LeaseInv, [Next]_vars PROVE Final \/ UNCHANGED vars
    BY DEF vars
  <2> USE DEF TypeOK, LeaseInv, HolderOwnsRow, Holding, rowVars, slotVars, passVars
  <2>1. CASE \E c \in Callers : Enqueue(c)
    BY <2>1 DEF Enqueue, EnqueueCreate, EnqueueRaced, EnqueueFind, EnqueueAgain
  <2>2. CASE \E s \in Slots, j \in JobIds : Claim(s, j)
    BY <2>2 DEF Claim, Claimable
  <2>3. CASE \E s \in Slots : Outcome(s)
    BY <2>3 DEF Outcome, HandlerReturns, HandlerThrows, Succeed, SucceedThrows,
                Fail, FailThrows, Surface
  <2>4. CASE \E w \in Workers : Crash(w) \/ Maintain(w)
    BY <2>4 DEF Crash, Maintain, ReclaimBury, ReclaimRelease, Stuck, Exhausted, Releasable
  <2>5. CASE PurgeSucceeded
    BY <2>5 DEF PurgeSucceeded
  <2>6. CASE \E a \in Admins : Retry(a) \/ ClosePage(a) \/ (\E j \in JobIds : ViewPage(a, j))
    BY <2>6 DEF Retry, ClosePage, ViewPage
  <2>7. CASE \E j \in JobIds : TimePasses(j)
    BY <2>7 DEF TimePasses
  <2> QED
    BY <2>1, <2>2, <2>3, <2>4, <2>5, <2>6, <2>7 DEF Next
<1> QED
  BY <1>1, <1>2, <1>3, TypeCorrect, PTL DEF Spec, SucceededIsFinal

-----------------------------------------------------------------------------
(* Every step of the queue is a step of the ledger or leaves it as it is.  The *)
(* lease invariant is what makes Succeed and Fail settle a job that is still   *)
(* open, and a reclaim bury only jobs nobody holds.                            *)
LEMMA LedgerStep ==
  ASSUME ~SlowHandlers, ~StalePages, TypeOK, LeaseInv, [Next]_vars
  PROVE  [Ledger!Next]_(Ledger!ledger)
<1> USE QueueAssumption DEF rowVars, slotVars, passVars, TypeOK, Statuses, Places
<1> USE DEF Ledger!ledger, Ledger!Next
<1>0. /\ \A j \in JobIds : status'[j] = status[j] => phaseBar'[j] = phaseBar[j]
      /\ \A s \in Slots : pc'[s] = pc[s] /\ jobOf'[s] = jobOf[s] => heldBar'[s] = heldBar[s]
  BY DEF phaseBar, heldBar, Holding
<1>1. ASSUME NEW c \in Callers, EnqueueCreate(c) PROVE \E j \in JobIds : Ledger!Post(j)
  <2>1. PICK j \in JobIds : status[j] = "ABSENT" /\ status' = [status EXCEPT ![j] = "PENDING"]
    BY <1>1 DEF EnqueueCreate
  <2>2. phaseBar[j] = "none" /\ phaseBar' = [phaseBar EXCEPT ![j] = "open"]
    BY <2>1 DEF phaseBar
  <2>3. heldBar' = heldBar
    BY <1>1 DEF EnqueueCreate, heldBar, Holding
  <2> QED
    BY <2>2, <2>3 DEF Ledger!Post
<1>2. ASSUME NEW s \in Slots, NEW j \in JobIds, Claim(s, j) PROVE Ledger!Take(s, j)
  <2>1. heldBar[s] = NoJob
    BY <1>2 DEF Claim, heldBar, Holding
  <2>2. phaseBar[j] = "open" /\ phaseBar' = phaseBar
    BY <1>2 DEF Claim, Claimable, phaseBar
  <2>3. \A t \in Slots : heldBar[t] # j
    BY <1>2 DEF Claim, Claimable, LeaseInv, HolderOwnsRow, heldBar
  <2>4. heldBar' = [heldBar EXCEPT ![s] = j]
    BY <1>2 DEF Claim, heldBar, Holding
  <2> QED
    BY <2>1, <2>2, <2>3, <2>4 DEF Ledger!Take, Ledger!Free
<1>3. ASSUME NEW s \in Slots, Succeed(s) \/ Fail(s) PROVE Ledger!Settle(s)
  <2>1. Holding(s) /\ jobOf[s] \in JobIds /\ heldBar[s] = jobOf[s]
    BY <1>3 DEF Succeed, Fail, Holding, heldBar
  <2>2. phaseBar[jobOf[s]] = "open"
    BY <2>1 DEF LeaseInv, HolderOwnsRow, phaseBar
  <2>3. PICK outcome \in {"SUCCEEDED", "PENDING", "DEAD_LETTER"} :
          status' = [status EXCEPT ![jobOf[s]] = outcome]
    BY <1>3 DEF Succeed, Fail
  <2>4. \E outcomeBar \in {"done", "open", "dead"} :
          phaseBar' = [phaseBar EXCEPT ![jobOf[s]] = outcomeBar]
    <3>1. CASE outcome = "SUCCEEDED"
      <4>1. phaseBar' = [phaseBar EXCEPT ![jobOf[s]] = "done"]
        BY <2>1, <2>3, <3>1 DEF phaseBar
      <4> QED
        BY <4>1
    <3>2. CASE outcome = "PENDING"
      <4>1. phaseBar' = [phaseBar EXCEPT ![jobOf[s]] = "open"]
        BY <2>1, <2>3, <3>2 DEF phaseBar
      <4> QED
        BY <4>1
    <3>3. CASE outcome = "DEAD_LETTER"
      <4>1. phaseBar' = [phaseBar EXCEPT ![jobOf[s]] = "dead"]
        BY <2>1, <2>3, <3>3 DEF phaseBar
      <4> QED
        BY <4>1
    <3> QED
      BY <2>3, <3>1, <3>2, <3>3
  <2>5. heldBar' = [heldBar EXCEPT ![s] = NoJob]
    <3>1. \/ jobOf' = [jobOf EXCEPT ![s] = NoJob] /\ pc' = [pc EXCEPT ![s] = "free"]
          \/ jobOf' = jobOf /\ pc' = [pc EXCEPT ![s] = "exhausted"]
      BY <1>3 DEF Succeed, Fail, FreeSlot
    <3> QED
      BY <3>1, ZenonT(40) DEF heldBar, Holding
  <2> QED
    BY <2>1, <2>2, <2>4, <2>5 DEF Ledger!Settle
<1>4. ASSUME NEW s \in Slots, FailThrows(s) PROVE Ledger!Lose({s})
  <2>1. heldBar' = [t \in Slots |-> IF t \in {s} THEN NoJob ELSE heldBar[t]]
    BY <1>4 DEF FailThrows, FreeSlot, heldBar, Holding
  <2>2. phaseBar' = phaseBar
    BY <1>4 DEF FailThrows, phaseBar
  <2> QED
    BY <2>1, <2>2 DEF Ledger!Lose
<1>5. ASSUME NEW w \in Workers, Crash(w) PROVE Ledger!Lose({s \in Slots : s[1] = w})
  <2>1. heldBar' = [s \in Slots |-> IF s \in {t \in Slots : t[1] = w} THEN NoJob ELSE heldBar[s]]
    BY <1>5 DEF Crash, heldBar, Holding
  <2>2. phaseBar' = phaseBar
    BY <1>5 DEF Crash, phaseBar
  <2> QED
    BY <2>1, <2>2 DEF Ledger!Lose
<1>6. ASSUME NEW w \in Workers, ReclaimBury(w) PROVE Ledger!Bury(Exhausted)
  <2>1. \A j \in Exhausted : phaseBar[j] = "open" /\ \A s \in Slots : heldBar[s] # j
    BY DEF Exhausted, Stuck, phaseBar, heldBar, LeaseInv, OldLocksAreDead
  <2>2. phaseBar' = [j \in JobIds |-> IF j \in Exhausted THEN "dead" ELSE phaseBar[j]]
    BY <1>6 DEF ReclaimBury, phaseBar
  <2>3. heldBar' = heldBar
    BY <1>6 DEF ReclaimBury, heldBar, Holding
  <2> QED
    BY <2>1, <2>2, <2>3 DEF Ledger!Bury, Ledger!Free
<1>7. ASSUME NEW w \in Workers, ReclaimRelease(w) PROVE UNCHANGED <<phaseBar, heldBar>>
  BY <1>7 DEF ReclaimRelease, Releasable, phaseBar, heldBar, Holding
<1>8. ASSUME PurgeSucceeded PROVE Ledger!Forget(Retired)
  <2>1. \A j \in Retired : phaseBar[j] = "done"
    BY DEF Retired, phaseBar
  <2>2. phaseBar' = [j \in JobIds |-> IF j \in Retired THEN "gone" ELSE phaseBar[j]]
    BY <1>8 DEF PurgeSucceeded, phaseBar
  <2>3. heldBar' = heldBar
    BY <1>8 DEF PurgeSucceeded, heldBar, Holding
  <2> QED
    BY <2>1, <2>2, <2>3 DEF Ledger!Forget
<1>9. ASSUME NEW a \in Admins, Retry(a) PROVE \E j \in JobIds : Ledger!Revive(j)
  <2>1. page[a] \in JobIds /\ status[page[a]] = "DEAD_LETTER"
    BY <1>9 DEF Retry, Rows
  <2>2. phaseBar[page[a]] = "dead" /\ phaseBar' = [phaseBar EXCEPT ![page[a]] = "open"]
    BY <1>9, <2>1, ZenonT(40) DEF Retry, phaseBar
  <2>3. heldBar' = heldBar
    BY <1>9 DEF Retry, heldBar, Holding
  <2> QED
    BY <2>1, <2>2, <2>3 DEF Ledger!Revive
<1>10. ASSUME status' = status,
              \A s \in Slots : heldBar'[s] = heldBar[s]
       PROVE  UNCHANGED <<phaseBar, heldBar>>
  BY <1>10 DEF phaseBar, heldBar
<1>11. ASSUME NEW s \in Slots,
              HandlerReturns(s) \/ HandlerThrows(s) \/ SucceedThrows(s) \/ Surface(s)
       PROVE  UNCHANGED <<phaseBar, heldBar>>
  <2>1. status' = status /\ \A t \in Slots : heldBar'[t] = heldBar[t]
    BY <1>11 DEF HandlerReturns, HandlerThrows, SucceedThrows, Surface, FreeSlot, heldBar, Holding
  <2> QED
    BY <1>10, <2>1
<1>12. ASSUME \/ \E c \in Callers : Enqueue(c) /\ ~EnqueueCreate(c)
              \/ \E a \in Admins : ClosePage(a) \/ (\E j \in JobIds : ViewPage(a, j))
              \/ \E j \in JobIds : TimePasses(j)
              \/ UNCHANGED vars
       PROVE  UNCHANGED <<phaseBar, heldBar>>
  BY <1>0, <1>10, <1>12 DEF Enqueue, EnqueueRaced, EnqueueFind, EnqueueAgain, ClosePage, ViewPage,
                     TimePasses, vars
<1>13. Exhausted \in SUBSET JobIds /\ Retired \in SUBSET JobIds
  BY DEF Exhausted, Stuck, Retired
<1>14. CASE \E c \in Callers : Enqueue(c)
  BY <1>1, <1>12, <1>14
<1>15. CASE \E s \in Slots, j \in JobIds : Claim(s, j)
  BY <1>2, <1>15
<1>16. CASE \E s \in Slots : Outcome(s)
  <2>1. PICK s \in Slots : Outcome(s)
    BY <1>16
  <2>2. {s} \in SUBSET Slots
    OBVIOUS
  <2> QED
    BY <1>3, <1>4, <1>11, <2>1, <2>2 DEF Outcome
<1>17. CASE \E w \in Workers : Crash(w) \/ Maintain(w)
  <2>1. PICK w \in Workers : Crash(w) \/ Maintain(w)
    BY <1>17
  <2>2. {s \in Slots : s[1] = w} \in SUBSET Slots
    OBVIOUS
  <2> QED
    BY <1>5, <1>6, <1>7, <1>13, <2>1, <2>2 DEF Maintain
<1>18. CASE \E a \in Admins : Retry(a) \/ ClosePage(a) \/ (\E j \in JobIds : ViewPage(a, j))
  BY <1>9, <1>12, <1>18
<1> QED
  BY <1>8, <1>12, <1>13, <1>14, <1>15, <1>16, <1>17, <1>18 DEF Next

(* The queue implements the ledger: at most one holder per job, settled only by *)
(* its holder, buried only when nobody holds it, forgotten only once done.      *)
THEOREM LedgerKept ==
  ASSUME ~SlowHandlers, ~StalePages
  PROVE  Spec => KeepsLedger
<1>1. Init => LeaseInv /\ Ledger!Init
  BY QueueAssumption DEF Init, LeaseInv, HolderOwnsRow, ExclusiveJobs, OldLocksAreDead,
     StuckStillOld, PendingIsLive, Holding, Ledger!Init, phaseBar, heldBar
<1>2. TypeOK /\ LeaseInv /\ [Next]_vars => LeaseInv'
  BY LeaseStep
<1>3. TypeOK /\ LeaseInv /\ [Next]_vars => [Ledger!Next]_(Ledger!ledger)
  BY LedgerStep
<1> QED
  BY <1>1, <1>2, <1>3, TypeCorrect, PTL DEF Spec, KeepsLedger, Ledger!Spec
=============================================================================
