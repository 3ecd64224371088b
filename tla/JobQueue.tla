------------------------------ MODULE JobQueue ------------------------------
(***************************************************************************)
(* The Postgres-backed job queue (packages/services/src/jobs/queue.ts) and *)
(* the worker processes that drain it (apps/worker/src/index.ts and        *)
(* dispatch.ts), with the web processes that enqueue and the administrator *)
(* who presses Retry on the System Jobs page.                              *)
(*                                                                         *)
(* One action is one committed statement of the database, or one step of a *)
(* process between two of them.  Instants are abstracted to the set aged:  *)
(* a row is in it once the only clock that matters for its status has run  *)
(* out (runAt of a PENDING row, the fifteen-minute lock of a RUNNING one,  *)
(* the retention of a SUCCEEDED one).                                      *)
(***************************************************************************)
EXTENDS Naturals, FiniteSets

CONSTANTS
  Keys,          \* idempotency keys
  Reruns,        \* Reruns[k]: the keys `${k}_again_${Date.now()}` may denote
  JobIds,        \* identities of rows; a row once deleted never comes back
  Workers,       \* worker processes, by WORKER_ID
  Concurrency,   \* WORKER_CONCURRENCY
  Callers,       \* web and worker code inside a call of enqueue
  Admins,        \* rendered System Jobs pages
  MaxAttempts,   \* backgroundJob.maxAttempts
  SlowHandlers,  \* may a handler still be running fifteen minutes after its claim?
  StalePages,    \* may Retry be pressed on a row that is no longer dead-lettered?
  NoKey, NoJob, NoWorker

Slots == Workers \X (1 .. Concurrency)

ASSUME QueueAssumption ==
  /\ MaxAttempts \in Nat \ {0}
  /\ Concurrency \in Nat \ {0}
  /\ SlowHandlers \in BOOLEAN /\ StalePages \in BOOLEAN
  /\ Reruns \in [Keys -> SUBSET Keys]
  /\ NoKey \notin Keys /\ NoJob \notin JobIds /\ NoWorker \notin Workers

VARIABLES
  status,    \* status of each row; "ABSENT" before its INSERT, "PURGED" after its DELETE
  keyOf,     \* idempotencyKey
  attempt,   \* attempt
  lockedBy,  \* lockedBy
  aged,      \* rows whose runAt, lock or retention has run out
  pc,        \* where each slot of a dispatch loop is inside runHandler
  jobOf,     \* the JobRecord a slot holds: its id ...
  tryOf,     \* ... and its attempt, a snapshot taken by claim
  stuck,     \* the rows older than the cutoff of a reclaim pass between its two statements
  sweeping,  \* is that worker between the two statements?
  calling,   \* the key a caller found absent and is about to create
  page,      \* the row whose Retry button a rendered page shows
  finished   \* history: rows some handler ran to the end for

rowVars == <<status, keyOf, attempt, lockedBy, aged>>
slotVars == <<pc, jobOf, tryOf>>
passVars == <<stuck, sweeping>>
vars == <<rowVars, slotVars, passVars, calling, page, finished>>

Rows == {j \in JobIds : status[j] \notin {"ABSENT", "PURGED"}}
KeyTaken(k) == \E j \in Rows : keyOf[j] = k

(* A slot that still holds its job and will yet write the row's outcome. *)
Holding(s) == pc[s] \in {"handling", "returned", "retryable", "fatal"}

Init ==
  /\ status = [j \in JobIds |-> "ABSENT"]
  /\ keyOf = [j \in JobIds |-> NoKey]
  /\ attempt = [j \in JobIds |-> 0]
  /\ lockedBy = [j \in JobIds |-> NoWorker]
  /\ aged = {}
  /\ pc = [s \in Slots |-> "free"]
  /\ jobOf = [s \in Slots |-> NoJob]
  /\ tryOf = [s \in Slots |-> 0]
  /\ stuck = [w \in Workers |-> {}]
  /\ sweeping = [w \in Workers |-> FALSE]
  /\ calling = [c \in Callers |-> NoKey]
  /\ page = [a \in Admins |-> NoJob]
  /\ finished = {}

(***************************************************************************)
(* Enqueueing.  A key already held by a row of any status, SUCCEEDED       *)
(* included, makes the call a no-op, so only the other branch is an action.*)
(***************************************************************************)
EnqueueFind(c, k) ==
  /\ calling[c] = NoKey
  /\ ~KeyTaken(k)
  /\ calling' = [calling EXCEPT ![c] = k]
  /\ UNCHANGED <<rowVars, slotVars, passVars, page, finished>>

(* enqueueRerunnable: the key is held by a finished row, so the same work is asked *)
(* for again under a key of its own.                                             *)
EnqueueAgain(c, k) ==
  /\ calling[c] = NoKey
  /\ \E j \in Rows : keyOf[j] = k /\ status[j] \notin {"PENDING", "RUNNING"}
  /\ \E again \in Reruns[k] :
       /\ ~KeyTaken(again)
       /\ calling' = [calling EXCEPT ![c] = again]
  /\ UNCHANGED <<rowVars, slotVars, passVars, page, finished>>

(* The INSERT, under the unique index on idempotencyKey. *)
EnqueueCreate(c) ==
  /\ calling[c] # NoKey
  /\ ~KeyTaken(calling[c])
  /\ \E j \in JobIds :
       /\ status[j] = "ABSENT"
       /\ status' = [status EXCEPT ![j] = "PENDING"]
       /\ keyOf' = [keyOf EXCEPT ![j] = calling[c]]
       /\ attempt' = [attempt EXCEPT ![j] = 0]
       /\ aged' = aged \union {j}
  /\ calling' = [calling EXCEPT ![c] = NoKey]
  /\ UNCHANGED <<lockedBy, slotVars, passVars, page, finished>>

(* A concurrent enqueue of the same key committed first: the unique index refuses *)
(* the row and the caller is told it was deduplicated.                           *)
EnqueueRaced(c) ==
  /\ calling[c] # NoKey
  /\ KeyTaken(calling[c])
  /\ calling' = [calling EXCEPT ![c] = NoKey]
  /\ UNCHANGED <<rowVars, slotVars, passVars, page, finished>>

(***************************************************************************)
(* One slot of dispatchLoop: claim, handler, outcome.                      *)
(***************************************************************************)
Claimable(j) == status[j] = "PENDING" /\ j \in aged /\ attempt[j] < MaxAttempts

Claim(s, j) ==
  /\ pc[s] = "free"
  /\ Claimable(j)
  /\ status' = [status EXCEPT ![j] = "RUNNING"]
  /\ attempt' = [attempt EXCEPT ![j] = @ + 1]
  /\ lockedBy' = [lockedBy EXCEPT ![j] = s[1]]
  /\ aged' = aged \ {j}
  /\ stuck' = [w \in Workers |-> stuck[w] \ {j}]
  /\ pc' = [pc EXCEPT ![s] = "handling"]
  /\ jobOf' = [jobOf EXCEPT ![s] = j]
  /\ tryOf' = [tryOf EXCEPT ![s] = attempt[j] + 1]
  /\ UNCHANGED <<keyOf, sweeping, calling, page, finished>>

(* runHandler ends: the slot forgets its JobRecord. *)
FreeSlot(s) ==
  /\ pc' = [pc EXCEPT ![s] = "free"]
  /\ jobOf' = [jobOf EXCEPT ![s] = NoJob]
  /\ tryOf' = [tryOf EXCEPT ![s] = 0]

HandlerReturns(s) ==
  /\ pc[s] = "handling"
  /\ pc' = [pc EXCEPT ![s] = "returned"]
  /\ finished' = finished \union {jobOf[s]}
  /\ UNCHANGED <<rowVars, jobOf, tryOf, passVars, calling, page>>

(* An AppError says whether it may be retried; any other error may not. *)
HandlerThrows(s) ==
  /\ pc[s] = "handling"
  /\ \E kind \in {"retryable", "fatal"} : pc' = [pc EXCEPT ![s] = kind]
  /\ UNCHANGED <<rowVars, jobOf, tryOf, passVars, calling, page, finished>>

(* queue.succeed updates by id alone, whatever the row's status and lock are by now. *)
Succeed(s) ==
  /\ pc[s] = "returned"
  /\ jobOf[s] \in Rows
  /\ status' = [status EXCEPT ![jobOf[s]] = "SUCCEEDED"]
  /\ lockedBy' = [lockedBy EXCEPT ![jobOf[s]] = NoWorker]
  /\ aged' = aged \ {jobOf[s]}
  /\ FreeSlot(s)
  /\ UNCHANGED <<keyOf, attempt, passVars, calling, page, finished>>

(* queue.succeed rejects (the database, or a deleted row) inside the same try as the *)
(* handler, so the error is reported as the job's own; it is no AppError.           *)
SucceedThrows(s) ==
  /\ pc[s] = "returned"
  /\ pc' = [pc EXCEPT ![s] = "fatal"]
  /\ UNCHANGED <<rowVars, jobOf, tryOf, passVars, calling, page, finished>>

(* queue.fail decides from the snapshot, and updates by id alone. *)
WillRetry(s) == pc[s] = "retryable" /\ tryOf[s] < MaxAttempts

Fail(s) ==
  /\ pc[s] \in {"retryable", "fatal"}
  /\ jobOf[s] \in Rows
  /\ status' = [status EXCEPT ![jobOf[s]] = IF WillRetry(s) THEN "PENDING" ELSE "DEAD_LETTER"]
  /\ lockedBy' = [lockedBy EXCEPT ![jobOf[s]] = NoWorker]
  /\ aged' = aged \ {jobOf[s]}
  /\ \/ WillRetry(s) /\ FreeSlot(s)
     \/ ~WillRetry(s) /\ pc' = [pc EXCEPT ![s] = "exhausted"] /\ UNCHANGED <<jobOf, tryOf>>
  /\ UNCHANGED <<keyOf, attempt, passVars, calling, page, finished>>

(* queue.fail rejects too: runJob logs it, and the row keeps its status and lock. *)
FailThrows(s) ==
  /\ pc[s] \in {"retryable", "fatal"}
  /\ FreeSlot(s)
  /\ UNCHANGED <<rowVars, passVars, calling, page, finished>>

(* The engagement is moved to NEEDS_ATTENTION and JOB_FAILED is audited. *)
Surface(s) ==
  /\ pc[s] = "exhausted"
  /\ FreeSlot(s)
  /\ UNCHANGED <<rowVars, passVars, calling, page, finished>>

(* The process ends (out of memory, eviction, a drain that outlasted thirty seconds) *)
(* and another takes its place; nothing about its jobs is written down.             *)
Crash(w) ==
  /\ sweeping[w] \/ \E s \in Slots : s[1] = w /\ pc[s] # "free"
  /\ pc' = [s \in Slots |-> IF s[1] = w THEN "free" ELSE pc[s]]
  /\ jobOf' = [s \in Slots |-> IF s[1] = w THEN NoJob ELSE jobOf[s]]
  /\ tryOf' = [s \in Slots |-> IF s[1] = w THEN 0 ELSE tryOf[s]]
  /\ stuck' = [stuck EXCEPT ![w] = {}]
  /\ sweeping' = [sweeping EXCEPT ![w] = FALSE]
  /\ UNCHANGED <<rowVars, calling, page, finished>>

(***************************************************************************)
(* Maintenance: reclaimStuckJobs is two UPDATEs with one cutoff, buried    *)
(* first.  A claim after the cutoff moves lockedAt past it.                *)
(***************************************************************************)
(* Slips in the WHERE clauses of reclaimStuckJobs: the cutoff, the rows without *)
(* attempts left.                                                               *)
StuckWithoutCutoff == {j \in JobIds : status[j] = "RUNNING"}
StuckWithAttemptsLeft == {j \in JobIds : status[j] = "RUNNING" /\ j \in aged /\ attempt[j] < MaxAttempts}
ExhaustedWithoutCutoff == {j \in JobIds : status[j] = "RUNNING" /\ attempt[j] >= MaxAttempts}

Stuck == {j \in JobIds : status[j] = "RUNNING" /\ j \in aged}
Exhausted == {j \in Stuck : attempt[j] >= MaxAttempts}

ReclaimBury(w) ==
  /\ ~sweeping[w]
  /\ status' = [j \in JobIds |-> IF j \in Exhausted THEN "DEAD_LETTER" ELSE status[j]]
  /\ lockedBy' = [j \in JobIds |-> IF j \in Exhausted THEN NoWorker ELSE lockedBy[j]]
  /\ aged' = aged \ Exhausted
  /\ stuck' = [stuck EXCEPT ![w] = Stuck]
  /\ sweeping' = [sweeping EXCEPT ![w] = TRUE]
  /\ UNCHANGED <<keyOf, attempt, slotVars, calling, page, finished>>

Releasable(w) == {j \in stuck[w] : status[j] = "RUNNING"}

ReclaimRelease(w) ==
  /\ sweeping[w]
  /\ status' = [j \in JobIds |-> IF j \in Releasable(w) THEN "PENDING" ELSE status[j]]
  /\ lockedBy' = [j \in JobIds |-> IF j \in Releasable(w) THEN NoWorker ELSE lockedBy[j]]
  /\ aged' = aged \union Releasable(w)
  /\ stuck' = [stuck EXCEPT ![w] = {}]
  /\ sweeping' = [sweeping EXCEPT ![w] = FALSE]
  /\ UNCHANGED <<keyOf, attempt, slotVars, calling, page, finished>>

(* purgeSucceededJobs: the row goes, and its idempotency key with it. *)
RetiredWithoutStatus == {j \in JobIds : j \in aged}

Retired == {j \in JobIds : status[j] = "SUCCEEDED" /\ j \in aged}

PurgeSucceeded ==
  /\ Retired # {}
  /\ status' = [j \in JobIds |-> IF j \in Retired THEN "PURGED" ELSE status[j]]
  /\ keyOf' = [j \in JobIds |-> IF j \in Retired THEN NoKey ELSE keyOf[j]]
  /\ attempt' = [j \in JobIds |-> IF j \in Retired THEN 0 ELSE attempt[j]]
  /\ lockedBy' = [j \in JobIds |-> IF j \in Retired THEN NoWorker ELSE lockedBy[j]]
  /\ aged' = aged \ Retired
  /\ UNCHANGED <<slotVars, passVars, calling, page, finished>>

(***************************************************************************)
(* The administrator.  The page offers Retry for a dead-lettered row; the  *)
(* action behind the button looks at nothing but the id.                   *)
(***************************************************************************)
ViewPage(a, j) ==
  /\ page[a] = NoJob
  /\ status[j] = "DEAD_LETTER"
  /\ page' = [page EXCEPT ![a] = j]
  /\ UNCHANGED <<rowVars, slotVars, passVars, calling, finished>>

Retry(a) ==
  /\ page[a] \in Rows
  /\ StalePages \/ status[page[a]] = "DEAD_LETTER"
  /\ status' = [status EXCEPT ![page[a]] = "PENDING"]
  /\ attempt' = [attempt EXCEPT ![page[a]] = 0]
  /\ aged' = aged \union {page[a]}
  /\ page' = [page EXCEPT ![a] = NoJob]
  /\ UNCHANGED <<keyOf, lockedBy, slotVars, passVars, calling, finished>>

(* The page is left, or the row behind its button is gone. *)
ClosePage(a) ==
  /\ page[a] # NoJob
  /\ page' = [page EXCEPT ![a] = NoJob]
  /\ UNCHANGED <<rowVars, slotVars, passVars, calling, finished>>

(* The clock of one row runs out.  Unless handlers are slow, a lock grows old only *)
(* after the slot that took it has gone.                                         *)
TimePasses(j) ==
  /\ j \in Rows \ aged
  /\ status[j] # "DEAD_LETTER"
  /\ status[j] = "RUNNING" =>
       SlowHandlers \/ \A s \in Slots : ~(Holding(s) /\ jobOf[s] = j)
  /\ aged' = aged \union {j}
  /\ UNCHANGED <<status, keyOf, attempt, lockedBy, slotVars, passVars, calling, page, finished>>

Enqueue(c) == EnqueueCreate(c) \/ EnqueueRaced(c)
             \/ \E k \in Keys : EnqueueFind(c, k) \/ EnqueueAgain(c, k)

Outcome(s) == \/ HandlerReturns(s) \/ HandlerThrows(s)
              \/ Succeed(s) \/ SucceedThrows(s)
              \/ Fail(s) \/ FailThrows(s) \/ Surface(s)

Maintain(w) == ReclaimBury(w) \/ ReclaimRelease(w)

Next ==
  \/ \E c \in Callers : Enqueue(c)
  \/ \E s \in Slots, j \in JobIds : Claim(s, j)
  \/ \E s \in Slots : Outcome(s)
  \/ \E w \in Workers : Crash(w) \/ Maintain(w)
  \/ PurgeSucceeded
  \/ \E a \in Admins : Retry(a) \/ ClosePage(a) \/ (\E j \in JobIds : ViewPage(a, j))
  \/ \E j \in JobIds : TimePasses(j)

(***************************************************************************)
(* Fairness.  Handlers end (every call they make has a timeout), clocks    *)
(* advance, maintenance runs every fifteen minutes in every worker, and    *)
(* the claim takes the oldest runAt first, so a claimable row is not       *)
(* passed over for ever.  Nobody has to enqueue, purge, retry or crash.    *)
(***************************************************************************)
Fairness ==
  /\ \A j \in JobIds : WF_vars(TimePasses(j)) /\ SF_vars(\E s \in Slots : Claim(s, j))
  /\ \A s \in Slots : WF_vars(Outcome(s))
  /\ \A w \in Workers : WF_vars(ReclaimBury(w)) /\ SF_vars(ReclaimRelease(w))

Spec == Init /\ [][Next]_vars
FairSpec == Spec /\ Fairness

-----------------------------------------------------------------------------
Statuses == {"ABSENT", "PENDING", "RUNNING", "SUCCEEDED", "DEAD_LETTER", "PURGED"}
Places == {"free", "handling", "returned", "retryable", "fatal", "exhausted"}

(* Every variable has its type, and no attempt counter passes maxAttempts: the *)
(* migration's CHECK allows one more than the claim ever produces.            *)
TypeOK ==
  /\ status \in [JobIds -> Statuses]
  /\ keyOf \in [JobIds -> Keys \union {NoKey}]
  /\ attempt \in [JobIds -> 0 .. MaxAttempts]
  /\ lockedBy \in [JobIds -> Workers \union {NoWorker}]
  /\ aged \in SUBSET JobIds
  /\ pc \in [Slots -> Places]
  /\ jobOf \in [Slots -> JobIds \union {NoJob}]
  /\ tryOf \in [Slots -> 0 .. MaxAttempts]
  /\ \A s \in Slots : pc[s] # "free" => jobOf[s] \in JobIds
  /\ stuck \in [Workers -> SUBSET JobIds]
  /\ sweeping \in [Workers -> BOOLEAN]
  /\ calling \in [Callers -> Keys \union {NoKey}]
  /\ page \in [Admins -> JobIds \union {NoJob}]
  /\ finished \in SUBSET JobIds

(* Enqueuing the same logical work twice is a no-op (queue.ts header): however *)
(* callers interleave, two rows never carry one key.                          *)
OneRowPerKey == \A i, j \in Rows : keyOf[i] = keyOf[j] => i = j

(* No work is dropped: a row that was created is still waiting, still running, *)
(* kept as a dead letter, or a handler has run to the end for it -- through   *)
(* crashes, reclaims, late workers, stale retries and the retention purge.    *)
NothingLost ==
  \A j \in JobIds :
    status[j] \in {"ABSENT", "PENDING", "RUNNING", "DEAD_LETTER"} \/ j \in finished

(* Concurrent workers take different jobs (architecture.md): no two slots hold *)
(* the same job at the same time.                                            *)
ExclusiveJobs ==
  \A s, t \in Slots : Holding(s) /\ Holding(t) /\ jobOf[s] = jobOf[t] => s = t

(* A slot that has yet to write an outcome still owns the row it will write by *)
(* id: status, lock and attempt are those of its own claim.                   *)
HolderOwnsRow ==
  \A s \in Slots : Holding(s) =>
    /\ status[jobOf[s]] = "RUNNING"
    /\ lockedBy[jobOf[s]] = s[1]
    /\ attempt[jobOf[s]] = tryOf[s]

(* PENDING rows are live work (comment on purgeSucceededJobs): a row that waits *)
(* can still be claimed, so none waits for ever with its attempts used up.     *)
PendingIsLive == \A j \in JobIds : status[j] = "PENDING" => attempt[j] < MaxAttempts

(* What already succeeded is not done again under the same row. *)
SucceededIsFinal ==
  [][\A j \in JobIds : status[j] = "SUCCEEDED" => status'[j] \in {"SUCCEEDED", "PURGED"}]_vars

(* Every job that is waiting or running is eventually settled: it succeeds or it *)
(* is dead-lettered, whatever crashes happen on the way.                        *)
Settles ==
  \A j \in JobIds :
    status[j] \in {"PENDING", "RUNNING"} ~> status[j] \notin {"PENDING", "RUNNING"}

-----------------------------------------------------------------------------
(* The rows and slots as the ledger sees them. *)
phaseBar ==
  [j \in JobIds |->
     CASE status[j] = "ABSENT" -> "none"
       [] status[j] = "DEAD_LETTER" -> "dead"
       [] status[j] = "SUCCEEDED" -> "done"
       [] status[j] = "PURGED" -> "gone"
       [] OTHER -> "open"]

heldBar == [s \in Slots |-> IF Holding(s) THEN jobOf[s] ELSE NoJob]

Ledger == INSTANCE JobLedger WITH phase <- phaseBar, held <- heldBar

(* The queue of queue.ts, drained by the workers of index.ts, keeps the ledger's *)
(* promise: every step of theirs is a step of the ledger or changes nothing in it. *)
KeepsLedger == Ledger!Spec
=============================================================================
