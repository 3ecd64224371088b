-------------------------------- MODULE Rollout --------------------------------
(***************************************************************************)
(* The annual rollout (packages/services/src/bulk-rollout.ts): a preview   *)
(* of many engagements, submitted, and expanded into their generations in  *)
(* two stages of jobs.  What a generation does is module Drafting; how a   *)
(* job runs is module JobQueue.                                            *)
(***************************************************************************)
EXTENDS FiniteSets, Naturals

CONSTANTS
  Letters,   \* engagements a preview shows
  Batches,   \* previews: each page has its own batchId
  Clerks,    \* requests in flight at once
  OneKey,    \* the generation key, which names the engagement and no batch
  MaxSubmits,\* bound: requests ever made
  MaxPurges, \* bound: old rows ever deleted
  MaxCrashes \* bound: deaths of the worker between a call and its record

ASSUME RolloutAssumption ==
  /\ OneKey \notin Batches /\ MaxSubmits \in Nat /\ MaxPurges \in Nat /\ MaxCrashes \in Nat

VARIABLES
  ready,      \* engagements nothing blocks, as evaluate would find
  clerks,     \* what each request is doing
  batched,    \* BULK_ROLLOUT_ITEM rows by batch and engagement
  generation, \* GENERATE_ENGAGEMENT_LETTER rows by engagement and key
  drafted,    \* letters generated for each engagement
  submits, purges, crashes

rollout == <<ready, clerks, batched, generation, drafted, submits, purges, crashes>>
rolloutRows == <<batched, generation, drafted>>

Away == [at |-> "away"]
ItemKeys == Batches \X Letters
GenerationKeys == Letters \X (Batches \union {OneKey})

(* JobQueue.enqueue: a row in any state answers for the new one.             *)
Queue(rows, key) == IF rows[key] = "none" THEN [rows EXCEPT ![key] = "pending"] ELSE rows

-----------------------------------------------------------------------------
(* What evaluate computes of an engagement changes as people work on it.      *)
Work ==
  /\ \E e \in Letters : ready' = IF e \in ready THEN ready \ {e} ELSE ready \union {e}
  /\ UNCHANGED <<clerks, submits, purges, crashes>> /\ UNCHANGED rolloutRows

(* runBulkRollout, for the boxes ticked on one preview; the same page may be  *)
(* submitted twice.                                                          *)
SubmitRollout(c) ==
  /\ clerks[c] = Away /\ submits < MaxSubmits /\ submits' = submits + 1
  /\ \E b \in Batches, chosen \in SUBSET Letters \ {{}}, dry \in BOOLEAN :
       clerks' = [clerks EXCEPT ![c] = [at |-> "evaluate", batch |-> b, chosen |-> chosen, dry |-> dry]]
  /\ UNCHANGED <<ready, purges, crashes>> /\ UNCHANGED rolloutRows

(* Every one is evaluated again; a blocked one is refused and named.         *)
Unblocked(chosen) == chosen \intersect ready

Evaluate(c) ==
  /\ clerks[c].at = "evaluate"
  /\ clerks' = [clerks EXCEPT ![c] =
       IF clerks[c].dry \/ Unblocked(clerks[c].chosen) = {} THEN Away
       ELSE [at |-> "queue", batch |-> clerks[c].batch, left |-> Unblocked(clerks[c].chosen)]]
  /\ UNCHANGED <<ready, submits, purges, crashes>> /\ UNCHANGED rolloutRows

(* One at a time; a request that dies leaves the rest unqueued.              *)
QueueItem(c) ==
  /\ clerks[c].at = "queue"
  /\ \E e \in clerks[c].left :
       /\ batched' = Queue(batched, <<clerks[c].batch, e>>)
       /\ clerks' = [clerks EXCEPT ![c] = IF clerks[c].left = {e} THEN Away
                                          ELSE [clerks[c] EXCEPT !.left = @ \ {e}]]
  /\ UNCHANGED <<ready, generation, drafted, submits, purges, crashes>>

ClerkGoes(c) ==
  /\ clerks[c] # Away /\ crashes < MaxCrashes /\ crashes' = crashes + 1
  /\ clerks' = [clerks EXCEPT ![c] = Away]
  /\ UNCHANGED <<ready, submits, purges>> /\ UNCHANGED rolloutRows

-----------------------------------------------------------------------------
(* As if a letter were queued under its batch.                               *)
KeyOfBatch(b, e) == <<e, b>>

GenerationKey(b, e) == <<e, OneKey>>

(* BULK_ROLLOUT_ITEM: the generation is queued, then the row is settled.     *)
ClaimItem ==
  /\ \E k \in ItemKeys : batched[k] = "pending" /\ batched' = [batched EXCEPT ![k] = "running"]
  /\ UNCHANGED <<ready, clerks, generation, drafted, submits, purges, crashes>>

Expand ==
  /\ \E k \in ItemKeys :
       /\ batched[k] = "running"
       /\ generation' = Queue(generation, GenerationKey(k[1], k[2]))
       /\ \/ batched' = [batched EXCEPT ![k] = "succeeded"] /\ UNCHANGED crashes
          \/ crashes < MaxCrashes /\ crashes' = crashes + 1 /\ batched' = [batched EXCEPT ![k] = "pending"]
  /\ UNCHANGED <<ready, clerks, drafted, submits, purges>>

(* GENERATE_ENGAGEMENT_LETTER, as far as its row goes.                       *)
Generate ==
  /\ \E g \in GenerationKeys :
       /\ generation[g] = "pending" /\ generation' = [generation EXCEPT ![g] = "succeeded"]
       /\ drafted' = [drafted EXCEPT ![g[1]] = @ + 1]
  /\ UNCHANGED <<ready, clerks, batched, submits, purges, crashes>>

(* purgeSucceededJobs: rows older than the retention.                        *)
PurgeRows ==
  /\ purges < MaxPurges /\ purges' = purges + 1
  /\ \/ \E k \in ItemKeys : /\ batched[k] = "succeeded" /\ batched' = [batched EXCEPT ![k] = "none"]
                            /\ UNCHANGED generation
     \/ \E g \in GenerationKeys : /\ generation[g] = "succeeded"
                                  /\ generation' = [generation EXCEPT ![g] = "none"] /\ UNCHANGED batched
  /\ UNCHANGED <<ready, clerks, drafted, submits, crashes>>

-----------------------------------------------------------------------------
RolloutInit ==
  /\ ready = Letters /\ clerks = [c \in Clerks |-> Away]
  /\ batched = [k \in ItemKeys |-> "none"] /\ generation = [g \in GenerationKeys |-> "none"]
  /\ drafted = [e \in Letters |-> 0] /\ submits = 0 /\ purges = 0 /\ crashes = 0

Submitting == \E c \in Clerks : SubmitRollout(c) \/ Evaluate(c) \/ QueueItem(c) \/ ClerkGoes(c)
RolloutNext == Work \/ PurgeRows \/ Submitting \/ ClaimItem \/ Expand \/ Generate

-----------------------------------------------------------------------------
(* BULK_ROLLOUT_ITEM: "a different batch covering the same engagement does    *)
(* not produce a second draft", whoever submits what twice, as long as the    *)
(* row of its generation was not purged; every purge allows one more.         *)
OneDraftEach ==
  \A e \in Letters : drafted[e] =< 1 + purges
=============================================================================
