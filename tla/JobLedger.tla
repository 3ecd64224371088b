------------------------------ MODULE JobLedger ------------------------------
(***************************************************************************)
(* What the queue promises its handlers: a posted job is held by at most   *)
(* one slot at a time; only its holder settles it; it is given up for dead *)
(* by its holder or when nobody holds it; and it leaves the ledger only    *)
(* once done.  Locks, attempts, clocks and SQL are JobQueue's business.    *)
(***************************************************************************)
CONSTANTS JobIds, Slots, NoJob

VARIABLES
  phase,  \* "none", "open", "dead", "done" or "gone" for each job
  held    \* the job each slot holds, or NoJob

ledger == <<phase, held>>

Free(j) == \A s \in Slots : held[s] # j

Init ==
  /\ phase = [j \in JobIds |-> "none"]
  /\ held = [s \in Slots |-> NoJob]

Post(j) ==
  /\ phase[j] = "none"
  /\ phase' = [phase EXCEPT ![j] = "open"]
  /\ UNCHANGED held

Take(s, j) ==
  /\ held[s] = NoJob
  /\ phase[j] = "open" /\ Free(j)
  /\ held' = [held EXCEPT ![s] = j]
  /\ UNCHANGED phase

(* The holder settles its job: done, back in the queue, or dead. *)
Settle(s) ==
  /\ held[s] \in JobIds
  /\ phase[held[s]] = "open"
  /\ \E outcome \in {"done", "open", "dead"} :
       phase' = [phase EXCEPT ![held[s]] = outcome]
  /\ held' = [held EXCEPT ![s] = NoJob]

(* Slots lose what they hold: their process died, or could not write the outcome. *)
Lose(S) ==
  /\ held' = [s \in Slots |-> IF s \in S THEN NoJob ELSE held[s]]
  /\ UNCHANGED phase

Bury(J) ==
  /\ \A j \in J : phase[j] = "open" /\ Free(j)
  /\ phase' = [j \in JobIds |-> IF j \in J THEN "dead" ELSE phase[j]]
  /\ UNCHANGED held

Revive(j) ==
  /\ phase[j] = "dead"
  /\ phase' = [phase EXCEPT ![j] = "open"]
  /\ UNCHANGED held

Forget(J) ==
  /\ \A j \in J : phase[j] = "done"
  /\ phase' = [j \in JobIds |-> IF j \in J THEN "gone" ELSE phase[j]]
  /\ UNCHANGED held

Next ==
  \/ \E j \in JobIds : Post(j) \/ Revive(j) \/ \E s \in Slots : Take(s, j)
  \/ \E s \in Slots : Settle(s)
  \/ \E S \in SUBSET Slots : Lose(S)
  \/ \E J \in SUBSET JobIds : Bury(J) \/ Forget(J)

Spec == Init /\ [][Next]_ledger
=============================================================================
