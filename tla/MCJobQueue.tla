---------------------------- MODULE MCJobQueue ----------------------------
(* JobQueue on small sets, and the history bounds and symmetry of its runs. *)
EXTENDS JobQueue, TLC

CONSTANTS k1, k1again, k2

(* k1 is enqueued with enqueueRerunnable, k2 with plain enqueue. *)
RerunsOfK1 == [k \in Keys |-> IF k = k1 THEN {k1again} \cap Keys ELSE {}]

(* Workers, callers and rows are interchangeable; keys are not. *)
Symmetry == Permutations(Workers) \union Permutations(Callers) \union Permutations(JobIds)
=============================================================================
