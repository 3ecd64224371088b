---------------------------- MODULE MCSigning ----------------------------
(* Signing on small sets, with the symmetry of its safety runs. *)
EXTENDS Signing, TLC

(* Requests, webhooks and Adobe's ids are interchangeable. *)
Symmetry == Permutations(Senders) \union Permutations(Handlers) \union Permutations(Agreements)
=============================================================================
