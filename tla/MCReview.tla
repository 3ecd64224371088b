------------------------------ MODULE MCReview ------------------------------
(* Review for TLC: which user is which makes no difference. *)
EXTENDS Review, TLC

Symmetry == Permutations(Users)
=============================================================================
