--------------------------- MODULE MCCoverLetter ---------------------------
(* CoverLetter with people who may change places. *)
EXTENDS CoverLetter, TLC

Symmetry == Permutations(Users)
=============================================================================
