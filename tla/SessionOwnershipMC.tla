------------------------- MODULE SessionOwnershipMC -------------------------
(***************************************************************************)
(* SessionOwnership with two sessions that overlap and two files, so that  *)
(* a call about one file runs while the other one changes hands.  Sessions *)
(* and files are interchangeable, and both properties are safety ones.     *)
(***************************************************************************)
EXTENDS SessionOwnership, TLC

Symmetry == Permutations(Sessions) \union Permutations(Files)
=============================================================================
