------------------------- MODULE MCCompactionClaims -------------------------
(***************************************************************************)
(* Small instances of CompactionClaims for TLC.                            *)
(***************************************************************************)
EXTENDS CompactionClaims, TLC

Symmetry == Permutations(Attempt)
=============================================================================
