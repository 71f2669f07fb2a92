-------------------------- MODULE MCFreshnessQueue --------------------------
(***************************************************************************)
(* Small instances of FreshnessQueue for TLC.                              *)
(***************************************************************************)
EXTENDS FreshnessQueue

CONSTANTS j2, sa, sb

\* j2 belongs to another workspace than the rest, so that one processing list
\* can mix the jobs of two workspaces.
MixedSpaces == [j \in Job |-> IF j = j2 THEN sb ELSE sa]

Symmetry == Permutations(Worker)
=============================================================================
