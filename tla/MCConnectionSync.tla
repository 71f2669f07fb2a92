-------------------------- MODULE MCConnectionSync --------------------------
(***************************************************************************)
(* Small instances of ConnectionSync for TLC: two attempts at a time, two  *)
(* documents, and a configuration that shows one of them next to one that  *)
(* shows both.                                                             *)
(***************************************************************************)
EXTENDS ConnectionSync, TLC

CONSTANTS s1, s2, p1, d1, d2

OneProcess == [s \in Sync |-> p1]

Visible == [c \in Config |-> IF c = "narrow" THEN {d1} ELSE {d1, d2}]

Symmetry == Permutations({s1, s2})

Harsh == [t \in Trouble |-> 1]
Edited == [t \in Trouble |-> IF t = "edit" THEN 1 ELSE 0]
Lossy == [t \in Trouble |-> IF t = "loss" THEN 1 ELSE 0]
=============================================================================
