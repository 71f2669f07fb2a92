------------------------------ MODULE Ranking -------------------------------
(***************************************************************************)
(* ORDER BY: the elements of a finite set in the order of a relation, each *)
(* at the place that its rank gives it.                                    *)
(***************************************************************************)
EXTENDS Integers, FiniteSets, Sequences

\* How many elements of S come before x.
Rank(R, S, x) == Cardinality({y \in S : <<y, x>> \in R})

\* A page: limit elements from the one at the place start on.
Slice(R, S, start, limit) == {x \in S : Rank(R, S, x) \in start .. (start + limit - 1)}

\* The elements of S as the sequence of the places their ranks give them.
InOrder(R, S) == [n \in 1 .. Cardinality(S) |-> CHOOSE x \in S : Rank(R, S, x) = n - 1]
=============================================================================
