------------------------------ MODULE Collections ------------------------------
(***************************************************************************)
(* Adding up and sorting, in forms the provers can unfold.                 *)
(***************************************************************************)
EXTENDS Naturals, FiniteSets, Functions

\* The sum of the values of a function.
Total(f) == FoldFunction(+, 0, f)

\* Sorting a set by an order, given as the set of the pairs in it: the element in
\* place k is the one before which k - 1 others come.  (For a total order this is
\* SetToSortSeq, which is built on a sort without a definition.)
Preceding(S, R, x) == {y \in S : <<y, x>> \in R}

SortedBy(S, R) ==
  LET rank == [x \in S |-> Cardinality(Preceding(S, R, x))]
  IN  [k \in 1 .. Cardinality(S) |-> CHOOSE x \in S : rank[x] = k - 1]

\* A strict total order of the elements of S.
Orders(S, R) ==
  /\ \A x \in S : <<x, x>> \notin R
  /\ \A x, y, z \in S : <<x, y>> \in R /\ <<y, z>> \in R => <<x, z>> \in R
  /\ \A x, y \in S : x # y => <<x, y>> \in R \/ <<y, x>> \in R
=============================================================================
