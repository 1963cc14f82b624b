------------------------------- MODULE MCListings -------------------------------
(***************************************************************************)
(* Small instances of Listings: two transactions at once.                  *)
(***************************************************************************)
EXTENDS Listings, TLC

CONSTANTS a, b, c3, w1, w2

TwoConvs   == {a, b}
ThreeConvs == {a, b, c3}
MCWriters  == {w1, w2}
SymmetryOfTwo   == Permutations(TwoConvs) \cup Permutations(MCWriters)
SymmetryOfThree == Permutations(ThreeConvs) \cup Permutations(MCWriters)
=============================================================================
