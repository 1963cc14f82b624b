----------------------------- MODULE MCWorkbench -----------------------------
(***************************************************************************)
(* Small instances of Workbench for TLC: one scope with two conversations  *)
(* (a reset has somewhere to go), and three requests (a question, its      *)
(* answer, and a competitor).                                              *)
(***************************************************************************)
EXTENDS WorkbenchInvariant, TLC

CONSTANTS c1, c2, s1, r1, r2, r3

MCConvs    == {c1, c2}
MCOneConv  == {c1}
MCScopes   == {s1}
MCScopeOf  == [c \in MCConvs |-> s1]
MCOneScopeOf == [c \in MCOneConv |-> s1]
MCRequests == {r1, r2, r3}
MCTwoRequests == {r1, r2}

Symmetry == Permutations(MCRequests) \cup Permutations(MCConvs)
=============================================================================
