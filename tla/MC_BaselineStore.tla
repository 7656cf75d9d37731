-------------------------- MODULE MC_BaselineStore --------------------------
(***************************************************************************)
(* BaselineStore on a small instance: nothing tells two sessions apart.     *)
(***************************************************************************)
EXTENDS BaselineStore, TLC

CONSTANTS s1, s2

Symmetry == Permutations(Sessions)
=============================================================================
