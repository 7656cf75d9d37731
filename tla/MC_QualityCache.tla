--------------------------- MODULE MC_QualityCache ---------------------------
(***************************************************************************)
(* QualityCache on a small instance: nothing tells two sessions apart.      *)
(***************************************************************************)
EXTENDS QualityCache, TLC

CONSTANTS s1, s2

Symmetry == Permutations(Sessions)
=============================================================================
