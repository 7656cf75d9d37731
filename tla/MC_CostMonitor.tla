--------------------------- MODULE MC_CostMonitor ---------------------------
(***************************************************************************)
(* CostMonitor on a small instance.                                         *)
(***************************************************************************)
EXTENDS CostMonitor, TLC

CONSTANTS baseline, evolved

\* Nothing tells the two arms apart.
Symmetry == Permutations(Arms)
=============================================================================
