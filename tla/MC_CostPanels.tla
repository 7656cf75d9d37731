--------------------------- MODULE MC_CostPanels ---------------------------
(***************************************************************************)
(* CostPanels on a guarded panel with a screen, one that is only reported,  *)
(* and a guarded one without a screen.  Nothing tells contracts apart.      *)
(***************************************************************************)
EXTENDS CostPanels, TLC

CONSTANTS v1, v2

ThreePanels == <<"timing", "preset", "memory">>
Symmetry == Permutations(Contracts)
=============================================================================
