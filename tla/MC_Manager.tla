----------------------------- MODULE MC_Manager -----------------------------
(***************************************************************************)
(* Instances of Manager: which ends the jobs of each stage may have.       *)
(***************************************************************************)
EXTENDS Manager, TLC

Only(b) == [s \in Stages |-> {b}]

\* Compile fails: the shortest pipeline, for every fault and a resume.
CompileFails == Only("failed")

Succeed == Only("complete")

\* Cost measurements are noisy, and an exception may meet the cost command at any point:
\* before its body, around it and after its last write.
CostIsNoisyOrRaises == [Succeed EXCEPT !["cost"] = {"noisy", "error"}]
\* Cost may be noisy or, its gate closed, skipped.
CostMayBeSkipped == [Succeed EXCEPT !["cost"] = {"noisy", "skipped"}]
=============================================================================
