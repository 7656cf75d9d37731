-------------------------- MODULE SessionContract --------------------------
(***************************************************************************)
(* What those who read a session rely on: each stage commits its records   *)
(* in one step, once what it needs has committed.  What the gate and the   *)
(* cost decision say of a stage follows from the committed records alone,  *)
(* and a commit stands, but for that of a failed attempt, which the next   *)
(* attempt withdraws.                                                      *)
(***************************************************************************)
EXTENDS Verdicts

CONSTANTS Grades, SameBuild

VARIABLE outcome    \* of each stage: how it ended and the records it committed

Open == [end |-> "open", records |-> {}]

Init == outcome = [s \in Stages |-> Open]

Gate ==
    gate(SameBuild, outcome["compile"].records \cup outcome["quality"].records,
         RequiredQuality, ImprovementIds)

CostDue ==
    cost_stage_due(SameBuild,
                   UNION {outcome[s].records : s \in {"compile", "quality", "correctness"}})

\* The stage is not to run: the gate is closed, or cost is not due after correctness.
Skipped(s) ==
    /\ s \in GATED
    /\ \/ Gate = "closed"
       \/ s = "cost" /\ outcome["correctness"].end = "complete" /\ CostDue = "no"

\* The stage has not committed, what it needs has, and now it comes to its end.
Ends(s, end) ==
    /\ outcome'[s].end = end
    /\ outcome[s] = Open
    /\ \A n \in PREREQUISITES(s) : outcome[n].end \in FINAL

Commit(s, end, records) ==
    outcome' = [outcome EXCEPT ![s] = [end |-> end, records |-> records]]

(* All checks of the body are recorded.  Where records are kept from one attempt to the next,
   earlier ones may remain, but not of the same check. *)
Complete(s) ==
    /\ Ends(s, "complete")
    /\ ~Skipped(s)
    /\ \E graded \in Grades[s], kept \in SUBSET UNION Grades[s] :
          /\ \A r \in kept : r.id \notin IdsOf(graded)
          /\ s \in Resets => kept = {}
          /\ Commit(s, "complete", graded \cup kept)

Fail(s) ==
    /\ Ends(s, "failed")
    /\ ~Skipped(s)
    /\ Commit(s, "failed", {Crash(s)})

Skip(s) ==
    /\ Ends(s, "skipped")
    /\ Skipped(s)
    /\ Commit(s, "skipped", {})

Withdraw(s) ==
    /\ outcome[s].end = "failed"
    /\ outcome' = [outcome EXCEPT ![s] = Open]

Next == \E s \in Stages : Complete(s) \/ Fail(s) \/ Skip(s) \/ Withdraw(s)

Spec == Init /\ [][Next]_outcome
=============================================================================
