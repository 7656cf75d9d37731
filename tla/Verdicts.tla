------------------------------ MODULE Verdicts ------------------------------
(***************************************************************************)
(* The judgements the harness makes from evidence records: whether the     *)
(* quality gate opens (gate), whether the cost panels are due              *)
(* (cost_stage_due), and the verdict of a session (verdict).  They are     *)
(* pure functions of a set of records; everything a record carries beyond  *)
(* the four fields below is report text.  Also the stages, their order and *)
(* their states, which the session and the manager share.                  *)
(***************************************************************************)
EXTENDS FiniteSets

Stages == {"compile", "quality", "correctness", "unit-tests", "cost"}

(* The stages in their order, and the stages each one needs to have finished. *)
STAGE_ORDER == <<"compile", "quality", "correctness", "unit-tests", "cost">>

Needs == {<<"quality", "compile">>, <<"correctness", "quality">>, <<"unit-tests", "quality">>,
          <<"cost", "correctness">>}
PREREQUISITES(s) == {n \in Stages : <<s, n>> \in Needs}

GATED == {"correctness", "unit-tests", "cost"}
FINAL == {"complete", "skipped"}
UNFINISHED == {"running", "noisy"}

\* Bodies that begin with reset_evidence; compile and quality keep their records.
Resets == {"correctness", "unit-tests", "cost"}

KINDS == {"harness", "correctness", "guard", "cost", "improvement", "completeness"}
RESULTS == {"passed", "failed", "passed_on_rerun", "unresolved", "not_evaluated"}
Subjects == {"evolved", "reference"}

\* The names a record may have within the stage that writes it.
Names == {"error", "roundtrip", "audit", "improvement", "guards", "preflight",
          "suite", "upstream", "panel"}

\* A record id is the stage that writes it and its name there.
Ids == Stages \X Names

Record == [id: Ids, kind: KINDS, result: RESULTS, subject: Subjects]

record(id, kind, result, subject) ==
    [id |-> id, kind |-> kind, result |-> result, subject |-> subject]

\* The record a crashed stage leaves: harness/error/<stage>.
Crash(s) == record(<<s, "error">>, "harness", "failed", "evolved")

IdsOf(records) == {r.id : r \in records}

-----------------------------------------------------------------------------

(***************************************************************************)
(* Whether correctness, unit tests and cost run after quality.  Every      *)
(* record that is not about improvement must be there and have passed, an  *)
(* unresolved one included; then identical builds open the gate as an A/A  *)
(* check, and different builds open it when every improvement passed.      *)
(***************************************************************************)
Blocking(records, requiredQuality, improvementIds) ==
    \/ \E r \in records : r.kind # "improvement" /\ r.result # "passed"
    \/ ~((requiredQuality \ improvementIds) \subseteq IdsOf(records))
    \/ <<"compile", "roundtrip">> \notin IdsOf(records) \cup requiredQuality

AllImproved(records, improvementIds) ==
    /\ improvementIds # {}
    /\ \A i \in improvementIds : \E r \in records : r.id = i /\ r.result = "passed"
    /\ \A r \in records : r.kind = "improvement" => r.result = "passed"

\* The records quality is judged by, and those of them that are improvements.
RequiredQuality ==
    {<<"compile", "roundtrip">>, <<"quality", "audit">>, <<"quality", "guards">>,
     <<"quality", "improvement">>}
ImprovementIds == {<<"quality", "improvement">>}

gate(sameBuild, records, requiredQuality, improvementIds) ==
    IF Blocking(records, requiredQuality, improvementIds) THEN "closed"
    ELSE IF sameBuild THEN "aa"
    ELSE IF AllImproved(records, improvementIds) THEN "improved"
    ELSE "closed"

\* Mutant: identical builds never improve, so their cost is never due.
cost_due_improved_only(sameBuild, records) ==
    IF /\ \E r \in records : r.kind = "improvement" /\ r.result = "passed"
       /\ \A r \in records : r.result # "failed"
    THEN "improved" ELSE "no"

(* Why the cost panels are measured; "no" stands for None. *)
cost_stage_due(sameBuild, records) ==
    LET failed == {r \in records : r.result = "failed"}
        improved == \E r \in records : r.kind = "improvement" /\ r.result = "passed"
    IN  IF improved /\ failed = {} THEN "improved"
        ELSE IF sameBuild /\ \A r \in failed : r.kind = "improvement" THEN "aa"
        ELSE "no"

(* The verdict: the first rule that applies, worst evidence first. *)
Failed(records) == {r \in records : r.result = "failed"}

AllPassed(records, required) ==
    \A i \in required :
        \E r \in records : r.id = i /\ r.result \in {"passed", "passed_on_rerun"}

verdict(records, required) ==
    IF \E r \in Failed(records) : r.kind = "harness" THEN "ERROR"
    ELSE IF \E r \in Failed(records) : r.subject = "evolved" /\ r.kind # "improvement"
         THEN "CONSTRAINT_VIOLATION"
    ELSE IF \E r \in Failed(records) : r.subject = "reference" THEN "INCONCLUSIVE"
    ELSE IF \E r \in Failed(records) : r.kind = "improvement" THEN "NO_IMPROVEMENT"
    ELSE IF AllPassed(records, required) THEN "PASS"
    ELSE "INCONCLUSIVE"

VERDICTS == {"ERROR", "CONSTRAINT_VIOLATION", "INCONCLUSIVE", "NO_IMPROVEMENT", "PASS"}
=============================================================================
