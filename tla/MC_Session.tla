----------------------------- MODULE MC_Session -----------------------------
(***************************************************************************)
(* Session on small instances: which processes run which commands, what    *)
(* the stage bodies may find, and which stages may be tried twice.         *)
(***************************************************************************)
EXTENDS Session, TLC

CONSTANTS p1, p2

Rec(s, name, kind, result) == record(<<s, name>>, kind, result, "evolved")

QualityGrade(improvement, guards) ==
    {Rec("quality", "audit", "guard", "passed"),
     Rec("quality", "guards", "guard", guards),
     Rec("quality", "improvement", "improvement", improvement)}

CorrectnessGrade(suite) ==
    {record(<<"correctness", "preflight">>, "correctness", "passed", "reference"),
     Rec("correctness", "suite", "correctness", suite)}

PreflightFailed ==
    {record(<<"correctness", "preflight">>, "correctness", "failed", "reference")}

GradesWith(quality, correctness, others) == [s \in Stages |->
    CASE s = "compile" -> {{Rec(s, "roundtrip", "harness", "passed")}}
      [] s = "quality" -> quality
      [] s = "correctness" -> correctness
      [] s = "unit-tests" -> {{Rec(s, "upstream", "correctness", r)} : r \in others}
      [] s = "cost" -> {{Rec(s, "panel", "cost", r)} : r \in others}]

\* Every outcome of quality and correctness that leads to a different path; no stage reads
\* what unit-tests and cost find.
StageGrades ==
    GradesWith({QualityGrade("passed", "passed"), QualityGrade("failed", "passed"),
                QualityGrade("passed", "failed")},
               {CorrectnessGrade("passed"), CorrectnessGrade("failed"), PreflightFailed},
               {"failed"})

\* A candidate that improves.
PassingGrades ==
    GradesWith({QualityGrade("passed", "passed")}, {CorrectnessGrade("passed")}, {"passed"})

\* Identical builds.
SameBuildGrades ==
    GradesWith({QualityGrade("failed", "passed")},
               {CorrectnessGrade("passed"), CorrectnessGrade("failed")},
               {"passed"})

Tries(again) == [s \in Stages |-> IF s \in again THEN 2 ELSE 1]
RetryQuality == Tries({"quality"})
RetryCost == Tries({"cost"})

\* A process for the stages, one that decides and cleans up.
StagesAndDecide == p1 :> Stages \ {"unit-tests"} @@ p2 :> {"decide", "clean"}
\* Two processes that run any stage.
TwoChains == [p \in Procs |-> Stages]
\* Cost is measured and re-pinned, and the session is decided.
CostAndAmend == p1 :> (Stages \ {"unit-tests"}) \cup {"decide"} @@ p2 :> {"cost", "amend"}
\* Two stages, and two processes that decide while one of them also cleans up.
TwoDeciders == p1 :> {"compile", "quality", "decide"} @@ p2 :> {"decide", "clean"}

Symmetry == Permutations(Procs)
=============================================================================
