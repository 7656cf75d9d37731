--------------------------- MODULE BaselineStore ---------------------------
(***************************************************************************)
(* Several sessions over one baseline in one store: the baseline build that *)
(* compile takes from the store or builds there (Comparison.build,          *)
(* baseline_build, envbuild.build_into), and the baseline half of           *)
(* correctness or of unit-tests, which a stage replays from the store or    *)
(* computes and publishes (coordinator/stages.py, checks.py, upstream.py,   *)
(* store.py).                                                              *)
(*                                                                         *)
(* All sessions have the same keys; an A/A session uses the stored build    *)
(* but not the stored results.  A half of correctness has one outcome per   *)
(* suite (C1-C5 with the API contracts, and C7), one of unit-tests one per  *)
(* suite (Python and Rust): that of one representative check or test, which *)
(* stands for each of them; the code compares sets of tests.  What a file   *)
(* of a published entry holds is the half it was written from.              *)
(***************************************************************************)
EXTENDS Naturals, Sequences, FiniteSets, SequencesExt

CONSTANTS
    Sessions, None,
    MaxFaults       \* bound on kills and on build commands that fail

ASSUME FaultsAssumption == MaxFaults \in Nat
ASSUME NoneAssumption == None \notin Sessions

Stages == {"correctness", "unit-tests"}
Suites == 1 .. 2
Rust == 2
BuildParts == <<"source", "env", "wheel", "build.json">>
\* rows.jsonl and evidence.json, or python.json and rust.json; provenance.json comes last.
Files == <<"first", "second", "provenance">>

VARIABLES
    parts,      \* of builds/<key>: who made each part
    dir, READY, \* it exists, and is marked
    lock,       \* who holds builds/<key>.lock
    results,    \* the published entry: what each file holds
    stage,      \* the stage the sessions go on with
    truth,      \* what each suite says of the baseline
    AA,         \* the sessions with identical builds
    pc,         \* where a session is
    base, evo,  \* where its two build tasks are
    evolved,    \* its evolved build: "absent", "partial" or "built"
    compiled,   \* its compile is complete
    half,       \* its baseline half: the two files or what it computed
    partial,    \* the files in its private directory
    verdict,    \* its result on the evolved half
    faults

build == <<parts, dir, READY, lock>>
given == <<stage, truth, AA>>
tasks == <<base, evo, evolved>>
judged == <<half, partial, verdict>>
vars == <<build, results, given, pc, tasks, compiled, judged, faults>>

-----------------------------------------------------------------------------
\* A run of a suite may get lost: an unverified check, or an incomplete suite.  A crash is a
\* worker failure, which is taken for a mismatch; "cut" is a Rust suite that timed out after
\* its first test binary.
Outcomes == {"good", "bad", "gone", "lost", "crashed", "cut"}
Unset == [by |-> None]
Empty == [f \in Range(Files) |-> Unset]
Unjudged == [result |-> "none"]
Init ==
    /\ parts = [p \in Range(BuildParts) |-> None] /\ dir = FALSE /\ READY = FALSE
    /\ lock = None
    /\ results = Empty
    /\ stage \in Stages /\ truth \in [Suites -> {"good", "bad"}]
    /\ AA \in SUBSET Sessions
    /\ pc = [s \in Sessions |-> "off"]
    /\ base = [s \in Sessions |-> "done"] /\ evo = [s \in Sessions |-> "done"]
    /\ evolved = [s \in Sessions |-> "absent"]
    /\ compiled = [s \in Sessions |-> FALSE]
    /\ half = [s \in Sessions |-> [i \in Suites |-> Unset]]
    /\ partial = [s \in Sessions |-> Empty]
    /\ verdict = [s \in Sessions |-> Unjudged]
    /\ faults = 0

Goto(s, place) == pc' = [pc EXCEPT ![s] = place]
Base(s, place) == base' = [base EXCEPT ![s] = place]
Fault == faults < MaxFaults /\ faults' = faults + 1

-----------------------------------------------------------------------------
(* compile: both builds, each on a thread of its own. *)

(* An invocation: of compile while that is not complete, of the later stage after it. *)
Start(s) ==
    /\ pc[s] = "off"
    /\ IF compiled[s]
       THEN Goto(s, "look") /\ UNCHANGED <<base, evo>>
       ELSE /\ Goto(s, "building")
            /\ Base(s, "look") /\ evo' = [evo EXCEPT ![s] = "look"]
    /\ UNCHANGED <<build, results, given, evolved, compiled, judged, faults>>

(* ready_build without the lock. *)
LookUp(s) ==
    /\ base[s] = "look" /\ pc[s] = "building"
    /\ Base(s, IF READY THEN "verify" ELSE "lock")
    /\ UNCHANGED <<build, results, given, pc, evo, evolved, compiled, judged, faults>>

\* Mutant: the build is not looked up again under the lock.
Recheck_not == FALSE

\* Another session may have made it while this one waited for the lock.
Recheck == READY

Lock(s) ==
    /\ base[s] = "lock" /\ pc[s] = "building" /\ lock = None
    /\ IF Recheck
       THEN Base(s, "verify") /\ UNCHANGED lock
       ELSE Base(s, "remove") /\ lock' = s
    /\ UNCHANGED <<parts, dir, READY, results, given, pc, evo, evolved, compiled, judged, faults>>

(* An interrupted build is removed; build_into makes the directory anew. *)
Repair(s) ==
    /\ base[s] = "remove"
    /\ parts' = [p \in Range(BuildParts) |-> None] /\ READY' = FALSE
    /\ dir' = TRUE
    /\ Base(s, "build")
    /\ UNCHANGED <<lock, results, given, pc, evo, evolved, compiled, judged, faults>>

(* The next part of the build, at its final path. *)
Build(s) ==
    /\ base[s] = "build"
    /\ \E i \in DOMAIN BuildParts :
          /\ parts[BuildParts[i]] = None /\ \A j \in 1 .. i - 1 : parts[BuildParts[j]] # None
          /\ parts' = [parts EXCEPT ![BuildParts[i]] = s]
          /\ Base(s, IF i = Len(BuildParts) THEN "ready" ELSE "build")
    /\ UNCHANGED <<dir, READY, lock, results, given, pc, evo, evolved, compiled, judged, faults>>

(* READY comes last, and then the lock is released. *)
MarkReady(s) ==
    /\ base[s] = "ready"
    /\ READY' = TRUE /\ lock' = None
    /\ Base(s, "verify")
    /\ UNCHANGED <<parts, dir, results, given, pc, evo, evolved, compiled, judged, faults>>

Whole == \E s \in Sessions : \A p \in Range(BuildParts) : parts[p] = s

(* verify_build: what build.json says of the environment holds. *)
Verify(s) ==
    /\ base[s] = "verify"
    /\ Base(s, IF Whole THEN "done" ELSE "failed")
    /\ UNCHANGED <<build, results, given, pc, evo, evolved, compiled, judged, faults>>

(* A command of the build fails; the lock goes with the exception. *)
BuildFails(s) ==
    /\ base[s] = "build" /\ Fault
    /\ Base(s, "failed") /\ lock' = None
    /\ UNCHANGED <<parts, dir, READY, results, given, pc, evo, evolved, compiled, judged>>

(* The evolved build is the session's own: a saved one is used again, a partial one is put   *)
(* aside.                                                                                  *)
StartEvolved(s) ==
    /\ evo[s] = "look" /\ pc[s] = "building"
    /\ IF evolved[s] = "built"
       THEN evo' = [evo EXCEPT ![s] = "done"] /\ UNCHANGED evolved
       ELSE evo' = [evo EXCEPT ![s] = "build"] /\ evolved' = [evolved EXCEPT ![s] = "partial"]
    /\ UNCHANGED <<build, results, given, pc, base, compiled, judged, faults>>

EndEvolved(s) ==
    /\ evo[s] = "build"
    /\ \/ /\ evo' = [evo EXCEPT ![s] = "done"] /\ evolved' = [evolved EXCEPT ![s] = "built"]
          /\ UNCHANGED faults
       \/ /\ Fault
          /\ evo' = [evo EXCEPT ![s] = "failed"] /\ UNCHANGED evolved
    /\ UNCHANGED <<build, results, given, pc, base, compiled, judged>>

(* Both tasks are waited for; one failure fails the stage, and the other build is kept. *)
EndCompile(s) ==
    /\ pc[s] = "building"
    /\ {base[s], evo[s]} \subseteq {"done", "failed"}
    /\ compiled' = [compiled EXCEPT ![s] = base[s] = "done" /\ evo[s] = "done"]
    /\ Goto(s, "off")
    /\ UNCHANGED <<build, results, given, tasks, judged, faults>>

-----------------------------------------------------------------------------
(* The baseline half of a stage. *)

(* read_results: an entry counts from its provenance.json on. *)
Look(s) ==
    /\ pc[s] = "look"
    /\ Goto(s, IF s \notin AA /\ results["provenance"] # Unset THEN "read" ELSE "compute")
    /\ half' = [half EXCEPT ![s] = [i \in Suites |-> Unset]]
    /\ partial' = [partial EXCEPT ![s] = Empty]
    /\ UNCHANGED <<build, results, given, tasks, compiled, verdict, faults>>

(* The two files are read one after the other. *)
Read(s) ==
    /\ pc[s] = "read"
    /\ IF half[s][1] = Unset
       THEN half' = [half EXCEPT ![s][1] = results["first"]] /\ UNCHANGED pc
       ELSE half' = [half EXCEPT ![s][2] = results["second"]] /\ Goto(s, "evolved")
    /\ UNCHANGED <<build, results, given, tasks, compiled, partial, verdict, faults>>

(* What running suite i of a revision can report, when it would say t at its end. *)
Reports(i, t) ==
    IF stage = "correctness"
    THEN {t, "lost"} \cup IF i = 1 THEN {"crashed"} ELSE {}
    ELSE {t, "lost"} \cup IF i = Rust THEN {"cut"} ELSE {}

\* Mutant: one decisive suite is enough.
decisive_one(out) == \E i \in Suites : out[i] \notin {"lost", "crashed"}

\* Every check decisive and no worker failure; or both suites "completed".
decisive(out) == \A i \in Suites : out[i] \notin {"lost", "crashed"}

(* behavior_checks and clifford_checks, or python_suite and rust_suite, for the baseline.    *)
(* Verified outputs of earlier attempts come from verifier-cache, which holds decisive      *)
(* results of the same content only: what is computed does not show it.                    *)
Compute(s) ==
    /\ pc[s] = "compute"
    /\ \E out \in [Suites -> Outcomes] :
          /\ \A i \in Suites : out[i] \in Reports(i, truth[i])
          /\ half' = [half EXCEPT ![s] = [i \in Suites |-> [by |-> s, out |-> out]]]
          /\ Goto(s, IF s \notin AA /\ decisive(out) THEN "publish" ELSE "evolved")
    /\ UNCHANGED <<build, results, given, tasks, compiled, partial, verdict, faults>>

Published == \E f \in Range(Files) : results[f] # Unset

(* publish_results: an entry that exists is left alone. *)
Publish(s) ==
    /\ pc[s] = "publish"
    /\ Goto(s, IF Published THEN "evolved" ELSE "fill")
    /\ UNCHANGED <<build, results, given, tasks, compiled, judged, faults>>

(* fill: in a private directory, one file after the other, provenance.json the last. *)
Fill(s) ==
    /\ pc[s] = "fill"
    /\ \E i \in DOMAIN Files :
          /\ partial[s][Files[i]] = Unset /\ \A j \in 1 .. i - 1 : partial[s][Files[j]] # Unset
          /\ partial' = [partial EXCEPT ![s][Files[i]] = half[s][1]]
          /\ IF i = Len(Files) THEN Goto(s, "rename") ELSE UNCHANGED pc
    /\ UNCHANGED <<build, results, given, tasks, compiled, half, verdict, faults>>

(* The rename fails on an entry that is there, which is then kept; the directory goes. *)
Rename(s) ==
    /\ pc[s] = "rename"
    /\ results' = IF Published THEN results ELSE partial[s]
    /\ partial' = [partial EXCEPT ![s] = Empty]
    /\ Goto(s, "evolved")
    /\ UNCHANGED <<build, given, tasks, compiled, half, verdict, faults>>

-----------------------------------------------------------------------------
(* The evolved half, and the result. *)

Seen(s, i) == half[s][i].out[i]

(* What a test suite says that ended or seemed to: a cut run names no failure.              *)
Completed(o) == o # "lost"
Failed(o) == o = "bad"
Passed(o) == o = "good"

\* Mutant: a test that disappeared is no regression.
judge_failures(b, e) ==
    IF ~Completed(e) \/ (~Completed(b) /\ Failed(e)) THEN "unresolved"
    ELSE IF Completed(b) /\ Failed(e) /\ ~Failed(b) THEN "failed"
    ELSE "passed"

(* judge: the evolved suite against the baseline's. *)
judge(b, e) ==
    IF ~Completed(e) \/ (~Completed(b) /\ Failed(e)) THEN "unresolved"
    ELSE IF Completed(b) /\ ((Failed(e) /\ ~Failed(b)) \/ (Passed(b) /\ ~Passed(e))) THEN "failed"
    ELSE "passed"

Joined(rs) ==
    IF "failed" \in rs THEN "failed" ELSE IF rs = {"passed"} THEN "passed" ELSE "unresolved"

\* baseline/preflight: no check of the baseline failed, a crashed worker's included.
PreflightFailed(s) == \E i \in Suites : Seen(s, i) \in {"bad", "crashed"}

Result(s, seen) ==
    IF stage = "correctness"
    THEN IF PreflightFailed(s) THEN "unchecked"
         ELSE Joined({IF seen[i] \in {"bad", "crashed"} THEN "failed"
                      ELSE IF seen[i] = "good" /\ Seen(s, i) = "good" THEN "passed"
                      ELSE "unresolved" : i \in Suites})
    ELSE Joined({judge(Seen(s, i), seen[i]) : i \in Suites})

\* What the evolved suites say at their end, and what they report: at most one deviates.
EvolvedRuns ==
    {run \in [Suites -> {"good", "bad", "gone"}] \X [Suites -> Outcomes] :
        /\ \A i \in Suites : run[2][i] \in Reports(i, run[1][i])
        /\ stage = "correctness" => \A i \in Suites : run[1][i] # "gone"
        /\ Cardinality({i \in Suites : run[1][i] # "good" \/ run[2][i] # "good"}) <= 1}

Evolved(s) ==
    /\ pc[s] = "evolved"
    /\ \E run \in EvolvedRuns :
          verdict' = [verdict EXCEPT ![s] =
             [result |-> Result(s, run[2]), end |-> run[1], seen |-> run[2]]]
    /\ Goto(s, "done")
    /\ UNCHANGED <<build, results, given, tasks, compiled, half, partial, faults>>

(* The session is killed, with both its threads; files stay, locks do not. *)
Kill(s) ==
    /\ pc[s] \notin {"off", "done"} /\ Fault
    /\ Goto(s, "off")
    /\ Base(s, "done") /\ evo' = [evo EXCEPT ![s] = "done"]
    /\ lock' = IF lock = s THEN None ELSE lock
    /\ UNCHANGED <<parts, dir, READY, results, given, evolved, compiled, judged>>

-----------------------------------------------------------------------------
BuildStep(s) ==
    \/ Start(s) \/ LookUp(s) \/ Lock(s) \/ Repair(s) \/ Build(s) \/ MarkReady(s) \/ Verify(s)
    \/ BuildFails(s) \/ StartEvolved(s) \/ EndEvolved(s) \/ EndCompile(s)

ResultStep(s) ==
    Look(s) \/ Read(s) \/ Compute(s) \/ Publish(s) \/ Fill(s) \/ Rename(s) \/ Evolved(s)

Next == \E s \in Sessions : BuildStep(s) \/ ResultStep(s) \/ Kill(s)

Spec == Init /\ [][Next]_vars

-----------------------------------------------------------------------------
(* "A ready build entry is immutable", and what is ready is one session's whole build: no   *)
(* session that found the entry missing, waited, or repairs an interrupted build touches   *)
(* one that others may have recorded.                                                      *)
ReadyStays == [][READY => Whole /\ UNCHANGED <<parts, READY>>]_vars

(* A session never judges by a mix of two sessions' halves, whoever published, lost the     *)
(* rename or was killed while filling; and a half it did not compute itself is the truth    *)
(* about the baseline, apart from a Rust suite that timed out after its first results.      *)
ReplayedIsTrue ==
    \A s \in Sessions : verdict[s] # Unjudged =>
        /\ half[s][1] = half[s][2]
        /\ half[s][1].by # s =>
             \A i \in Suites : Seen(s, i) \in {truth[i]} \cup IF i = Rust THEN {"cut"} ELSE {}

(* Passing is earned: no suite that passes on the baseline fails on the evolved build, nor  *)
(* lost its tests, unless this very suite was cut or (lost tests) the baseline had no       *)
(* complete result.  And failing is: some suite got worse, was cut or crashed.             *)
VerdictIsTrue ==
    \A s \in Sessions : LET v == verdict[s] IN
        /\ v.result = "passed" => \A i \in Suites :
              \/ v.end[i] = "good" \/ truth[i] = "bad"
              \/ v.seen[i] = "cut"
              \/ (v.end[i] = "gone" /\ Seen(s, i) \in {"lost", "cut"})
        /\ v.result = "failed" => \E i \in Suites :
              v.end[i] # "good" \/ v.seen[i] \in {"cut", "crashed"}
=============================================================================
