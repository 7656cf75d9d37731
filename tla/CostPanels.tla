----------------------------- MODULE CostPanels -----------------------------
(***************************************************************************)
(* The cost stage of one session over all its attempts (coordinator/        *)
(* costs.py, evaluator/cost.py, stages.cost_body): the panels one after the *)
(* other, each screened, measured in full and measured again after a        *)
(* breach, every regime in a session of its own whose bundle is saved;      *)
(* attempts that are killed, contaminated or broken off; and amendments     *)
(* that change the evidence run.json requires in between.  decide does not  *)
(* read what the stage recorded: it judges the saved bundles again.         *)
(***************************************************************************)
EXTENDS Naturals, Sequences, SequencesExt

CONSTANTS
    Panels,         \* the panels of the comparison's scope, in their order
    Guarded,        \* those that can fail it; the others are reported
    Screened,       \* those whose estimator has a short screen
    Contracts,      \* evidence contracts a harness may require
    None,
    MaxFaults,      \* bound on attempts that are killed or broken off
    MaxAmendments   \* bound on amendments

Names == Range(Panels)

ASSUME PanelsAssumption ==
    /\ Panels \in Seq(Names) \ {<<>>} /\ Guarded \subseteq Names /\ Screened \subseteq Names
    /\ Head(Panels) \in Guarded
ASSUME BoundsAssumption == MaxFaults \in Nat /\ MaxAmendments \in Nat
ASSUME NoneAssumption == None \notin Contracts \cup {"screen", "normal", "rerun"}

VARIABLES
    saved,      \* cost/<panel>/<regime>.json
    status,     \* of the stage
    records,    \* its evidence: the result of each panel
    required,   \* run.json: cost_evidence, None in machine mode
    pc, todo, regime,
    sessions,   \* measuring sessions so far
    faults, amendments

files == <<saved, status, records, required>>
counts == <<sessions, faults, amendments>>
vars == <<files, pc, todo, regime, counts>>

-----------------------------------------------------------------------------
REGIMES == {"screen", "normal", "rerun"}
Unsaved == [session |-> 0, breached |-> FALSE, evidence |-> None]
Panel == Head(todo)

First(p) == IF p \in Screened THEN "screen" ELSE "normal"

Init ==
    /\ saved = [p \in Names |-> [r \in REGIMES |-> Unsaved]]
    /\ status = "not_started" /\ records = [p \in Names |-> "none"]
    /\ required \in Contracts \cup {None}
    /\ pc = "off" /\ todo = <<>> /\ regime = "normal"
    /\ sessions = 0 /\ faults = 0 /\ amendments = 0

\* Mutant: evidence is checked against the contract it names itself.
Valid_any(b) == b # Unsaved /\ (required # None => b.evidence # "unclean")

\* validate_bundle.  What never differs within a session (run, thresholds, estimator,
\* counts, arms) is left out; "unclean" is evidence that any contract refuses.
Valid(b) == b # Unsaved /\ required \in {None, b.evidence}

\* cost_guard of a bundle: the regime that follows, or None when it settles the panel.
Follows(p, r, b) ==
    IF ~b.breached THEN None
    ELSE CASE r = "screen" -> "normal"
           [] r = "normal" -> IF p \in Guarded THEN "rerun" ELSE None
           [] r = "rerun" -> None

\* The result recorded for a panel that bundle b settled.
Settled(p, r, b) ==
    IF p \notin Guarded THEN "not_evaluated"
    ELSE CASE r = "rerun" -> IF b.breached THEN "failed" ELSE "passed_on_rerun"
           [] OTHER -> "passed"

-----------------------------------------------------------------------------
(* An attempt: every panel is judged again, saved bundles are used again, records are not. *)
Start ==
    /\ pc = "off" /\ status # "complete"
    /\ status' = "running" /\ records' = [p \in Names |-> "none"]
    /\ pc' = "regime" /\ todo' = Panels /\ regime' = First(Head(Panels))
    /\ UNCHANGED <<saved, required, counts>>

Stop == pc' = "off" /\ todo' = <<>> /\ regime' = "normal"

\* The stage goes on with the panels after this one, or is complete.
Onward ==
    IF Len(todo) = 1
    THEN Stop /\ status' = "complete"
    ELSE /\ pc' = "regime" /\ todo' = Tail(todo) /\ regime' = First(todo[2])
         /\ UNCHANGED status

\* Incomplete: a report-only panel is passed over; for a guarded one cost_body records the
\* first panel unresolved, whichever it was, and the stage is complete.
RaiseIncomplete ==
    IF Panel \in Guarded
    THEN /\ records' = [records EXCEPT ![Head(Panels)] = "unresolved"]
         /\ Stop /\ status' = "complete"
    ELSE records' = [records EXCEPT ![Panel] = "not_evaluated"] /\ Onward

\* Mutant: a breach of an earlier attempt is measured again.
Reusable_passed(b) == Valid(b) /\ ~b.breached

\* A saved bundle is used again when it is admissible now.
Reusable(b) == Valid(b)

(* measure_panel, at one regime: a saved bundle, or a fresh session. *)
Consult ==
    /\ pc = "regime"
    /\ IF Reusable(saved[Panel][regime])
       THEN pc' = "judge" /\ UNCHANGED sessions
       ELSE pc' = "measuring" /\ sessions' = sessions + 1
    /\ UNCHANGED <<files, todo, regime, faults, amendments>>

(* collect_panel returns a whole bundle, with the evidence of the monitor that measured it.  *)
(* A harness measures only for the contract run.json requires; without one, anything goes.  *)
Measured ==
    /\ pc = "measuring"
    /\ \E breached \in BOOLEAN,
         evidence \in {"unclean"} \cup IF required = None THEN Contracts ELSE {required} :
          saved' = [saved EXCEPT ![Panel][regime] =
                      [session |-> sessions, breached |-> breached, evidence |-> evidence]]
    /\ pc' = "judge"
    /\ UNCHANGED <<status, records, required, todo, regime, counts>>

Fault == faults < MaxFaults /\ faults' = faults + 1

(* A busy machine, or a worker without an answer for every entry. *)
NotMeasured ==
    /\ pc = "measuring" /\ Fault
    /\ RaiseIncomplete
    /\ UNCHANGED <<saved, required, sessions, amendments>>

(* Contaminated, or another error: the stage ends noisy or failed, without a bundle. *)
BrokenOff ==
    /\ pc = "measuring" /\ Fault
    /\ status' \in {"noisy", "failed"} /\ Stop
    /\ UNCHANGED <<saved, records, required, sessions, amendments>>

(* cost_guard judges the bundle: the panel has a result, or its next regime follows. *)
Judge ==
    /\ pc = "judge"
    /\ LET b == saved[Panel][regime]
           next == Follows(Panel, regime, b)
       IN \/ ~Valid(b) /\ RaiseIncomplete
          \/ /\ Valid(b) /\ next # None
             /\ regime' = next /\ pc' = "regime"
             /\ UNCHANGED <<status, records, todo>>
          \/ /\ Valid(b) /\ next = None
             /\ records' = [records EXCEPT ![Panel] = Settled(Panel, regime, b)]
             /\ Onward
    /\ UNCHANGED <<saved, required, counts>>

(* The process dies; the next attempt finds status "running" and the saved bundles. *)
Kill ==
    /\ pc # "off" /\ Fault
    /\ Stop
    /\ UNCHANGED <<files, sessions, amendments>>

(* amend_cost, between two attempts; bundles are not moved. *)
Amend ==
    /\ pc = "off" /\ status # "complete"
    /\ amendments < MaxAmendments /\ amendments' = amendments + 1
    /\ required' \in Contracts \ {required}
    /\ UNCHANGED <<saved, status, records, pc, todo, regime, sessions, faults>>

Next ==
    \/ Start \/ Consult \/ Measured \/ NotMeasured \/ BrokenOff \/ Judge \/ Kill \/ Amend

Spec == Init /\ [][Next]_vars

-----------------------------------------------------------------------------
(* replay_costs: what decide makes of the saved bundles of a complete stage. *)

\* Mutant: the last regime with a saved bundle decides.
Path_last(p) ==
    SelectSeq(<<"screen", "normal", "rerun">>,
              LAMBDA r : r = First(p) \/ saved[p][r] # Unsaved)

\* The regimes a panel is judged by: from its first, as far as each asks for the next.
Path(p) ==
    LET to(r) == Follows(p, r, saved[p][r])
        from(r) == <<r>> \o IF to(r) = None THEN <<>>
                            ELSE <<to(r)>> \o IF to(to(r)) = None \/ r = "normal" THEN <<>>
                                              ELSE <<to(to(r))>>
    IN from(First(p))

\* Of bundles that are there, admissible, and each of a fresh session.
Replay(p) ==
    LET path == Path(p)
        last == path[Len(path)]
    IN IF \A r \in REGIMES : saved[p][r] = Unsaved /\ records[p] = "none" THEN "none"
       ELSE IF /\ \A i \in DOMAIN path : Valid(saved[p][path[i]])
               /\ \A i \in 1 .. Len(path) - 1 :
                     saved[p][path[i]].session # saved[p][path[i + 1]].session
       THEN Settled(p, last, saved[p][last])
       ELSE IF p \in Guarded THEN "unresolved" ELSE "not_evaluated"

Passed(result) == result \in {"passed", "passed_on_rerun"}

(* What decide concludes from the bundles is what the stage saw, whatever earlier attempts, *)
(* regimes no longer asked for and amendments left in the directory: every panel it judged  *)
(* gets the same result, and all guarded panels pass for both or for neither.              *)
ReplayAgrees ==
    status = "complete" =>
        /\ \A p \in Guarded : records[p] \notin {"none", "unresolved"} => Replay(p) = records[p]
        /\ (\A p \in Guarded : Passed(Replay(p))) <=> (\A p \in Guarded : Passed(records[p]))

(* A panel fails only on two sessions that both breached, and passes only on a session that *)
(* did not, for the stage and for decide; each of them with the evidence that run.json      *)
(* requires in the end.                                                                    *)
EvidenceIsCurrent ==
    status = "complete" =>
        LET Good(b) == b # Unsaved /\ (required # None => b.evidence = required)
        IN \A p \in Guarded : \A result \in {records[p], Replay(p)} :
            /\ result = "failed" =>
                  LET n == saved[p]["normal"]
                      r == saved[p]["rerun"]
                  IN Good(n) /\ Good(r) /\ n.breached /\ r.breached /\ n.session # r.session
            /\ Passed(result) =>
                  \E r \in REGIMES : Good(saved[p][r]) /\ ~saved[p][r].breached

(* Nobody rolls the dice again: a measurement that is admissible stands, also when its      *)
(* attempt was killed, contaminated or stopped after it.                                   *)
NoSecondChance ==
    [][\A p \in Names, r \in REGIMES :
          Valid(saved[p][r]) => saved'[p][r] = saved[p][r]]_vars
=============================================================================
