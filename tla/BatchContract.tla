--------------------------- MODULE BatchContract ---------------------------
(***************************************************************************)
(* What the callers of run_worker and run_verifier rely on: a batch is      *)
(* answered entry by entry, an answer once given stands, and the call       *)
(* returns when every entry has one.                                        *)
(***************************************************************************)
CONSTANTS Entries, Answers, None

VARIABLES answer, open

Unanswered == {e \in Entries : answer[e] = None}

Init ==
    /\ answer = [e \in Entries |-> None]
    /\ open = TRUE

(* Some entries get their answers; with the last of them the call returns. *)
Step ==
    /\ open
    /\ \E some \in SUBSET Unanswered : \E given \in [some -> Answers] :
           /\ answer' = [e \in Entries |-> IF e \in some THEN given[e] ELSE answer[e]]
           /\ open' = (some # Unanswered)

Spec == Init /\ [][Step]_<<answer, open>>
=============================================================================
