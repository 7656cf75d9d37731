------------------------------ MODULE WorkerRun ------------------------------
(***************************************************************************)
(* One batch of work in a child process, watched by the coordinator:       *)
(* run_worker with a batch of seeds, or the loop of run_verifier over a     *)
(* chunk of oracle jobs (coordinator/process.py, coordinator/__init__.py,   *)
(* qtb_worker, qtb_verifier).                                              *)
(*                                                                         *)
(* The child answers its entries in order.  A worker appends one line per   *)
(* seed to results.jsonl, which a kill can tear; the verifier replaces one  *)
(* file per job.  The coordinator counts the answers at every poll, kills a *)
(* child that has not answered for too long, and makes up what is missing.  *)
(* Time is abstracted: a poll that brought no news may be the one at which  *)
(* the timeout has passed.  The child may be slow, hang, fail or die.       *)
(***************************************************************************)
EXTENDS Naturals, Sequences, FiniteSets, FiniteSetsExt, SequencesExt

CONSTANT
    N       \* the number of entries of the batch

ASSUME NAssumption == N \in Nat \ {0}

Kinds == {"worker", "verifier"}
Entries == 1 .. N
Statuses == {"ok", "error"}

VARIABLES
    kind,       \* which of the two loops this is
    pc,         \* the coordinator's place in its loop
    todo,       \* the entries of the running child's job
    completed,  \* answers counted at the last poll that brought news
    fresh,      \* that last poll brought news
    timed_out,  \* this child was killed for its silence
    results,    \* what the call returns, as far as collected
    child,      \* "none", "alive" or "dead"
    at,         \* the entry the child works on
    doing,      \* what it does there: Doings
    half,       \* the answer being written
    rows,       \* the complete answers of this child, in order
    written     \* every answer any child completed

caller == <<kind, pc, todo, completed, fresh, timed_out, results>>
worker == <<child, at, doing, half, rows, written>>
vars == <<caller, worker>>

-----------------------------------------------------------------------------
Places == {"launch", "poll", "watch", "reap", "done", "raised"}
\* "B", "timing" and "E" are the measurement boundaries of a monitored worker.
Doings == {"boot", "work", "B", "timing", "E", "answer", "half", "exit"}
Row == [seed : Entries, status : Statuses]
Result == [seed : Entries, status : Statuses \cup {"timed_out", "exited", "not_attempted"}]

TypeOK ==
    /\ kind \in Kinds
    /\ pc \in Places
    /\ todo \subseteq Entries
    /\ completed \in 0 .. N
    /\ fresh \in BOOLEAN /\ timed_out \in BOOLEAN
    /\ results \in Seq(Result)
    /\ child \in {"none", "alive", "dead"}
    /\ at \in 0 .. N
    /\ doing \in Doings
    /\ half \in Statuses
    /\ rows \in Seq(Row)
    /\ written \subseteq Row

Init ==
    /\ kind \in Kinds
    /\ pc = "launch"
    /\ todo = Entries
    /\ completed = 0 /\ fresh = FALSE /\ timed_out = FALSE
    /\ results = <<>>
    /\ child = "none" /\ at = 0 /\ doing = "boot" /\ half = "ok"
    /\ rows = <<>> /\ written = {}

-----------------------------------------------------------------------------
(* The child. *)

(* verify_provenance and load_inputs, or the check of the verifier's Qiskit, are over. *)
Boot ==
    /\ child = "alive" /\ doing = "boot"
    /\ doing' = "work"
    /\ UNCHANGED <<caller, child, at, half, rows, written>>

(* run_seed, or one oracle, returns or raises; the answer is still to be written.  A        *)
(* monitored worker passes its measurement boundaries on the way: module CostMonitor.       *)
RunSeed ==
    /\ child = "alive" /\ doing = "work"
    /\ \E s \in Statuses : half' = s
    /\ doing' = "answer"
    /\ UNCHANGED <<caller, child, at, rows, written>>

(* The unbuffered write of a result line has begun: its newline is not there yet. *)
BeginRow ==
    /\ child = "alive" /\ doing = "answer" /\ kind = "worker"
    /\ doing' = "half"
    /\ UNCHANGED <<caller, child, at, half, rows, written>>

(* The line is complete (or the verifier's result file replaced); the next entry, or the    *)
(* end of the process.                                                                     *)
FinishRow ==
    /\ child = "alive"
    /\ doing = IF kind = "worker" THEN "half" ELSE "answer"
    /\ LET row == [seed |-> at, status |-> half]
           later == {s \in todo : s > at}
       IN /\ rows' = Append(rows, row)
          /\ written' = written \cup {row}
          /\ IF later = {} THEN doing' = "exit" /\ at' = 0
                           ELSE doing' = "work" /\ at' = Min(later)
    /\ UNCHANGED <<caller, child, half>>

(* The child ends: after its last entry, or because it could not start, crashed or was      *)
(* killed from outside.                                                                    *)
Exit ==
    /\ child = "alive"
    /\ child' = "dead"
    /\ UNCHANGED <<caller, at, doing, half, rows, written>>

-----------------------------------------------------------------------------
(* The coordinator. *)

(* Popen in a fresh directory. *)
Launch ==
    /\ pc = "launch"
    /\ child' = "alive" /\ at' = Min(todo) /\ doing' = "boot" /\ half' = "ok" /\ rows' = <<>>
    /\ completed' = 0 /\ fresh' = FALSE /\ timed_out' = FALSE
    /\ pc' = "poll"
    /\ UNCHANGED <<kind, todo, results, written>>

\* Mutant: the time of the last news is renewed at every poll.
Poll_renewed ==
    /\ pc = "poll" /\ child = "alive"
    /\ fresh' = TRUE
    /\ completed' = Len(rows)
    /\ pc' = "watch"
    /\ UNCHANGED <<kind, todo, timed_out, results, worker>>

(* The loop's test finds the child alive, and the complete answers are counted. *)
Poll ==
    /\ pc = "poll" /\ child = "alive"
    /\ fresh' = (Len(rows) > completed)
    /\ completed' = Len(rows)
    /\ pc' = "watch"
    /\ UNCHANGED <<kind, todo, timed_out, results, worker>>

(* Nothing is due: the next round. *)
Sleep ==
    /\ pc = "watch"
    /\ pc' = "poll"
    /\ UNCHANGED <<kind, todo, completed, fresh, timed_out, results, worker>>

(* The timeout has passed since the last news: the process group is killed. *)
Timeout ==
    /\ pc = "watch" /\ ~fresh
    /\ timed_out' = TRUE
    /\ child' = "dead"
    /\ pc' = "reap"
    /\ UNCHANGED <<kind, todo, completed, fresh, results, at, doing, half, rows, written>>

(* The loop's test finds that the child has ended. *)
ExitSeen ==
    /\ pc = "poll" /\ child = "dead"
    /\ pc' = "reap"
    /\ UNCHANGED <<kind, todo, completed, fresh, timed_out, results, worker>>

-----------------------------------------------------------------------------
\* Mutant: only what the last poll counted.
Complete_counted == SubSeq(rows, 1, completed)

(* The complete answers, read again after the child has ended. *)
Complete == rows

Seen == {Complete[i].seed : i \in DOMAIN Complete}

(* "Worker returned duplicate/unrequested results" *)
Unsound == Seen \ todo # {} \/ Cardinality(Seen) # Len(Complete)

Answer(s, status) == [seed |-> s, status |-> status]

\* Mutant: nothing is made up for the entries after the blamed one.
MadeUp_one(blamed, rest) == <<Answer(blamed, IF timed_out THEN "timed_out" ELSE "exited")>>

(* The rows made up for entries without an answer. *)
MadeUp(blamed, rest) ==
    <<Answer(blamed, IF timed_out THEN "timed_out" ELSE "exited")>>
    \o IF kind = "worker" /\ ~timed_out
       THEN SetToSeq({Answer(s, "not_attempted") : s \in rest})
       ELSE <<>>

(* Whether a fresh process takes the entries after the blamed one: for a worker only after  *)
(* a timeout, since a failure to start may recur for every seed.                           *)
Again(rest) == rest # {} /\ (kind = "verifier" \/ timed_out)

(* The child is reaped; its complete answers are read again and what is missing made up. *)
Collect ==
    /\ pc = "reap"
    /\ child' = "none"
    /\ IF Unsound
       THEN pc' = "raised" /\ UNCHANGED <<results, todo>>
       ELSE LET pending == todo \ Seen
                blamed == Min(pending)
                rest == pending \ {blamed}
            IN IF pending = {}
               THEN results' = results \o Complete /\ pc' = "done" /\ UNCHANGED todo
               ELSE /\ results' = results \o Complete \o MadeUp(blamed, rest)
                    /\ IF Again(rest) THEN todo' = rest /\ pc' = "launch"
                                      ELSE pc' = "done" /\ UNCHANGED todo
    /\ UNCHANGED <<kind, completed, fresh, timed_out, at, doing, half, rows, written>>

-----------------------------------------------------------------------------
Watching == Launch \/ Poll \/ Sleep \/ Timeout \/ ExitSeen \/ Collect
Working == Boot \/ RunSeed \/ BeginRow \/ FinishRow \/ Exit

Next == Watching \/ Working

Spec == Init /\ [][Next]_vars

(* The coordinator keeps running, and its clock with it: it cannot poll a silent child for  *)
(* ever without the timeout passing.  The child owes nothing.                              *)
FairSpec == Spec /\ WF_vars(Watching) /\ SF_vars(Timeout)

-----------------------------------------------------------------------------
Ended == pc \in {"done", "raised"}

(* What run_worker and verify_chunk return has exactly one row for every entry they were    *)
(* asked for, however often the child was replaced, torn or blamed; and it is the child's  *)
(* own answer when the child completed one, also when it was killed right after it and the *)
(* poll before had not seen it.                                                            *)
AnsweredOnce ==
    pc = "done" =>
        /\ \A s \in Entries : Cardinality({i \in DOMAIN results : results[i].seed = s}) = 1
        /\ written \subseteq Range(results)

(* The answers a caller would see if the call returned now. *)
AnswerOf(s) ==
    LET given == {i \in DOMAIN results : results[i].seed = s}
    IN IF given = {} THEN "none" ELSE results[Max(given)].status

Contract ==
    INSTANCE BatchContract WITH
        Entries <- Entries, None <- "none",
        Answers <- Statuses \cup {"timed_out", "exited", "not_attempted"},
        answer <- [s \in Entries |-> AnswerOf(s)], open <- ~Ended

(* A call is such a batch: answers come once and stand, and it returns with all of them,    *)
(* never by raising "duplicate/unrequested results".                                       *)
ImplementsContract == Contract!Spec

(* A call ends whatever the child does: hang, die, or answer at the last moment. *)
CallEnds == <>Ended
=============================================================================
