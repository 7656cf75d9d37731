------------------------------ MODULE Manager -------------------------------
(***************************************************************************)
(* One session run on LSF: the manager that submits every stage as a job,  *)
(* the ledger it keeps, the launcher that starts and resumes it, the       *)
(* operator's reap, the stage jobs, and the scheduler between them.        *)
(*                                                                         *)
(* The ledger is written only under the orchestration lock, so one process *)
(* at a time is inside: the variables pc to looked are its memory.  A step *)
(* is one call to the scheduler or one save of the ledger; the process may *)
(* be killed, and LSF jobs may move, between any two.                      *)
(*                                                                         *)
(* LSF is external and is not trusted: an answer to bjobs or bhist may     *)
(* fail or miss a job that exists, a bsub without an answer may have been  *)
(* accepted or be accepted later.  What it does say is true: a job that it *)
(* reports DONE or EXIT has ended, a submission it refuses starts no job.  *)
(***************************************************************************)
EXTENDS Integers, Sequences, Verdicts

CONSTANTS
    UnitTests,        \* launch.json: unit_tests
    MaxCostAttempts,  \* retry.MAX_COST_ATTEMPTS
    MaxRejections,    \* retry.MAX_REJECTIONS
    NameLookups,      \* NAME_LOOKUPS
    Ends,             \* Ends[s]: the states a job of stage s may leave when it is not killed,
                      \* and "error" if its command or the wrapper may raise outside the body
    Answers,          \* what bsub may answer
    Honest,           \* bjobs and bhist always answer, and know every job
    MaxJobs,          \* bound: entries of the ledger
    MaxEpochs,        \* bound: resumes
    MaxKills,         \* bound: untrappable kills of the process that holds the lock
    MaxFaults,        \* bound: signals, and jobs refused or killed, except by the manager
    MaxByHand         \* bound: stages the user runs without the manager

JobStages == Stages \cup {"clean", "manager"}
BodyEnds == {"complete", "skipped", "failed", "noisy"}
\* What a job's command came to: a state of its stage, or none.
Results == BodyEnds \cup {"none", "final", "refused", "usage", "error"}

ASSUME ManagerAssumption ==
    /\ UnitTests \in BOOLEAN /\ Honest \in BOOLEAN
    /\ MaxCostAttempts \in Nat /\ MaxRejections \in Nat \ {0} /\ NameLookups \in Nat
    /\ Ends \in [Stages -> SUBSET (BodyEnds \cup {"error"})]
    /\ \A s \in Stages : ("noisy" \in Ends[s] => s = "cost") /\ ("skipped" \in Ends[s] => s \in GATED)
    /\ Answers \subseteq {"accepted", "ambiguous", "rejected"}
    /\ MaxJobs \in Nat \ {0} /\ MaxEpochs \in Nat /\ MaxKills \in Nat /\ MaxFaults \in Nat /\ MaxByHand \in Nat

VARIABLES
    ledger,    \* ledger.json: the entry of each job, in the order of their reservation
    count,     \* the number of entries
    epoch,     \* ledger.json: len(resumes)
    created,   \* the session has run.json
    state,     \* the stages' state.json (clean.json for clean) and the job that wrote it
    lsf,       \* where each job is in LSF
    body,      \* what the job's stage command committed, or why it committed nothing
    outcome,   \* outcomes/<key>.json: the recorded exit code
    holder,    \* who holds orchestration.lock
    me,        \* the manager's own job
    pc, step, queue, todo, waiting, cur, answer, tries, why, looked,
    kills, faults, hands

disk == <<ledger, count, epoch>>
world == <<created, state, lsf, body, outcome>>
local == <<holder, me, pc, step, queue, todo, waiting, cur, answer, tries, why, looked>>
bounds == <<kills, faults, hands>>
vars == <<disk, world, local, bounds>>

Keys == 1 .. MaxJobs

ACTIVE == {"reserved", "submitted", "ambiguous"}
\* Mutant: settled entries are looked at again.
UnsettledAll == ACTIVE \cup {"unreconciled", "terminal"}

Unsettled == ACTIVE \cup {"unreconciled"}
EntryStatuses == Unsettled \cup {"unused", "rejected", "terminal"}
OutcomeKinds == BodyEnds \cup {"none", "lost", "killed", "unknown", "already-final", "inconsistent",
                               "terminated", "precondition", "usage", "cancelled"}
Entry == [stage: JobStages, epoch: Nat, status: EntryStatuses, kind: OutcomeKinds, lookups: Nat]
Unused == [stage |-> "manager", epoch |-> 0, status |-> "unused", kind |-> "none", lookups |-> 0]

\* A job LSF has, or a submission of it that may still arrive.
InLsf == {"sent", "pend", "run", "over"}
\* TERMINAL
Ended == {"DONE", "EXIT"}

NoCode == -1

-----------------------------------------------------------------------------
(* Ledger *)

\* Mutant: an entry without a job id is not seen.
CurrentWithId(s) == {k \in Keys : ledger[k].stage = s /\ ledger[k].epoch = epoch
                                  /\ ledger[k].status \notin {"unused", "rejected", "reserved", "ambiguous"}}

Current(s) == {k \in Keys : ledger[k].stage = s /\ ledger[k].epoch = epoch
                            /\ ledger[k].status \notin {"unused", "rejected"}}

\* Ledger.latest, as a set with at most one element: attempts are numbered in the order of
\* their reservation.
latest(s) == {k \in Current(s) : \A j \in Current(s) : j <= k}

budget_used == Cardinality({k \in Current("cost") : ledger[k].kind \notin {"skipped", "already-final"}})

\* Mutant: any ended attempt is retried.
decision_any ==
    /\ \A k \in latest("cost") : ledger[k].status \notin ACTIVE
    /\ budget_used < MaxCostAttempts

\* retry.decision: another cost job is allowed.
decision ==
    /\ \A k \in latest("cost") : ledger[k].status \notin ACTIVE /\ ledger[k].kind = "noisy"
    /\ budget_used < MaxCostAttempts

\* Mutant: a job that was given up on is not owned any more.
owned_active == {k \in Keys : ledger[k].status \in ACTIVE /\ ledger[k].stage # "manager"}

\* Manager.owned
owned == {k \in Keys : ledger[k].status \in Unsettled /\ ledger[k].stage # "manager"}
ownedManagers == {k \in Keys : ledger[k].status \in Unsettled /\ ledger[k].stage = "manager"}

\* Mutant: the new entry is not counted.
reserve_uncounted(s) ==
    /\ count < MaxJobs
    /\ ledger' = [ledger EXCEPT ![count + 1] = [Unused EXCEPT !.stage = s, !.epoch = epoch,
                                                              !.status = "reserved"]]
    /\ cur' = count + 1
    /\ tries' = 0
    /\ pc' = "bsub"
    /\ UNCHANGED count

reserve(s) ==
    /\ count < MaxJobs
    /\ count' = count + 1
    /\ ledger' = [ledger EXCEPT ![count + 1] = [Unused EXCEPT !.stage = s, !.epoch = epoch,
                                                              !.status = "reserved"]]
    /\ cur' = count + 1
    /\ tries' = 0
    /\ pc' = "bsub"

IsJob(k) == ledger[k].stage # "manager"

\* The entries of a loop are handled in ledger order.
First(keys) == {k \in keys : \A j \in keys : k <= j}

Fault == faults < MaxFaults /\ faults' = faults + 1 /\ UNCHANGED <<kills, hands>>

update(k, e) == ledger' = [ledger EXCEPT ![k] = e]

-----------------------------------------------------------------------------
(* Scheduler: what it may answer about job k *)

Truth(k) == IF lsf[k] \in Ended THEN lsf[k] ELSE "RUN"

\* bjobs by id and, for a job it does not list, bhist.
query(k) == IF Honest THEN {Truth(k)} ELSE {Truth(k), "NOTFOUND", "failed"}

\* bjobs by name.
find(k) ==
    LET listed == lsf[k] \notin {"none", "sent"} IN
    IF Honest THEN {IF listed THEN "found" ELSE "missing"}
    ELSE {"missing", "failed"} \cup (IF listed THEN {"found"} ELSE {})

\* reconcile_by_name: the entries it may leave.  Only a manager lives through lost_after_s.
reconcile_by_name(k) ==
    LET e == ledger[k]
        n == IF e.lookups < NameLookups THEN e.lookups + 1 ELSE NameLookups
        gone == [e EXCEPT !.lookups = n]
    IN  {[e EXCEPT !.status = "submitted"] : a \in find(k) \cap {"found"}}
        \cup {e : a \in find(k) \cap {"failed"}}
        \cup {gone : a \in find(k) \cap {"missing"}}
        \cup {[gone EXCEPT !.status = "unreconciled"] : a \in {a \in find(k) \cap {"missing"} :
                  holder = "manager" /\ k \in looked /\ n = NameLookups}}

-----------------------------------------------------------------------------
(* Outcomes *)

\* Mutant: the stage's state is believed whoever wrote it.
classify_trusting(k, end) ==
    LET s == ledger[k].stage IN
    IF outcome[k] = NoCode THEN (IF end = "EXIT" THEN "killed" ELSE "unknown")
    ELSE IF s = "clean" THEN (IF outcome[k] = 0 THEN "complete" ELSE "failed")
    ELSE IF outcome[k] = 0 THEN (IF state[s].status \in FINAL THEN state[s].status ELSE "inconsistent")
    ELSE IF outcome[k] = 42 THEN (IF state[s].status = "noisy" THEN "noisy" ELSE "inconsistent")
    ELSE IF outcome[k] >= 128 THEN "terminated"
    ELSE IF outcome[k] = 41 THEN "precondition"
    ELSE IF outcome[k] = 64 THEN "usage" ELSE "failed"

\* Manager.classify; end is the terminal state LSF reports.
classify(k, end) ==
    LET s == ledger[k].stage
        mine == state[s].by = k
        final == state[s].status \in FINAL
    IN  IF outcome[k] = NoCode THEN (IF end = "EXIT" THEN "killed" ELSE "unknown")
        ELSE IF s = "clean"
             THEN (IF outcome[k] = 0 THEN "complete"
                   ELSE IF outcome[k] = 41 THEN "precondition" ELSE "failed")
        ELSE IF outcome[k] = 0
             THEN (IF ~final THEN "inconsistent" ELSE IF mine THEN state[s].status ELSE "already-final")
        ELSE IF outcome[k] = 42
             THEN (IF state[s].status = "noisy" /\ mine THEN "noisy" ELSE "inconsistent")
        ELSE IF outcome[k] >= 128 THEN "terminated"
        ELSE IF outcome[k] = 41 THEN "precondition"
        ELSE IF outcome[k] = 64 THEN "usage" ELSE "failed"

\* Manager.settle of a job LSF reports as ended.
settle(k, end, cancelled) ==
    LET kind == classify(k, end)
        shown == IF cancelled /\ kind \in {"killed", "terminated", "unknown"} THEN "cancelled" ELSE kind
    IN  [ledger[k] EXCEPT !.status = "terminal", !.kind = shown]

\* Mutant: a job that LSF does not know any more is taken for ended.
lose_ended(e) == [e EXCEPT !.status = "terminal", !.kind = "lost"]

\* Manager.settle of a job whose end cannot be confirmed.
lose(e) == [e EXCEPT !.status = "unreconciled", !.kind = "lost"]

-----------------------------------------------------------------------------
(* The process that holds the lock *)

Release ==
    /\ holder' = "free" /\ me' = 0 /\ pc' = "off" /\ step' = 1 /\ queue' = <<>>
    /\ todo' = {} /\ waiting' = {} /\ cur' = 0 /\ answer' = "none" /\ tries' = 0
    /\ why' = "none" /\ looked' = {}

Enter(who, label, keys) ==
    /\ holder = "free"
    /\ holder' = who
    /\ pc' = label
    /\ todo' = keys
    /\ UNCHANGED <<step, queue, waiting, cur, answer, tries, why, looked>>

(* Manager.run: the manager's job is dispatched and gets the lock. *)
StartManager(k) ==
    /\ ledger[k].stage = "manager"
    /\ lsf[k] = "pend"
    /\ Enter("manager", "reconcile", owned)
    /\ me' = k
    /\ lsf' = [lsf EXCEPT ![k] = "run"]
    /\ UNCHANGED <<disk, created, state, body, outcome, bounds>>

(* lsf.control reap *)
StartReap ==
    /\ Enter("reap", "reconcile", owned)
    /\ UNCHANGED <<disk, world, me, bounds>>

(* lsf/submit.py --resume: refused once clean.json exists. *)
StartResume ==
    /\ epoch < MaxEpochs
    /\ state["clean"].status = "none"
    /\ count < MaxJobs
    /\ Enter("launch", "resume", owned \cup ownedManagers)
    /\ UNCHANGED <<disk, world, me, bounds>>

(* _check_jobs_ended, one entry: an unsettled job, or a manager that is found alive or      *)
(* cannot be asked for, refuses the resume.                                                *)
CheckJobEnded ==
    /\ pc = "resume" /\ todo # {}
    /\ \E k \in First(todo) :
          \/ IsJob(k) /\ Release /\ UNCHANGED disk
          \/ /\ ~IsJob(k)
             /\ \E a \in IF ledger[k].status = "submitted" THEN query(k) ELSE find(k) :
                   \/ /\ \/ a \in {"failed", "RUN"}
                         \/ a = "found" /\ lsf[k] \notin Ended
                      /\ Release
                      /\ UNCHANGED disk
                   \/ /\ \/ a \in Ended \cup {"NOTFOUND", "missing"}
                         \/ a = "found" /\ lsf[k] \in Ended
                      /\ update(k, [ledger[k] EXCEPT !.status = "terminal"])
                      /\ todo' = todo \ {k}
                      /\ UNCHANGED <<count, epoch, holder, me, pc, step, queue, waiting, cur>>
                      /\ UNCHANGED <<answer, tries, why, looked>>
    /\ UNCHANGED <<world, bounds>>

BeginEpoch ==
    /\ pc = "resume" /\ todo = {}
    /\ epoch' = epoch + 1
    /\ pc' = "launch"
    /\ UNCHANGED <<ledger, count, holder, me, step, queue, todo, waiting, cur, answer, tries, why, looked>>
    /\ UNCHANGED <<world, bounds>>

(* _submit_manager *)
ReserveManager ==
    /\ pc = "launch"
    /\ reserve("manager")
    /\ UNCHANGED <<epoch, holder, me, step, queue, todo, waiting, answer, why, looked, world, bounds>>

(* reconcile: adopt or settle what an earlier process left. *)
Reconcile ==
    /\ pc = "reconcile" /\ todo # {}
    /\ \E k \in First(todo) :
       /\ \/ /\ ledger[k].status # "submitted"
             /\ \E e \in reconcile_by_name(k) : update(k, e)
             /\ looked' = looked \cup {k}
          \/ /\ ledger[k].status = "submitted"
             /\ \E a \in query(k) :
                   ledger' = IF a \in Ended THEN [ledger EXCEPT ![k] = settle(k, a, FALSE)] ELSE ledger
             /\ UNCHANGED looked
       /\ todo' = todo \ {k}
    /\ UNCHANGED <<count, epoch, holder, me, pc, step, queue, waiting, cur, answer, tries, why>>
    /\ UNCHANGED <<world, bounds>>

Group(i) ==
    IF i = 1 THEN <<"compile">>
    ELSE IF i = 2 THEN <<"quality">>
    ELSE IF UnitTests THEN <<"correctness", "unit-tests">> ELSE <<"correctness">>

Reconciled ==
    /\ pc = "reconcile" /\ todo = {}
    /\ \/ holder = "manager" /\ pc' = "stages" /\ queue' = Group(1) /\ UNCHANGED todo
       \/ holder = "reap" /\ pc' = "cancel" /\ todo' = owned \cup ownedManagers /\ UNCHANGED queue
    /\ UNCHANGED <<disk, holder, me, step, waiting, cur, answer, tries, why, looked>>
    /\ UNCHANGED <<world, bounds>>

-----------------------------------------------------------------------------
(* The pipeline *)

(* stage_jobs, one stage: adopt its job, or leave it, or submit it if it fits the deadline. *)
ConsiderStage ==
    /\ pc = "stages" /\ queue # <<>>
    /\ LET s == Head(queue) IN
       \/ /\ \E k \in latest(s) : ledger[k].status \in ACTIVE /\ waiting' = waiting \cup {k}
          /\ UNCHANGED <<disk, pc, cur, tries>>
       \/ /\ \A k \in latest(s) : ledger[k].status \notin ACTIVE
          /\ UNCHANGED <<disk, pc, cur, tries, waiting>>
       \/ /\ Current(s) = {} /\ state[s].status \notin FINAL
          /\ reserve(s)
          /\ UNCHANGED <<epoch, waiting>>
    /\ queue' = Tail(queue)
    /\ UNCHANGED <<holder, me, step, todo, answer, why, looked, world, bounds>>

StagesSubmitted ==
    /\ pc = "stages" /\ queue = <<>>
    /\ pc' = "wait"
    /\ UNCHANGED <<disk, holder, me, step, queue, todo, waiting, cur, answer, tries, why, looked>>
    /\ UNCHANGED <<world, bounds>>

(* LsfBackend.submit: without an answer the job is there, or not, or not yet. *)
Bsub ==
    /\ pc = "bsub"
    /\ \E a \in Answers :
          /\ answer' = a
          /\ \/ a = "accepted" /\ lsf' = [lsf EXCEPT ![cur] = "pend"]
             \/ a = "rejected" /\ UNCHANGED lsf
             \/ a = "ambiguous" /\ \E l \in {"none", "sent", "pend"} : lsf' = [lsf EXCEPT ![cur] = l]
    /\ pc' = "answered"
    /\ UNCHANGED <<disk, created, state, body, outcome, bounds>>
    /\ UNCHANGED <<holder, me, step, queue, todo, waiting, cur, tries, why, looked>>

(* The rest of Manager.submit, and where its caller goes on. *)
RecordAnswer ==
    /\ pc = "answered" /\ holder = "manager"
    /\ answer' = "none"
    /\ \/ /\ answer \in {"accepted", "ambiguous"}
          /\ update(cur, [ledger[cur] EXCEPT !.status = IF answer = "accepted" THEN "submitted" ELSE "ambiguous"])
          /\ waiting' = waiting \cup {cur}
          /\ pc' = IF step <= 3 THEN "stages" ELSE "wait"
          /\ cur' = 0 /\ tries' = 0
       \/ /\ answer = "rejected" /\ tries + 1 < MaxRejections
          /\ tries' = tries + 1
          /\ pc' = "bsub"
          /\ UNCHANGED <<ledger, cur, waiting>>
       \/ /\ answer = "rejected" /\ tries + 1 >= MaxRejections
          /\ update(cur, [ledger[cur] EXCEPT !.status = "rejected"])
          /\ pc' = IF step <= 3 THEN "stages" ELSE IF step = 4 THEN "finish" ELSE "end"
          /\ cur' = 0 /\ tries' = 0
          /\ UNCHANGED waiting
    /\ UNCHANGED <<count, epoch, holder, me, step, queue, todo, why, looked, world, bounds>>

LauncherDone ==
    /\ pc = "answered" /\ holder = "launch"
    /\ update(cur, [ledger[cur] EXCEPT !.status = IF answer = "accepted" THEN "submitted" ELSE answer])
    /\ Release
    /\ UNCHANGED <<count, epoch, world, bounds>>

(* observe: polls that change nothing are left out. *)
Observe(k) ==
    /\ pc = "wait" /\ k \in waiting
    /\ \/ /\ ledger[k].status # "submitted"
          /\ \E e \in reconcile_by_name(k) :
                IF e.status = "unreconciled" THEN update(k, lose(e)) /\ waiting' = waiting \ {k}
                ELSE update(k, e) /\ UNCHANGED waiting
          /\ looked' = looked \cup {k}
       \/ /\ ledger[k].status = "submitted"
          /\ \E a \in query(k) :
                \/ a \in Ended /\ update(k, settle(k, a, FALSE))
                \/ a = "NOTFOUND" /\ update(k, lose(ledger[k]))  \* for lost_after_s
          /\ waiting' = waiting \ {k}
          /\ UNCHANGED looked
    /\ UNCHANGED <<count, epoch, holder, me, pc, step, queue, todo, cur, answer, tries, why>>
    /\ UNCHANGED <<world, bounds>>

\* Going to cancel_owned.
Cancelling(reason) ==
    /\ pc' = "cancel" /\ why' = reason
    /\ todo' = owned /\ waiting' = {} /\ queue' = <<>>
    /\ cur' = 0 /\ answer' = "none" /\ tries' = 0
    /\ UNCHANGED <<holder, me, step, looked>>

\* Mutant: waits without a deadline.
DeadlineNever == FALSE /\ UNCHANGED vars

DeadlineReached ==
    /\ pc = "wait" /\ waiting # {}
    /\ Cancelling("deadline")
    /\ UNCHANGED <<disk, world, bounds>>

\* The first group whose prerequisite group did not finish ends the stages.
Goto(label) == pc' = label /\ UNCHANGED <<step, queue>>
\* Mutant: the next group does not wait for the one before.
NextStageAnyway(s, i) ==
    step' = i /\ (IF i <= 3 THEN pc' = "stages" /\ queue' = Group(i)
                  ELSE pc' = "cost" /\ UNCHANGED queue)

NextStage(s, i) ==
    IF state[s].status \in FINAL
    THEN step' = i /\ (IF i <= 3 THEN pc' = "stages" /\ queue' = Group(i)
                       ELSE pc' = "cost" /\ UNCHANGED queue)
    ELSE Goto("finish")

(* Every awaited job is settled: stage_jobs returns, or the cost loop goes round. *)
Waited ==
    /\ pc = "wait" /\ waiting = {}
    /\ \/ /\ step <= 3 /\ \E k \in owned : ledger[k].status = "unreconciled"
          /\ Cancelling("stopped")
       \/ /\ step <= 3 => \A k \in owned : ledger[k].status # "unreconciled"
          /\ \/ step = 1 /\ ~created /\ Goto("end")
             \/ step = 1 /\ created /\ NextStage("compile", 2)
             \/ step = 2 /\ NextStage("quality", 3)
             \/ step = 3 /\ NextStage("correctness", 4)
             \/ step = 4 /\ Goto("cost")
             \/ step = 5 /\ Goto("end")
          /\ UNCHANGED <<holder, me, todo, waiting, cur, answer, tries, why, looked>>
    /\ UNCHANGED <<disk, world, bounds>>

(* cost_loop *)
CostLoop ==
    /\ pc = "cost"
    /\ \/ /\ \E k \in latest("cost") : ledger[k].status \in ACTIVE /\ waiting' = {k}
          /\ pc' = "wait"
          /\ UNCHANGED <<disk, cur, tries>>
       \/ /\ \A k \in latest("cost") : ledger[k].status \notin ACTIVE
          /\ pc' = "finish"  \* final, not allowed, or does not fit
          /\ UNCHANGED <<disk, cur, tries, waiting>>
       \/ /\ state["cost"].status \notin FINAL /\ decision
          /\ reserve("cost")
          /\ UNCHANGED <<epoch, waiting>>
    /\ UNCHANGED <<holder, me, step, queue, todo, answer, why, looked, world, bounds>>

(* The end of pipeline: nothing is decided while a child may still run. *)
Finish ==
    /\ pc = "finish"
    /\ pc' = IF owned = {} THEN "decide" ELSE "end"
    /\ UNCHANGED <<disk, holder, me, step, queue, todo, waiting, cur, answer, tries, why, looked>>
    /\ UNCHANGED <<world, bounds>>

\* The stages the decision surely requires; a stage that may still record skipped is not one.
Required(s) == \/ s \in {"compile", "quality"}
               \/ s \in {"correctness", "cost"} /\ "skipped" \notin Ends[s]
                  /\ \A n \in PREREQUISITES(s) : state[n].status = "complete"

\* cleanup_blocker
CleanupBlocked == \/ state["clean"].status = "complete"
                  \/ \E s \in Stages : state[s].status \in UNFINISHED
                  \/ \E s \in Stages : Required(s) /\ state[s].status = "none"

(* decide, which may raise, and after_decide with cleanup_job: one clean job in an epoch,  *)
(* if it fits and no required stage is missing.  An active clean job is never met here:    *)
(* Finish ends the manager when one is owned.                                              *)
Decide ==
    /\ pc = "decide"
    /\ \/ /\ pc' = "end"
          /\ UNCHANGED <<disk, step, cur, tries>>
       \/ /\ why # "deadline" /\ ~CleanupBlocked /\ Current("clean") = {}
          /\ reserve("clean")
          /\ step' = 5
          /\ UNCHANGED epoch
    /\ UNCHANGED <<holder, me, queue, todo, waiting, answer, why, looked, world, bounds>>

(* The manager returns and its job ends; DONE stands for every exit status. *)
ManagerReturns ==
    /\ pc = "end"
    /\ lsf' = [lsf EXCEPT ![me] = "DONE"]
    /\ Release
    /\ UNCHANGED <<disk, created, state, body, outcome, bounds>>

-----------------------------------------------------------------------------
(* Cancelling *)

(* cancel_owned, one entry: identified by name and id, then bkill; waiting holds its targets. *)
CancelOwned ==
    /\ pc = "cancel" /\ todo # {}
    /\ \E k \in First(todo) :
       \/ /\ ledger[k].status # "submitted"
          /\ \E e \in reconcile_by_name(k) :
                /\ update(k, e)
                /\ todo' = IF e.status = "submitted" THEN todo ELSE todo \ {k}
          /\ looked' = looked \cup {k}
          /\ UNCHANGED waiting
       \/ /\ ledger[k].status = "submitted"
          /\ \E a \in query(k) :
                /\ ledger' = IF a \in Ended THEN [ledger EXCEPT ![k] = settle(k, a, TRUE)] ELSE ledger
                /\ waiting' = IF a = "RUN" THEN waiting \cup {k} ELSE waiting
          /\ todo' = todo \ {k}
          /\ UNCHANGED looked
    /\ UNCHANGED <<count, epoch, holder, me, pc, step, queue, cur, answer, tries, why>>
    /\ UNCHANGED <<world, bounds>>

ConfirmCancelled(k) ==
    /\ pc = "cancel" /\ todo = {} /\ k \in waiting
    /\ \E a \in query(k) : a \in Ended /\ update(k, settle(k, a, TRUE))
    /\ waiting' = waiting \ {k}
    /\ UNCHANGED <<count, epoch, holder, me, pc, step, queue, todo, cur, answer, tries, why, looked>>
    /\ UNCHANGED <<world, bounds>>

(* All are confirmed, or confirm_s has passed. *)
Cancelled ==
    /\ pc = "cancel" /\ todo = {}
    /\ \/ /\ holder = "reap"
          /\ Release
       \/ /\ holder = "manager"
          /\ pc' = IF why = "deadline" /\ step <= 4 /\ created THEN "finish" ELSE "end"
          /\ waiting' = {}
          /\ UNCHANGED <<holder, me, step, queue, todo, cur, answer, tries, why, looked>>
    /\ UNCHANGED <<disk, world, bounds>>

\* A bsub that dies with its caller may have reached LSF.
BsubCut(l) == lsf' = IF pc = "bsub" THEN [lsf EXCEPT ![cur] = l] ELSE lsf

(* A termination signal or an exception, anywhere in the pipeline. *)
Interrupt ==
    /\ holder = "manager" /\ pc # "end" /\ why # "stopped"
    /\ \E l \in {"none", "sent"} : BsubCut(l)
    /\ Cancelling("stopped")
    /\ Fault
    /\ UNCHANGED <<disk, created, state, body, outcome>>

(* SIGKILL or a lost host.  LSF requeues the manager (rerunnable) or ends it. *)
Kill ==
    /\ holder # "free"
    /\ kills < MaxKills
    /\ kills' = kills + 1
    /\ \E l \in {"none", "sent"}, m \in {"pend", "EXIT"} :
          lsf' = [k \in Keys |-> IF pc = "bsub" /\ k = cur THEN l
                                 ELSE IF holder = "manager" /\ k = me THEN m ELSE lsf[k]]
    /\ Release
    /\ UNCHANGED <<disk, created, state, body, outcome, faults, hands>>

-----------------------------------------------------------------------------
(* Stage jobs and LSF *)

(* A submission that was under way arrives, or is lost. *)
Arrive(k) ==
    /\ lsf[k] = "sent"
    /\ \E l \in {"none", "pend"} : lsf' = [lsf EXCEPT ![k] = l]
    /\ UNCHANGED <<disk, created, state, body, outcome, local, bounds>>

Finished(s) == state[s].status \in FINAL

\* The stage lock.
StageIdle(s) == \A k \in Keys : ledger[k].stage = s => lsf[k] # "run"

Startable(s) ==
    /\ ~Finished(s) /\ StageIdle(s)
    /\ IF s = "clean" THEN \A t \in Stages : state[t].status \notin UNFINISHED
       ELSE /\ state["clean"].status = "none"
            /\ \A n \in PREREQUISITES(s) : Finished(n)

(* The job's command takes its stage lock and begins. *)
JobStarts(k) ==
    LET s == ledger[k].stage IN
    /\ IsJob(k) /\ lsf[k] = "pend"
    /\ Startable(s)
    /\ lsf' = [lsf EXCEPT ![k] = "run"]
    /\ \/ /\ created' = TRUE
          /\ state' = [state EXCEPT ![s] = [status |-> "running", by |-> k]]
       \/ s = "compile" /\ created' = TRUE /\ UNCHANGED state   \* run.json, not yet state.json
       \/ s = "compile" /\ UNCHANGED <<created, state>>         \* neither
    /\ UNCHANGED <<disk, body, outcome, local, bounds>>

(* The gate is closed: the stage records skipped and nothing else. *)
JobSkips(k) ==
    LET s == ledger[k].stage IN
    /\ s \in Stages /\ lsf[k] = "pend"
    /\ Startable(s)
    /\ "skipped" \in Ends[s]
    /\ state' = [state EXCEPT ![s] = [status |-> "skipped", by |-> k]]
    /\ body' = [body EXCEPT ![k] = "skipped"]
    /\ lsf' = [lsf EXCEPT ![k] = "over"]
    /\ UNCHANGED <<disk, created, outcome, local, bounds>>

(* Compile may meet the directory of one that was killed before run.json. *)
Leftover(k) ==
    /\ ledger[k].stage = "compile" /\ ~created
    /\ \E j \in 1 .. k - 1 : ledger[j].stage = "compile"

MayRaise(s) == s \in Stages => "error" \in Ends[s]

(* The command ends without a body: the stage is final already; a precondition, the lock    *)
(* or, as a fault, the allocation refuses it; the directory is no session; or an exception. *)
JobRefused(k) ==
    LET s == ledger[k].stage IN
    /\ IsJob(k) /\ lsf[k] = "pend"
    /\ lsf' = [lsf EXCEPT ![k] = "over"]
    /\ \E b \in {"final", "refused", "usage", "error"} :
          /\ b = "final" => Finished(s)
          /\ b = "usage" => Leftover(k)
          /\ b = "error" => MayRaise(s)
          /\ body' = [body EXCEPT ![k] = b]
          /\ IF b = "refused" /\ Startable(s) THEN Fault ELSE UNCHANGED bounds
    /\ UNCHANGED <<disk, created, state, outcome, local>>

(* An exception around the body: nothing is committed, the stage's files stay as they are. *)
JobRaises(k) ==
    /\ IsJob(k) /\ lsf[k] = "run" /\ MayRaise(ledger[k].stage)
    /\ body' = [body EXCEPT ![k] = "error"]
    /\ lsf' = [lsf EXCEPT ![k] = "over"]
    /\ UNCHANGED <<disk, created, state, outcome, local, bounds>>

(* The body ends and commits its state. *)
JobEnds(k) ==
    LET s == ledger[k].stage IN
    /\ IsJob(k) /\ lsf[k] = "run"
    /\ \E b \in IF s = "clean" THEN {"complete"} ELSE Ends[s] \ {"skipped", "error"} :
          /\ state' = [state EXCEPT ![s] = [status |-> b, by |-> k]]
          /\ body' = [body EXCEPT ![k] = b]
    /\ created' = TRUE
    /\ lsf' = [lsf EXCEPT ![k] = "over"]
    /\ UNCHANGED <<disk, outcome, local, bounds>>

ExitCode(b) ==
    CASE b \in {"complete", "skipped", "final"} -> 0
      [] b = "noisy" -> 42
      [] b = "refused" -> 41
      [] b = "usage" -> 64
      [] OTHER -> 40

\* An exception after the commit turns the exit code into an error's.
ExitCodes(k) ==
    {ExitCode(body[k])}
    \cup (IF MayRaise(ledger[k].stage) /\ body[k] \in BodyEnds \cup {"final"} THEN {40} ELSE {})

(* lsf.job writes its outcome record and exits. *)
JobReports(k) ==
    /\ lsf[k] = "over"
    /\ \E code \in ExitCodes(k) :
          /\ outcome' = [outcome EXCEPT ![k] = code]
          /\ lsf' = [lsf EXCEPT ![k] = IF code = 0 THEN "DONE" ELSE "EXIT"]
    /\ UNCHANGED <<disk, created, state, body, local, bounds>>

(* A job is killed by bkill or, as a fault, by its limits, with its host or by its user; a *)
(* manager that waits for the lock longer than lock_wait_s ends too.  A trapped signal      *)
(* leaves a record; a job may be killed after it wrote its own.                             *)
JobKilled(k) ==
    /\ lsf[k] \in {"pend", "run", "over"}
    /\ ~(holder = "manager" /\ k = me)
    /\ lsf' = [lsf EXCEPT ![k] = "EXIT"]
    /\ \/ lsf[k] = "run" /\ IsJob(k) /\ outcome' = [outcome EXCEPT ![k] = 143]
       \/ lsf[k] = "over" /\ \E code \in ExitCodes(k) : outcome' = [outcome EXCEPT ![k] = code]
       \/ UNCHANGED outcome
    /\ IF holder = "manager" /\ pc = "cancel" /\ k \in waiting THEN UNCHANGED bounds ELSE Fault
    /\ UNCHANGED <<disk, created, state, body, local>>

(* The user runs a stage directly, under the same locks and preconditions. *)
ByHand(s) ==
    /\ hands < MaxByHand
    /\ created /\ Startable(s)
    /\ \E b \in Ends[s] \cap BodyEnds : state' = [state EXCEPT ![s] = [status |-> b, by |-> 0]]
    /\ hands' = hands + 1
    /\ UNCHANGED <<disk, created, lsf, body, outcome, local, kills, faults>>

-----------------------------------------------------------------------------
(* Specification *)

Init ==
    /\ ledger = [k \in Keys |-> Unused]
    /\ count = 0 /\ epoch = 0
    /\ created = FALSE
    /\ state = [s \in JobStages |-> [status |-> "none", by |-> 0]]
    /\ lsf = [k \in Keys |-> "none"]
    /\ body = [k \in Keys |-> "none"]
    /\ outcome = [k \in Keys |-> NoCode]
    /\ holder = "launch" /\ me = 0 /\ pc = "launch" /\ step = 1 /\ queue = <<>>
    /\ todo = {} /\ waiting = {} /\ cur = 0 /\ answer = "none" /\ tries = 0
    /\ why = "none" /\ looked = {}
    /\ kills = 0 /\ faults = 0 /\ hands = 0

\* The steps of the process that holds the lock.  Those of Pipeline and Recovery are its own to
\* take; Answered are polls that bring news.
Pipeline ==
    \/ ConsiderStage \/ StagesSubmitted \/ Bsub \/ RecordAnswer
    \/ DeadlineReached \/ Waited \/ CostLoop \/ Finish \/ Decide \/ ManagerReturns
Recovery == Reconcile \/ Reconciled \/ CancelOwned \/ Cancelled
Answered == \E k \in Keys : Observe(k) \/ ConfirmCancelled(k)
Launcher == CheckJobEnded \/ BeginEpoch \/ ReserveManager \/ LauncherDone
Jobs ==
    \/ \E k \in Keys : \/ Arrive(k) \/ JobStarts(k) \/ JobSkips(k) \/ JobRefused(k) \/ JobEnds(k)
                       \/ JobRaises(k) \/ JobReports(k) \/ JobKilled(k)
    \/ \E s \in Stages : ByHand(s)
Operator == StartReap \/ StartResume

Next == Pipeline \/ Recovery \/ Answered \/ Launcher \/ (\E k \in Keys : StartManager(k)) \/ Operator
        \/ Interrupt \/ Kill \/ Jobs

Spec == Init /\ [][Next]_vars

-----------------------------------------------------------------------------
(* Properties *)

Pcs == {"off", "launch", "resume", "reconcile", "stages", "bsub", "answered", "wait", "cost",
        "finish", "decide", "cancel", "end"}

(* Every entry, job and local of the model has its type, and the entries beyond the count  *)
(* are unused and have no job: a bsub always follows its reservation.                      *)
TypeOK ==
    /\ ledger \in [Keys -> Entry] /\ count \in 0 .. MaxJobs /\ epoch \in Nat
    /\ created \in BOOLEAN
    /\ state \in [JobStages -> [status: {"none", "running"} \cup BodyEnds, by: Keys \cup {0}]]
    /\ lsf \in [Keys -> InLsf \cup Ended \cup {"none"}]
    /\ body \in [Keys -> Results]
    /\ outcome \in [Keys -> {NoCode, 0, 40, 41, 42, 64, 143}]
    /\ holder \in {"free", "manager", "reap", "launch"} /\ me \in Keys \cup {0}
    /\ pc \in Pcs /\ step \in 1 .. 5 /\ queue \in Seq(Stages)
    /\ todo \subseteq Keys /\ waiting \subseteq Keys /\ looked \subseteq Keys
    /\ cur \in Keys \cup {0} /\ answer \in {"none", "accepted", "ambiguous", "rejected"}
    /\ tries \in Nat /\ why \in {"none", "deadline", "stopped"}
    /\ kills \in Nat /\ faults \in Nat /\ hands \in Nat
    /\ \A k \in Keys : k > count => ledger[k] = Unused /\ lsf[k] = "none"

(* The ledger never loses a job: whatever is in LSF for a stage, or on its way there, has an *)
(* entry the manager, reap and resume treat as unsettled - after a kill between the         *)
(* reservation, bsub and its answer too (retry.py: "an entry before bsub runs").            *)
LedgerCovers == \A k \in Keys : IsJob(k) /\ lsf[k] \in InLsf => ledger[k].status \in Unsettled

(* No stage ever has two jobs in LSF: not after an unanswered bsub, a requeued manager, a   *)
(* second manager or a resume ("the manager waits and never submits a duplicate").          *)
OneJobPerStage ==
    \A j, k \in Keys :
        (/\ IsJob(j) /\ ledger[j].stage = ledger[k].stage
         /\ lsf[j] \in InLsf /\ lsf[k] \in InLsf) => j = k

(* The manager decides only when no job of the session is in LSF or may still arrive there: *)
(* not after a deadline, a lost job or an unanswered bsub.                                   *)
DecideAlone == pc = "decide" => \A k \in Keys : IsJob(k) => lsf[k] \notin InLsf

(* Within an epoch only a cost job whose own measurement ended noisy is followed by another *)
(* job of its stage, one that LSF rejected not counted; and no epoch puts more than         *)
(* MAX_COST_ATTEMPTS cost jobs into LSF, whatever is killed, lost or requeued.              *)
OnlyNoiseIsRetried ==
    /\ \A j, k \in Keys :
          (/\ j < k /\ k <= count /\ IsJob(j) /\ ledger[j].stage = ledger[k].stage
           /\ ledger[j].epoch = ledger[k].epoch /\ ledger[j].status # "rejected")
              => ledger[j].stage = "cost" /\ body[j] = "noisy"
    /\ \A e \in 0 .. epoch :
          Cardinality({k \in Keys : /\ ledger[k].stage = "cost" /\ ledger[k].epoch = e
                                    /\ lsf[k] # "none"}) <= MaxCostAttempts

(* A stage's job is in LSF only when the stages it needs are final, and no cost job is      *)
(* submitted while a unit-tests job is there: no allocation is spent on a stage that must   *)
(* refuse, and cost waits for unit-tests to settle.                                         *)
JobsInOrder ==
    \A k \in Keys :
        (ledger[k].stage \in Stages /\ lsf[k] \in InLsf) =>
            /\ \A n \in PREREQUISITES(ledger[k].stage) : Finished(n)
            /\ ledger[k].stage = "cost" =>
                  \A j \in 1 .. k - 1 : ledger[j].stage = "unit-tests" => lsf[j] \notin InLsf

\* What an outcome the ledger recorded says of the job whose command came to b.
Tells(kind, b) ==
    /\ kind \in {"complete", "skipped", "noisy"} => b = kind
    /\ kind = "already-final" => b = "final"
    /\ kind = "inconsistent" => b = "noisy"
    /\ kind = "precondition" => b = "refused"
    /\ kind = "usage" => b = "usage"
    /\ kind = "failed" => b \notin {"none", "refused", "usage"}

(* What the ledger says of a job is what that job itself did, whoever else ran its stage:    *)
(* complete, skipped or noisy is what its own body committed; already-final means that the  *)
(* stage was final before it, precondition and usage that its body never ran, and           *)
(* inconsistent that its noisy state was replaced.  failed says least: the body failed, or  *)
(* an exception met the command before, around or after it.                                 *)
OutcomeIsTrue ==
    \A k \in Keys : ledger[k].stage \in Stages => Tells(ledger[k].kind, body[k])

(* A settled entry is history: no later manager, reap or resume changes it. *)
SettledStays ==
    [][\A k \in Keys : ledger[k].status \in {"terminal", "rejected"} => ledger'[k] = ledger[k]]_vars

(* The manager's steps and its clock go on: deadlines and confirmation limits pass.  No poll *)
(* has to bring news.                                                                       *)
Fairness == WF_vars(Pipeline) /\ WF_vars(Recovery)
FairSpec == Spec /\ Fairness

(* Every manager gives the lock back, whatever LSF answers: the retries are bounded and    *)
(* every wait has a deadline.                                                               *)
PipelineEnds == (holder = "manager") ~> (holder # "manager")
=============
