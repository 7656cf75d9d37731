---------------------------- MODULE CostMonitor ----------------------------
(***************************************************************************)
(* One monitored cost bundle: the timed worker of WorkerRun under the       *)
(* lifecycle hooks of lsf/cost_monitor.py, the round of collect_panel       *)
(* around it (coordinator/costs.py), and the admission of the evidence it   *)
(* leaves (lsf/cost_evidence.py).                                          *)
(*                                                                         *)
(* A timed worker announces each measured entry with "B", waits for the     *)
(* acknowledgement, times its calls, announces "E" and waits again.  The    *)
(* monitor samples at every boundary and every window_s, so that windows    *)
(* follow each other without a gap; the model numbers them and leaves the   *)
(* clock out.  A window is foul when foreign activity was seen in it and    *)
(* long when the coordinator did not get to sample for more than two        *)
(* windows.  Thresholds are arithmetic: any foreign activity is foul.       *)
(***************************************************************************)
EXTENDS WorkerRun

CONSTANTS
    Arms,           \* the measured arms: baseline and evolved
    MaxEvents       \* bound on disturbances, stalls and spoilings

ASSUME ArmsAssumption == IsFiniteSet(Arms) /\ Cardinality(Arms) = 2
ASSUME EventsAssumption == MaxEvents \in Nat

VARIABLES
    phase,      \* of the stage: "prepare", "measuring", "complete" or how it ended
    arm,        \* the arm of the running job
    jobs,       \* the arms whose jobs are in the bundle, in order
    records,    \* the monitor's record of each process, in order of launch
    active,     \* monitor.active is set
    measuring,  \* the measurement that is open, or 0
    foul, long, \* the window since the last sample
    abort,      \* "none", "contaminated" or "failure"
    sound,      \* "yes", "moved" (a CPU mask changed) or "unreadable" (a counter)
    harmed,     \* foreign activity fell on a timed call
    crowded,    \* foreign activity fell between two boundary samples
    events,     \* disturbances, stalls and spoilings so far
    timed       \* how often each entry of each arm was timed to the end

bundle == <<phase, arm, jobs>>
hooks == <<records, active, measuring, abort>>
world == <<foul, long, sound, harmed, crowded, events, timed>>
monitor == <<bundle, hooks, world>>
allVars == <<vars, monitor>>

-----------------------------------------------------------------------------
Window == [m : Nat, foul : BOOLEAN, long : BOOLEAN, final : BOOLEAN]
Measurement == [start : Nat, end : Nat, closed : BOOLEAN]
Record == [arm : Arms, windows : Seq(Window), measurements : Seq(Measurement),
           aborted : BOOLEAN, exited : BOOLEAN]

Outcomes == {"refused", "incomplete", "contaminated", "failed", "admitted", "rejected"}

MonitorTypeOK ==
    /\ TypeOK
    /\ phase \in {"prepare", "measuring", "complete"} \cup Outcomes
    /\ arm \in Arms /\ jobs \in Seq(Arms) /\ records \in Seq(Record)
    /\ measuring \in 0 .. N
    /\ {active, foul, long, harmed, crowded} \subseteq BOOLEAN
    /\ abort \in {"none", "contaminated", "failure"}
    /\ sound \in {"yes", "moved", "unreadable"}
    /\ events \in 0 .. MaxEvents
    /\ timed \in [Arms \X Entries -> Nat]

MonitorInit ==
    /\ Init /\ kind = "worker"
    /\ phase = "prepare" /\ arm \in Arms /\ jobs = <<>>
    /\ records = <<>> /\ active = FALSE /\ measuring = 0 /\ abort = "none"
    /\ foul = FALSE /\ long = FALSE /\ sound = "yes" /\ harmed = FALSE /\ crowded = FALSE
    /\ events = 0
    /\ timed = [x \in Arms \X Entries |-> 0]

-----------------------------------------------------------------------------
(* Before measuring. *)

(* The requirement, the allocation, the layout, the machine and the masks; then the idle    *)
(* probe of the worker core.  begin_bundle follows.                                        *)
Prepare ==
    /\ phase = "prepare"
    /\ \/ phase' = "refused"            \* Precondition: problems of the allocation
       \/ phase' = "failed"             \* MonitorFailure: the probe read invalid counters
       \/ phase' = "contaminated"       \* the probe saw foreign activity
       \/ phase' = "measuring"
    /\ UNCHANGED <<vars, arm, jobs, hooks, world>>

-----------------------------------------------------------------------------
(* Windows. *)

Current == records[Len(records)]
SetCurrent(r) == [records EXCEPT ![Len(records)] = r]
\* The window since the last sample.
Open(final) == [m |-> measuring, foul |-> foul, long |-> long, final |-> final]
NewWindow == foul' = FALSE /\ long' = FALSE

\* Mutant: a failed check voids the measurement in any window.
decisive_all(w) == TRUE

\* Mutant: the first measurement is taken for none.
decisive_later(w) == w.m > 1

decisive(w) == w.m # 0

(* _close and _judge: the record with one window more, aborted if that window voids it. *)
Judged(r, w) ==
    [r EXCEPT !.windows = Append(@, w), !.aborted = w.foul /\ decisive(w)]

(* spawn_options places the process before exec; launched starts its record. *)
NewRecord ==
    [arm |-> arm, windows |-> <<>>, measurements |-> <<>>, aborted |-> FALSE, exited |-> FALSE]

\* Mutant: the open measurement of an earlier process stays.
launched_open ==
    /\ abort' = IF active THEN "failure" ELSE abort
    /\ active' = TRUE /\ measuring' = measuring
    /\ records' = Append(records, NewRecord)
    /\ NewWindow /\ sound' = "yes"

launched ==
    /\ abort' = IF active THEN "failure" ELSE abort
    /\ active' = TRUE /\ measuring' = 0
    /\ records' = Append(records, NewRecord)
    /\ NewWindow /\ sound' = "yes"

MonitoredLaunch ==
    /\ phase = "measuring" /\ abort = "none"
    /\ Launch
    /\ launched
    /\ UNCHANGED <<bundle, harmed, crowded, events, timed>>

(* progress, when window_s has passed since the last sample.  A periodic window in which    *)
(* nothing happened is not told apart from the one that follows it.                        *)
Progress ==
    /\ pc = "watch" /\ abort = "none"
    /\ foul \/ long \/ sound # "yes"
    /\ IF sound # "yes"
       THEN /\ abort' = "failure"
            /\ UNCHANGED <<caller, worker, records, foul, long>>
       ELSE LET r == Judged(Current, Open(FALSE))
            IN /\ records' = SetCurrent(r)
               /\ NewWindow
               /\ IF r.aborted
                  THEN /\ abort' = "contaminated" /\ child' = "dead" /\ pc' = "reap"
                       /\ UNCHANGED <<kind, todo, completed, fresh, timed_out, results,
                                      at, doing, half, rows, written>>
                  ELSE UNCHANGED <<abort, caller, worker>>
    /\ UNCHANGED <<bundle, active, measuring, sound, harmed, crowded, events, timed>>

(* The record after an accepted boundary: "B" opens a measurement, "E" closes it. *)
Bounded(r, event) ==
    LET here == Len(r.windows)
    IN IF event = "B"
       THEN [r EXCEPT !.measurements = Append(@, [start |-> here, end |-> here, closed |-> FALSE])]
       ELSE [r EXCEPT !.measurements[measuring].end = here,
                      !.measurements[measuring].closed = TRUE]

(* The worker waits at a boundary; measurement samples, judges and lets it go on. *)
Boundary(event) ==
    /\ pc = "watch" /\ abort = "none" /\ child = "alive" /\ doing = event
    /\ IF sound # "yes" \/ (event = "B") # (measuring = 0)
       THEN /\ abort' = "failure"
            /\ UNCHANGED <<caller, worker, records, measuring, foul, long>>
       ELSE LET r == Judged(Current, Open(FALSE))
            IN /\ NewWindow
               /\ IF r.aborted
                  THEN /\ abort' = "contaminated" /\ child' = "dead" /\ pc' = "reap"
                       /\ records' = SetCurrent(r)
                       /\ UNCHANGED <<doing, measuring>>
                  ELSE /\ records' = SetCurrent(Bounded(r, event))
                       /\ measuring' = IF event = "B" THEN Len(r.measurements) + 1 ELSE 0
                       /\ doing' = IF event = "B" THEN "timing" ELSE "answer"
                       /\ pc' = "poll"
                       /\ UNCHANGED <<abort, child>>
               /\ UNCHANGED <<kind, todo, completed, fresh, timed_out, results,
                              at, half, rows, written>>
    /\ UNCHANGED <<bundle, active, sound, harmed, crowded, events, timed>>

(* A hook raised MonitorFailure: the worker is killed and reaped, the monitor not told. *)
Abandon ==
    /\ abort = "failure" /\ pc # "raised"
    /\ child' = "none" /\ pc' = "raised"
    /\ UNCHANGED <<kind, todo, completed, fresh, timed_out, results, at, doing, half, rows,
                   written, monitor>>

(* exited closes the final window of a worker that has ended but is not reaped; reaped      *)
(* judges it.  Only then are the results collected.                                        *)
MonitoredCollect ==
    /\ pc = "reap" /\ abort # "failure"
    /\ LET r == IF abort = "none" THEN Judged(Current, Open(TRUE)) ELSE Current
       IN IF abort = "none" /\ sound = "unreadable"
          THEN /\ abort' = "failure"
               /\ UNCHANGED <<vars, records, active, foul, long>>
          ELSE /\ records' = SetCurrent([r EXCEPT !.exited = TRUE])
               /\ active' = FALSE
               /\ NewWindow
               /\ IF r.aborted
                  THEN /\ abort' = "contaminated" /\ pc' = "raised" /\ child' = "none"
                       /\ UNCHANGED <<kind, todo, completed, fresh, timed_out, results, at,
                                      doing, half, rows, written>>
                  ELSE UNCHANGED abort /\ Collect
    /\ UNCHANGED <<bundle, measuring, sound, harmed, crowded, events, timed>>

-----------------------------------------------------------------------------
(* The worker between its boundaries. *)

(* Inputs, pass manager and warm-up; an exception here ends the entry unmeasured. *)
Setup ==
    /\ child = "alive" /\ doing = "work"
    /\ \/ doing' = "B" /\ UNCHANGED half
       \/ doing' = "answer" /\ half' = "error"
    /\ UNCHANGED <<caller, child, at, rows, written, monitor>>

(* The timed calls; an exception leaves the measured block through its "E" as well. *)
TimedCalls ==
    /\ child = "alive" /\ doing = "timing"
    /\ half' \in Statuses
    /\ timed' = [timed EXCEPT ![<<arm, at>>] = IF half' = "ok" THEN @ + 1 ELSE @]
    /\ doing' = "E"
    /\ UNCHANGED <<caller, child, at, rows, written, bundle, hooks,
                   foul, long, sound, harmed, crowded, events>>

Event == active /\ events < MaxEvents /\ events' = events + 1

(* Foreign activity on the worker core. *)
Disturb ==
    /\ Event /\ ~foul
    /\ foul' = TRUE
    /\ harmed' = (harmed \/ (child = "alive" /\ doing = "timing"))
    /\ crowded' = (crowded \/ measuring # 0)
    /\ UNCHANGED <<vars, bundle, hooks, long, sound, timed>>

(* The coordinator is not scheduled for more than two windows. *)
Stall ==
    /\ Event /\ ~long
    /\ long' = TRUE
    /\ UNCHANGED <<vars, bundle, hooks, foul, sound, harmed, crowded, timed>>

(* A mask is changed, or a counter can no longer be read. *)
Spoil ==
    /\ Event /\ sound = "yes"
    /\ sound' \in {"moved", "unreadable"}
    /\ UNCHANGED <<vars, bundle, hooks, foul, long, harmed, crowded, timed>>

-----------------------------------------------------------------------------
\* Mutant: the status of a row is not looked at.
Usable_any ==
    /\ Len(results) = N
    /\ {results[i].seed : i \in DOMAIN results} = Entries

(* collect: every entry exactly once and every one "ok". *)
Usable ==
    /\ Len(results) = N
    /\ {results[i].seed : i \in DOMAIN results} = Entries
    /\ \A i \in DOMAIN results : results[i].status = "ok"

(* The job is over: the other arm's, the end of the bundle, or the end of the stage. *)
EndJob ==
    /\ phase = "measuring" /\ Ended
    /\ \/ /\ pc = "done" /\ Usable
          /\ jobs' = Append(jobs, arm)
          /\ IF Len(jobs) = 1
             THEN phase' = "complete" /\ UNCHANGED <<arm, pc, todo, results>>
             ELSE /\ arm' \in Arms \ {arm}
                  /\ pc' = "launch" /\ todo' = Entries /\ results' = <<>>
                  /\ UNCHANGED phase
       \/ /\ pc = "done" /\ ~Usable
          /\ phase' = "incomplete"
          /\ UNCHANGED <<arm, jobs, pc, todo, results>>
       \/ /\ pc = "raised"
          /\ phase' = IF abort = "contaminated" THEN "contaminated" ELSE "failed"
          /\ UNCHANGED <<arm, jobs, pc, todo, results>>
    /\ UNCHANGED <<kind, completed, fresh, timed_out, worker, hooks, world>>

(* _record_problems: whole, unaborted, in bounded windows of which the measured ones are    *)
(* clean and cover their measurements.                                                     *)
RecordAdmissible(r) ==
    LET ws == r.windows
        Of(k) == {i \in DOMAIN ws : ws[i].m = k}
    IN /\ ~r.aborted /\ r.exited /\ ws # <<>>
       /\ \A i \in DOMAIN ws : ws[i].final <=> i = Len(ws)
       /\ \A i \in DOMAIN ws : ~ws[i].long /\ ~(decisive(ws[i]) /\ ws[i].foul)
       /\ \A k \in DOMAIN r.measurements :
             /\ r.measurements[k].closed
             /\ Of(k) # {}
             /\ Of(k) = r.measurements[k].start + 1 .. r.measurements[k].end

(* problems and _coverage_problems: both arms once, every process recorded, as many         *)
(* measurements for each job as it has entries.                                            *)
Admissible ==
    /\ Len(jobs) = 2 /\ Range(jobs) = Arms
    /\ {records[i].arm : i \in DOMAIN records} = Arms
    /\ \A i \in DOMAIN records : RecordAdmissible(records[i])
    /\ \A a \in Arms :
          MapThenFoldSet(+, 0, LAMBDA i : Len(records[i].measurements), LAMBDA S : Min(S),
                         {i \in DOMAIN records : records[i].arm = a}) = N

(* validate, before the bundle is judged. *)
Validate ==
    /\ phase = "complete"
    /\ phase' = IF Admissible THEN "admitted" ELSE "rejected"
    /\ UNCHANGED <<vars, arm, jobs, hooks, world>>

-----------------------------------------------------------------------------
MonitoredWatching ==
    \/ MonitoredLaunch
    \/ abort = "none" /\ (Poll \/ Sleep \/ Timeout \/ ExitSeen) /\ UNCHANGED monitor
    \/ Progress
    \/ \E event \in {"B", "E"} : Boundary(event)
    \/ Abandon \/ MonitoredCollect
    \/ EndJob \/ Validate

MonitoredWorking ==
    \/ (Boot \/ BeginRow \/ FinishRow \/ Exit) /\ UNCHANGED monitor
    \/ Setup \/ TimedCalls

MonitorNext ==
    Prepare \/ MonitoredWatching \/ MonitoredWorking \/ Disturb \/ Stall \/ Spoil

MonitorSpec == MonitorInit /\ [][MonitorNext]_allVars

-----------------------------------------------------------------------------
(* No foreign activity fell on a timed call of a bundle that was admitted: the window of    *)
(* every instant between "B" and "E" was labelled as measured, judged, and found clean,     *)
(* whichever of the two processes, retries and polls came first.                           *)
AdmittedIsQuiet == phase = "admitted" => ~harmed

(* In an admitted bundle the timed calls of every entry of both arms came to their end      *)
(* exactly once: no failed, interrupted or repeated entry has a share in it.               *)
AdmittedIsBalanced == phase = "admitted" => \A x \in Arms \X Entries : timed[x] = 1

(* "Setup, imports, warmup and reporting windows ... never abort": a worker is stopped for  *)
(* contamination only if foreign activity fell between the two samples of a measurement.   *)
ContaminationIsMeasured == phase = "contaminated" /\ records # <<>> => crowded

(* The monitor gives up only on masks and counters: it never takes the retry after a        *)
(* timeout for an overlapping worker, nor its first boundary for a wrong one.              *)
FailureIsReal == phase = "failed" /\ records # <<>> => sound # "yes"
=============================================================================
