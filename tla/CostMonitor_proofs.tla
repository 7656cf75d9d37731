------------------------- MODULE CostMonitor_proofs -------------------------
(***************************************************************************)
(* Proofs about CostMonitor, for batches of any size and any number of      *)
(* disturbances, stalls and spoilings: an admitted bundle is quiet and      *)
(* timed every entry of both arms once, and the monitor stops a worker      *)
(* only for a reason.                                                      *)
(*                                                                         *)
(* The monitored worker is a call of WorkerRun, so the account of its       *)
(* entries (Core) carries over.  To it the invariant adds what the hooks    *)
(* know at each place of the call (Hooked, Bracketed), why they stop it     *)
(* (Reasons), and which entries have been timed (Arranged, Balanced).       *)
(***************************************************************************)
EXTENDS CostMonitor, WorkerRun_proofs

USE DEF caller, worker, bundle, hooks, world

-----------------------------------------------------------------------------
(* The invariant *)

Timing == {"timing", "E"}
Timed == {"E", "answer", "half"}

\* What the monitor knows at each place of the coordinator.
Hooked ==
    /\ Running => phase = "measuring" /\ active /\ records # <<>>
    /\ pc \in {"launch", "done"} => abort = "none" /\ ~active /\ ~foul
    /\ pc \in {"poll", "watch"} => abort # "contaminated"
    /\ pc = "reap" /\ abort = "contaminated" => Current.aborted
    /\ pc = "raised" => abort # "none"
    /\ phase \in {"complete", "admitted", "rejected"} => pc = "done"
    /\ phase \in {"contaminated", "failed"} /\ records # <<>> =>
          pc = "raised" /\ (phase = "contaminated" <=> abort = "contaminated")
    /\ phase = "prepare" => records = <<>>

\* A measurement is open exactly while the worker is between its two boundaries, and a process
\* opens at most one for each row.
Bracketed ==
    /\ measuring # 0 <=> doing \in Timing
    /\ Running => Len(Current.measurements)
                    <= Len(rows) + (IF doing \in Timing \cup Timed THEN 1 ELSE 0)

\* Nothing is aborted without a reason, and activity on a timed call has been found or still is
\* to be found in a window of its measurement.
Reasons ==
    /\ abort = "failure" => sound # "yes"
    /\ abort = "contaminated" => crowded
    /\ foul /\ measuring # 0 => crowded
    /\ harmed => abort # "none" \/ (foul /\ measuring # 0)

\* Every entry of an arm whose job is over was timed once, none of one whose job has not begun.
Arranged ==
    /\ phase \in {"prepare", "measuring"} => arm \notin Range(jobs) /\ Len(jobs) <= 1
    /\ phase \in {"complete", "admitted"} => Range(jobs) = Arms
    /\ \A a \in Range(jobs), s \in Entries : timed[<<a, s>>] = 1
    /\ phase \in {"prepare", "measuring"} =>
          \A a \in Arms \ {arm}, s \in Entries : a \notin Range(jobs) => timed[<<a, s>>] = 0

\* In the job that runs, what was answered "ok" was timed once, and what is still to do was not,
\* but for the entry in hand.
Balanced ==
    /\ phase \in {"prepare", "measuring"} =>
          \A r \in Range(results) : r.status = "ok" => timed[<<arm, r.seed>>] = 1
    /\ pc = "launch" => \A s \in todo : timed[<<arm, s>>] = 0
    /\ Running =>
          /\ \A r \in Range(rows) : r.status = "ok" => timed[<<arm, r.seed>>] = 1
          /\ doing \in Timed /\ half = "ok" => timed[<<arm, at>>] = 1
          /\ \A s \in todo \ SeedsOf(rows) :
                s # at \/ doing \notin Timed => timed[<<arm, s>>] = 0

Monitored == MonitorTypeOK /\ Core /\ Hooked /\ Bracketed /\ Reasons /\ Arranged /\ Balanced

-----------------------------------------------------------------------------
(* Records and rows *)

\* The last record can be read and replaced.
LEMMA CurrentIn ==
  ASSUME records \in Seq(Record), records # <<>>
  PROVE  Current \in Record
<1>1. Len(records) \in 1 .. Len(records)
  BY EmptySeq, LenProperties
<1> QED
  BY <1>1, ElementOfSeq DEF Current

LEMMA CurrentIs ==
  ASSUME records \in Seq(Record), records # <<>>, NEW r \in Record
  PROVE  /\ SetCurrent(r) \in Seq(Record) /\ SetCurrent(r) # <<>>
         /\ SetCurrent(r)[Len(SetCurrent(r))] = r
<1>1. Len(records) \in DOMAIN records /\ Len(records) \in Nat
  BY EmptySeq, LenProperties
<1>3. SetCurrent(r) \in Seq(Record) /\ Len(SetCurrent(r)) = Len(records)
  BY <1>1, ExceptSeq, LenProperties DEF SetCurrent
<1>4. SetCurrent(r)[Len(records)] = r
  BY <1>1 DEF SetCurrent
<1> QED
  BY <1>1, <1>3, <1>4, EmptySeq

\* A judged record has one window more, and is aborted if foreign activity was seen within a
\* measurement.
LEMMA JudgedIs ==
  ASSUME NEW r \in Record, NEW final \in BOOLEAN, foul \in BOOLEAN, long \in BOOLEAN,
         measuring \in Nat
  PROVE  /\ Judged(r, Open(final)) \in Record
         /\ Judged(r, Open(final)).measurements = r.measurements
         /\ Judged(r, Open(final)).aborted <=> foul /\ measuring # 0
<1>1. Open(final) \in Window
  BY DEF Open, Window
<1>2. Append(r.windows, Open(final)) \in Seq(Window)
  BY <1>1 DEF Record
<1>3. (Open(final).foul /\ decisive(Open(final))) \in BOOLEAN
  OBVIOUS
<1> QED
  BY <1>1, <1>2, <1>3 DEF Judged, Record, Open, decisive

\* A boundary opens one measurement or closes the open one.
LEMMA BoundedIs ==
  ASSUME NEW r \in Record, NEW event \in {"B", "E"}, measuring \in Nat
  PROVE  /\ Bounded(r, event) \in Record
         /\ Len(Bounded(r, event).measurements)
              = IF event = "B" THEN Len(r.measurements) + 1 ELSE Len(r.measurements)
<1> DEFINE here == Len(r.windows)
           new == [start |-> here, end |-> here, closed |-> FALSE]
           closed == [r.measurements EXCEPT ![measuring] =
                         [[@ EXCEPT !.end = here] EXCEPT !.closed = TRUE]]
<1>1. here \in Nat /\ r.measurements \in Seq(Measurement) /\ Len(r.measurements) \in Nat
  BY LenProperties DEF Record
<1>2. CASE event = "B"
  <2>1. /\ Append(r.measurements, new) \in Seq(Measurement)
        /\ Len(Append(r.measurements, new)) = Len(r.measurements) + 1
    BY <1>1 DEF Measurement
  <2>2. Bounded(r, event) = [r EXCEPT !.measurements = Append(r.measurements, new)]
    BY <1>2 DEF Bounded, Record
  <2> HIDE DEF new
  <2> QED
    BY <1>2, <2>1, <2>2 DEF Record
<1>3. CASE event = "E"
  <2>1. closed \in Seq(Measurement) /\ Len(closed) = Len(r.measurements)
    <3>1. CASE measuring \in DOMAIN r.measurements
      <4>1. r.measurements[measuring] \in Measurement
        BY <1>1, <3>1, ElementOfSeq, LenProperties
      <4>2. [[r.measurements[measuring] EXCEPT !.end = here] EXCEPT !.closed = TRUE] \in Measurement
        BY <1>1, <4>1 DEF Measurement
      <4> QED
        BY <1>1, <3>1, <4>2, ExceptSeq, LenProperties
    <3>2. CASE measuring \notin DOMAIN r.measurements
      <4>1. closed = r.measurements
        BY <1>1, <3>2
      <4> QED
        BY <1>1, <4>1
    <3> QED
      BY <3>1, <3>2
  <2>2. Bounded(r, event) = [r EXCEPT !.measurements = closed]
    BY <1>1, <1>3 DEF Bounded, Record, Measurement
  <2> HIDE DEF closed
  <2> QED
    BY <1>3, <2>1, <2>2 DEF Record
<1> QED
  BY <1>2, <1>3

\* Before its last entry is answered, a child has fewer rows than the batch has entries, and the
\* entry in hand is not among them.
LEMMA RowsAre ==
  ASSUME Core, Running
  PROVE  /\ rows \in Seq(Row) /\ Len(rows) \in 0 .. N /\ SeedsOf(rows) \subseteq todo
         /\ \A r \in Range(rows) : r.seed \in SeedsOf(rows)
         /\ \A r \in Range(results) : r.seed \in Entries \ todo
         /\ doing # "exit" => at \in todo \ SeedsOf(rows) /\ Len(rows) < N
<1>1. /\ rows \in Seq(Row) /\ Distinct(rows) /\ todo \in SUBSET Entries /\ results \in Seq(Result)
      /\ SeedsOf(results) = Entries \ todo
      /\ doing # "exit" => at \in todo /\ SeedsOf(rows) = {s \in todo : s < at}
      /\ doing = "exit" => SeedsOf(rows) = todo
  BY DEF Core, TypeOK, Answering, Account, Running
<1>2. Cardinality(SeedsOf(rows)) = Len(rows) /\ Len(rows) <= N /\ Len(rows) \in Nat
  BY <1>1, DistinctCounts, LenProperties
<1>3. SeedsOf(rows) \subseteq todo
  BY <1>1
<1>4. /\ \A r \in Range(rows) : r.seed \in SeedsOf(rows)
      /\ \A r \in Range(results) : r.seed \in SeedsOf(results)
  BY DEF Range, SeedsOf
<1>5. ASSUME doing # "exit" PROVE at \in todo \ SeedsOf(rows) /\ Len(rows) < N
  <2>1. todo \subseteq Nat /\ IsFiniteSet(Entries)
    <3>1. todo \subseteq Nat
      BY <1>1, EntriesFinite
    <3>2. IsFiniteSet(Entries)
      BY NAssumption, FS_Interval DEF Entries
    <3> QED
      BY <3>1, <3>2
  <2>2. at \in todo \ SeedsOf(rows)
    <3>1. at \in todo /\ SeedsOf(rows) = {s \in todo : s < at}
      BY <1>1, <1>5
    <3>2. at \in Nat /\ ~(at < at)
      BY <2>1, <3>1
    <3> QED
      BY <3>1, <3>2
  <2>3. SeedsOf(rows) \in SUBSET Entries /\ SeedsOf(rows) # Entries
    BY <1>1, <1>3, <2>2
  <2>4. Cardinality(SeedsOf(rows)) # Cardinality(Entries)
    BY <2>1, <2>3, FS_Subset
  <2>5. Cardinality(Entries) = N /\ N \in Nat
    BY NAssumption, FS_Interval DEF Entries
  <2> QED
    BY <1>2, <2>2, <2>4, <2>5
<1> QED
  BY <1>1, <1>2, <1>3, <1>4, <1>5, NAssumption

-----------------------------------------------------------------------------
(* The steps *)

\* Before the stage measures there is nothing.
LEMMA InitMonitored == MonitorInit => Monitored
<1> SUFFICES ASSUME MonitorInit PROVE Monitored
  OBVIOUS
<1>1. /\ Core /\ pc = "launch" /\ doing = "boot" /\ results = <<>> /\ TypeOK
  BY InitSound DEF MonitorInit, Sound, Core, Init
<1>2. <<>> \in Seq(Arms) /\ <<>> \in Seq(Record) /\ Range(<<>>) = {} /\ Len(<<>>) = 0
  BY DEF Range
<1>3. MonitorTypeOK
  <2>1. measuring \in 0 .. N /\ events \in 0 .. MaxEvents
    BY NAssumption, EventsAssumption DEF MonitorInit
  <2>2. timed \in [Arms \X Entries -> Nat]
    BY DEF MonitorInit
  <2> QED
    BY <1>1, <1>2, <2>1, <2>2 DEF MonitorInit, MonitorTypeOK
<1>4. \A a \in Arms, s \in Entries : timed[<<a, s>>] = 0
  BY DEF MonitorInit
<1>5. Hooked /\ Bracketed /\ Reasons
  BY <1>1 DEF MonitorInit, Hooked, Bracketed, Reasons, Running, Timing
<1>6. Arranged
  BY <1>2, <1>4 DEF MonitorInit, Arranged
<1>7. Balanced
  <2>1. todo \subseteq Entries
    BY <1>1 DEF TypeOK
  <2> QED
    BY <1>1, <1>2, <1>4, <2>1 DEF MonitorInit, Balanced, Running
<1> QED
  BY <1>1, <1>3, <1>5, <1>6, <1>7 DEF Monitored

\* The types but for those that WorkerRun gives.
Types ==
    /\ phase \in {"prepare", "measuring", "complete"} \cup Outcomes
    /\ arm \in Arms /\ jobs \in Seq(Arms) /\ records \in Seq(Record)
    /\ measuring \in 0 .. N
    /\ active \in BOOLEAN /\ foul \in BOOLEAN /\ long \in BOOLEAN
    /\ harmed \in BOOLEAN /\ crowded \in BOOLEAN
    /\ abort \in {"none", "contaminated", "failure"}
    /\ sound \in {"yes", "moved", "unreadable"}
    /\ events \in 0 .. MaxEvents
    /\ timed \in [Arms \X Entries -> Nat]

LEMMA TypesAre == MonitorTypeOK <=> TypeOK /\ Types
  BY DEF MonitorTypeOK, Types

\* A step that leaves the monitor, the rows and the job alone keeps all of it.
LEMMA PlainKeeps ==
  ASSUME Monitored, UNCHANGED <<monitor, todo, results, at, half, rows>>,
         Core', Running' <=> Running,
         doing' \in Timing <=> doing \in Timing, doing' \in Timed <=> doing \in Timed,
         pc' = pc \/ (abort = "none" /\ {pc, pc'} \subseteq {"poll", "watch", "reap"})
  PROVE  Monitored'
<1>1. UNCHANGED <<phase, arm, jobs, records, active, measuring, abort, foul, long, sound, harmed,
                  crowded, events, timed>>
  BY DEF monitor
<1>2. MonitorTypeOK'
  BY <1>1, TypesAre DEF Monitored, Types, Core, MonitorTypeOK
<1>3. Current' = Current /\ Range(jobs)' = Range(jobs) /\ Range(results)' = Range(results)
      /\ Range(rows)' = Range(rows) /\ SeedsOf(rows)' = SeedsOf(rows)
  BY <1>1 DEF Current
<1>4. Hooked'
  BY <1>1, <1>3 DEF Monitored, Hooked
<1>5. Bracketed' /\ Reasons'
  BY <1>1, <1>3 DEF Monitored, Bracketed, Reasons
<1>6. Arranged'
  BY <1>1, <1>3 DEF Monitored, Arranged
<1>7. Balanced'
  BY <1>1, <1>3 DEF Monitored, Balanced
<1> QED
  BY <1>2, <1>4, <1>5, <1>6, <1>7 DEF Monitored

\* The child between its boundaries and rows, the coordinator between its samples.
LEMMA WaitingKeeps ==
  ASSUME Monitored, UNCHANGED monitor,
         Boot \/ BeginRow \/ Exit \/ (abort = "none" /\ (Poll \/ Sleep \/ Timeout \/ ExitSeen))
  PROVE  Monitored'
<1>1. Core' /\ (Running' <=> Running)
  BY WaitingCore DEF Monitored
<1>2. UNCHANGED <<todo, results, at, half, rows>>
  BY DEF Boot, BeginRow, Exit, Poll, Sleep, Timeout, ExitSeen
<1>3. (doing' \in Timing <=> doing \in Timing) /\ (doing' \in Timed <=> doing \in Timed)
  BY DEF Boot, BeginRow, Exit, Poll, Sleep, Timeout, ExitSeen, Timing, Timed
<1>4. pc' = pc \/ (abort = "none" /\ {pc, pc'} \subseteq {"poll", "watch", "reap"})
  BY DEF Boot, BeginRow, Exit, Poll, Sleep, Timeout, ExitSeen
<1> QED
  BY <1>1, <1>2, <1>3, <1>4, PlainKeeps

\* A finished row moves the entry in hand to the answered ones.
LEMMA FinishKeeps ==
  ASSUME Monitored, FinishRow, UNCHANGED monitor
  PROVE  Monitored'
<1> DEFINE row == [seed |-> at, status |-> half]
<1>1. UNCHANGED <<phase, arm, jobs, records, active, measuring, abort, foul, long, sound, harmed,
                  crowded, events, timed, pc, todo, results>>
  BY DEF monitor, FinishRow
<1>2. /\ Core' /\ Running /\ Running' /\ Len(rows') = Len(rows) + 1
      /\ Range(rows') = Range(rows) \cup {row} /\ SeedsOf(rows') = SeedsOf(rows) \cup {at}
  BY FinishCore DEF Monitored
<1>3. doing \in {"half", "answer"} /\ doing' \in {"exit", "work"} /\ half' = half
  BY DEF FinishRow
<1>4. Current' = Current /\ Range(jobs)' = Range(jobs) /\ Range(results)' = Range(results)
  BY <1>1 DEF Current
<1>5. MonitorTypeOK'
  BY <1>1, <1>2, TypesAre DEF Monitored, Types, Core, MonitorTypeOK
<1>6. Hooked' /\ Reasons'
  BY <1>1, <1>2, <1>4 DEF Monitored, Hooked, Reasons
<1>7. Bracketed'
  <2>1. Len(rows) \in Nat
    BY <1>2, RowsAre DEF Monitored
  <2> QED
    BY <1>1, <1>2, <1>3, <1>4, <2>1 DEF Monitored, Bracketed, Timing, Timed
<1>8. Arranged'
  BY <1>1, <1>4 DEF Monitored, Arranged
<1>9. Balanced'
  <2>1. doing \in Timed /\ doing' \notin Timed
    BY <1>3 DEF Timed
  <2>2. \A r \in Range(rows') : r.status = "ok" => timed[<<arm, r.seed>>] = 1
    BY <1>2, <2>1 DEF Monitored, Balanced
  <2>3. \A s \in todo \ SeedsOf(rows') : timed[<<arm, s>>] = 0
    BY <1>2 DEF Monitored, Balanced
  <2> QED
    BY <1>1, <1>2, <1>4, <2>1, <2>2, <2>3 DEF Monitored, Balanced, Running
<1> QED
  BY <1>2, <1>5, <1>6, <1>7, <1>8, <1>9 DEF Monitored

\* The stage begins to measure, or does not.
LEMMA PrepareKeeps ==
  ASSUME Monitored, Prepare
  PROVE  Monitored'
<1>1. /\ phase = "prepare" /\ phase' \in {"refused", "failed", "contaminated", "measuring"}
      /\ UNCHANGED <<vars, arm, jobs, records, active, measuring, abort, foul, long, sound, harmed,
                     crowded, events, timed>>
  BY DEF Prepare
<1>2. records = <<>> /\ ~Running
  BY <1>1 DEF Monitored, Hooked
<1>3. /\ Core' /\ TypeOK' /\ Current' = Current /\ ~Running'
      /\ Range(jobs)' = Range(jobs) /\ Range(results)' = Range(results)
      /\ UNCHANGED <<pc, doing, todo>>
  BY <1>1, <1>2 DEF vars, Monitored, Core, TypeOK, Answering, Account, Current, Running
<1>4. MonitorTypeOK'
  BY <1>1, <1>3, TypesAre DEF Monitored, Types, Outcomes, MonitorTypeOK
<1>5. Hooked' /\ Bracketed' /\ Reasons'
  BY <1>1, <1>2, <1>3 DEF Monitored, Hooked, Bracketed, Reasons
<1>6. Arranged' /\ Balanced'
  BY <1>1, <1>3 DEF Monitored, Arranged, Balanced
<1> QED
  BY <1>3, <1>4, <1>5, <1>6 DEF Monitored

\* A worker is launched with a record of its own.
LEMMA LaunchKeeps ==
  ASSUME Monitored, MonitoredLaunch
  PROVE  Monitored'
<1>1. /\ phase = "measuring" /\ abort = "none" /\ pc = "launch" /\ Launch
      /\ pc' = "poll" /\ doing' = "boot" /\ UNCHANGED <<todo, results>>
      /\ UNCHANGED <<phase, arm, jobs, harmed, crowded, events, timed>>
  BY DEF MonitoredLaunch, Launch
<1>2. ~active /\ ~foul
  BY <1>1 DEF Monitored, Hooked
<1>3. /\ abort' = "none" /\ active' = TRUE /\ measuring' = 0 /\ foul' = FALSE /\ long' = FALSE
      /\ sound' = "yes" /\ records' = Append(records, NewRecord)
  BY <1>1, <1>2 DEF MonitoredLaunch, launched, NewWindow
<1>4. /\ Core' /\ TypeOK' /\ Running' /\ at' \in todo'
      /\ rows' = <<>> /\ SeedsOf(rows') = {} /\ Range(rows') = {}
  BY <1>1, LaunchCore DEF Monitored, Core
<1>t. Types
  BY TypesAre DEF Monitored
<1>5. NewRecord \in Record /\ NewRecord.measurements = <<>>
  <2>1. <<>> \in Seq(Window) /\ <<>> \in Seq(Measurement)
    OBVIOUS
  <2> QED
    BY <1>t, <2>1 DEF NewRecord, Record, Types
<1>6. records' \in Seq(Record) /\ records' # <<>> /\ records'[Len(records')] = NewRecord
  <2> HIDE DEF Record, NewRecord
  <2> QED
    BY <1>t, <1>3, <1>5, AppendProperties, EmptySeq DEF Types
<1>7. MonitorTypeOK'
  <2>1. 0 \in 0 .. N
    BY NAssumption
  <2>2. Types'
    BY <1>t, <1>1, <1>3, <1>6, <2>1 DEF Types
  <2> QED
    BY <1>4, <2>2, TypesAre DEF MonitorTypeOK, Types
<1>8. Hooked' /\ Reasons'
  BY <1>1, <1>2, <1>3, <1>4, <1>6 DEF Monitored, Hooked, Reasons
<1>9. Bracketed'
  <2>1. Current'.measurements = <<>> /\ Len(<<>>) = 0
    BY <1>5, <1>6 DEF Current
  <2> QED
    BY <1>1, <1>3, <1>4, <2>1 DEF Bracketed, Timing, Timed
<1>10. Range(jobs)' = Range(jobs) /\ Range(results)' = Range(results)
  BY <1>1
<1>11. Arranged'
  BY <1>1, <1>10 DEF Monitored, Arranged
<1>12. Balanced'
  BY <1>1, <1>4, <1>10 DEF Monitored, Balanced, Timed
<1> QED
  BY <1>4, <1>7, <1>8, <1>9, <1>11, <1>12 DEF Monitored

\* A sample that stops the worker stops it for activity within a measurement.
LEMMA StopKeeps ==
  ASSUME Monitored, pc = "watch", abort = "none", NEW r \in Record,
         r.measurements = Current.measurements, r.aborted, foul, measuring # 0,
         records' = SetCurrent(r), NewWindow,
         abort' = "contaminated", child' = "dead", pc' = "reap",
         UNCHANGED <<kind, todo, completed, fresh, timed_out, results, at, doing, half, rows,
                     written, phase, arm, jobs, active, measuring, sound, harmed, crowded,
                     events, timed>>
  PROVE  Monitored'
<1>t. Types /\ TypeOK /\ records # <<>> /\ Running
  BY TypesAre DEF Monitored, Hooked, Running
<1>1. Core' /\ (Running' <=> Running) /\ TypeOK'
  BY <1>t, MoveCore DEF Monitored, Core, TypeOK
<1>2. /\ records' \in Seq(Record) /\ records' # <<>>
      /\ records'[Len(records')] = r
  BY <1>t, CurrentIs DEF Types
<1>3. foul' = FALSE /\ long' = FALSE /\ crowded
  BY DEF NewWindow, Monitored, Reasons
<1>4. MonitorTypeOK'
  <2>1. Types'
    BY <1>t, <1>2, <1>3 DEF Types
  <2> QED
    BY <1>1, <2>1, TypesAre DEF MonitorTypeOK, Types
<1>5. Hooked'
  BY <1>1, <1>2, <1>3, <1>t DEF Monitored, Hooked, Current
<1>6. Bracketed' /\ Reasons'
  BY <1>1, <1>2, <1>3 DEF Monitored, Bracketed, Reasons, Current
<1>7. /\ Range(jobs)' = Range(jobs) /\ Range(results)' = Range(results)
      /\ Range(rows)' = Range(rows) /\ SeedsOf(rows)' = SeedsOf(rows)
  OBVIOUS
<1>8. Arranged' /\ Balanced'
  BY <1>1, <1>7 DEF Monitored, Arranged, Balanced
<1> QED
  BY <1>1, <1>4, <1>5, <1>6, <1>8 DEF Monitored

\* A hook that raises has found a mask or a counter changed.
LEMMA RaiseKeeps ==
  ASSUME Monitored, Running, abort = "none", sound # "yes", abort' = "failure",
         UNCHANGED <<caller, worker, phase, arm, jobs, records, active, measuring, foul, long,
                     sound, harmed, crowded, events, timed>>
  PROVE  Monitored'
<1>1. /\ Core' /\ TypeOK' /\ Current' = Current /\ (Running' <=> Running)
      /\ Range(jobs)' = Range(jobs) /\ Range(results)' = Range(results)
      /\ Range(rows)' = Range(rows) /\ SeedsOf(rows)' = SeedsOf(rows)
  BY DEF Monitored, Core, TypeOK, Answering, Account, Current, Running
<1>2. MonitorTypeOK'
  BY <1>1, TypesAre DEF Monitored, Types, MonitorTypeOK
<1>3. Hooked' /\ Bracketed' /\ Reasons'
  BY <1>1 DEF Monitored, Hooked, Bracketed, Reasons, Running
<1>4. Arranged' /\ Balanced'
  BY <1>1 DEF Monitored, Arranged, Balanced
<1> QED
  BY <1>1, <1>2, <1>3, <1>4 DEF Monitored

\* A periodic sample keeps the invariant.
LEMMA ProgressKeeps ==
  ASSUME Monitored, Progress
  PROVE  Monitored'
<1>t. Types /\ Core /\ records # <<>> /\ Running /\ pc = "watch" /\ abort = "none"
  BY TypesAre DEF Monitored, Hooked, Running, Progress
<1>1. UNCHANGED <<phase, arm, jobs, active, measuring, sound, harmed, crowded, events, timed>>
  BY DEF Progress
<1>2. CASE sound # "yes"
  BY <1>t, <1>1, <1>2, RaiseKeeps DEF Progress
<1>3. CASE sound = "yes"
  <2> DEFINE r == Judged(Current, Open(FALSE))
  <2>1. /\ records' = SetCurrent(r) /\ NewWindow
        /\ r.aborted => /\ abort' = "contaminated" /\ child' = "dead" /\ pc' = "reap"
                        /\ UNCHANGED <<kind, todo, completed, fresh, timed_out, results,
                                       at, doing, half, rows, written>>
        /\ ~r.aborted => UNCHANGED <<abort, caller, worker>>
    BY <1>3 DEF Progress
  <2>2. /\ r \in Record /\ r.measurements = Current.measurements
        /\ r.aborted <=> foul /\ measuring # 0
    <3>1. Current \in Record
      BY <1>t, CurrentIn DEF Types
    <3>2. foul \in BOOLEAN /\ long \in BOOLEAN /\ measuring \in Nat
      BY <1>t, NAssumption DEF Types
    <3> QED
      BY <3>1, <3>2, JudgedIs
  <2> HIDE DEF r
  <2>3. CASE r.aborted
    BY <1>t, <1>1, <2>1, <2>2, <2>3, StopKeeps
  <2>4. CASE ~r.aborted
    <3>1. /\ records' \in Seq(Record) /\ records' # <<>>
          /\ records'[Len(records')] = r
      BY <1>t, <2>1, <2>2, CurrentIs DEF Types
    <3>2. foul' = FALSE /\ long' = FALSE /\ ~harmed
      BY <1>t, <2>1, <2>2, <2>4 DEF NewWindow, Monitored, Reasons
    <3>3. /\ Core' /\ TypeOK' /\ (Running' <=> Running)
          /\ Range(jobs)' = Range(jobs) /\ Range(results)' = Range(results)
          /\ Range(rows)' = Range(rows) /\ SeedsOf(rows)' = SeedsOf(rows)
      BY <1>1, <2>1, <2>4 DEF Monitored, Core, TypeOK, Answering, Account, Running
    <3>4. MonitorTypeOK'
      <4>1. Types'
        BY <1>t, <1>1, <2>1, <2>4, <3>1, <3>2 DEF Types
      <4> QED
        BY <3>3, <4>1, TypesAre DEF MonitorTypeOK, Types
    <3>5. Hooked' /\ Bracketed' /\ Reasons'
      BY <1>t, <1>1, <2>1, <2>2, <2>4, <3>1, <3>2, <3>3
         DEF Monitored, Hooked, Bracketed, Reasons, Current
    <3>6. Arranged' /\ Balanced'
      BY <1>1, <2>1, <2>4, <3>3 DEF Monitored, Arranged, Balanced
    <3> QED
      BY <3>3, <3>4, <3>5, <3>6 DEF Monitored
  <2> QED
    BY <2>3, <2>4
<1> QED
  BY <1>2, <1>3, <1>t DEF Types

\* A boundary opens or closes a measurement, or finds what happened since the last sample.
LEMMA BoundaryKeeps ==
  ASSUME Monitored, NEW event \in {"B", "E"}, Boundary(event)
  PROVE  Monitored'
<1>t. Types /\ Core /\ records # <<>> /\ Running /\ pc = "watch" /\ abort = "none"
  BY TypesAre DEF Monitored, Hooked, Running, Boundary
<1>1. /\ child = "alive" /\ doing = event
      /\ UNCHANGED <<phase, arm, jobs, active, sound, harmed, crowded, events, timed>>
  BY DEF Boundary
<1>2. event = "B" <=> measuring = 0
  BY <1>1 DEF Monitored, Bracketed, Timing
<1>3. CASE sound # "yes"
  <2>1. abort' = "failure" /\ UNCHANGED <<caller, worker, records, measuring, foul, long>>
    BY <1>3 DEF Boundary
  <2> QED
    BY <1>t, <1>1, <1>3, <2>1, RaiseKeeps
<1>4. CASE sound = "yes"
  <2> DEFINE r == Judged(Current, Open(FALSE))
  <2>1. /\ NewWindow
        /\ UNCHANGED <<kind, todo, completed, fresh, timed_out, results, at, half, rows, written>>
        /\ r.aborted => /\ abort' = "contaminated" /\ child' = "dead" /\ pc' = "reap"
                        /\ records' = SetCurrent(r) /\ UNCHANGED <<doing, measuring>>
        /\ ~r.aborted => /\ records' = SetCurrent(Bounded(r, event))
                         /\ measuring' = IF event = "B" THEN Len(r.measurements) + 1 ELSE 0
                         /\ doing' = IF event = "B" THEN "timing" ELSE "answer"
                         /\ pc' = "poll" /\ UNCHANGED <<abort, child>>
    BY <1>2, <1>4 DEF Boundary
  <2>2. /\ r \in Record /\ r.measurements = Current.measurements
        /\ r.aborted <=> foul /\ measuring # 0
    <3>1. Current \in Record
      BY <1>t, CurrentIn DEF Types
    <3>2. foul \in BOOLEAN /\ long \in BOOLEAN /\ measuring \in Nat
      BY <1>t, NAssumption DEF Types
    <3> QED
      BY <3>1, <3>2, JudgedIs
  <2> HIDE DEF r
  <2>3. CASE r.aborted
    BY <1>t, <1>1, <2>1, <2>2, <2>3, StopKeeps
  <2>4. CASE ~r.aborted
    <3>b. /\ Bounded(r, event) \in Record
          /\ Len(Bounded(r, event).measurements)
               = IF event = "B" THEN Len(r.measurements) + 1 ELSE Len(r.measurements)
          /\ Len(r.measurements) \in Nat
      <4>1. measuring \in Nat /\ r.measurements \in Seq(Measurement)
        BY <1>t, <2>2, NAssumption DEF Types, Record
      <4> QED
        BY <2>2, <4>1, BoundedIs, LenProperties
    <3>1. /\ records' \in Seq(Record) /\ records' # <<>>
          /\ records'[Len(records')] = Bounded(r, event)
      BY <1>t, <2>1, <2>4, <3>b, CurrentIs DEF Types
    <3>2. foul' = FALSE /\ long' = FALSE /\ ~harmed
      BY <1>t, <2>1, <2>2, <2>4 DEF NewWindow, Monitored, Reasons
    <3>3. Core' /\ (Running' <=> Running)
      <4>1. doing' \in Doings /\ doing # "exit" /\ doing' # "exit" /\ half' \in Statuses
        BY <1>t, <1>1, <2>1, <2>4 DEF Doings, Core, TypeOK
      <4>2. completed' \in 0 .. N /\ fresh' \in BOOLEAN /\ timed_out' \in BOOLEAN
        BY <1>t, <2>1 DEF Core, TypeOK
      <4> QED
        BY <1>t, <2>1, <2>4, <4>1, <4>2, MoveCore
    <3>4. /\ Range(jobs)' = Range(jobs) /\ Range(results)' = Range(results)
          /\ Range(rows)' = Range(rows) /\ SeedsOf(rows)' = SeedsOf(rows)
      BY <1>1, <2>1
    <3>5. rows \in Seq(Row) /\ Len(rows) \in 0 .. N /\ Len(rows) < N
      BY <1>t, <1>1, RowsAre
    <3>6. Bracketed' /\ measuring' \in 0 .. N
      <4>1. CASE event = "B"
        <5>1. /\ doing = "B" /\ doing' = "timing" /\ measuring' = Len(r.measurements) + 1
              /\ Len(r.measurements) <= Len(rows)
          BY <1>1, <1>t, <2>1, <2>2, <2>4, <4>1 DEF Monitored, Bracketed, Timing, Timed
        <5>2. Len(Current'.measurements) = Len(r.measurements) + 1
          BY <3>1, <3>b, <4>1 DEF Current
        <5> QED
          BY <2>1, <3>b, <3>5, <5>1, <5>2, NAssumption DEF Bracketed, Timing
      <4>2. CASE event = "E"
        <5>1. /\ doing = "E" /\ doing' = "answer" /\ measuring' = 0
              /\ Len(r.measurements) <= Len(rows) + 1
          BY <1>1, <1>t, <2>1, <2>2, <2>4, <4>2 DEF Monitored, Bracketed, Timing, Timed
        <5>2. Len(Current'.measurements) = Len(r.measurements)
          BY <3>1, <3>b, <4>2 DEF Current
        <5> QED
          BY <2>1, <3>b, <3>5, <5>1, <5>2, NAssumption DEF Bracketed, Timing, Timed
      <4> QED
        BY <4>1, <4>2
    <3>7. MonitorTypeOK'
      <4>1. Types'
        BY <1>t, <1>1, <2>1, <2>4, <3>1, <3>2, <3>6 DEF Types
      <4> QED
        BY <3>3, <4>1, TypesAre DEF MonitorTypeOK, Types, Core
    <3>8. Hooked' /\ Reasons'
      BY <1>t, <1>1, <2>1, <2>4, <3>1, <3>2, <3>3 DEF Monitored, Hooked, Reasons
    <3>9. Arranged'
      BY <1>1, <3>4 DEF Monitored, Arranged
    <3>10. Balanced'
      <4>1. pc' # "launch" /\ (doing' \in Timed <=> doing \in Timed)
        BY <1>1, <2>1, <2>4 DEF Timed
      <4> QED
        BY <1>t, <1>1, <2>1, <3>4, <4>1 DEF Monitored, Balanced
    <3> QED
      BY <3>3, <3>6, <3>7, <3>8, <3>9, <3>10 DEF Monitored
  <2> QED
    BY <2>3, <2>4
<1> QED
  BY <1>3, <1>4

\* A call that is given up ends without a worker.
LEMMA RaisedKeeps ==
  ASSUME Monitored, Running, child' = "none", pc' = "raised", abort' # "none", phase' = phase,
         UNCHANGED <<kind, todo, completed, fresh, timed_out, results, at, doing, half, rows, written>>
  PROVE  Core' /\ ~Running' /\ phase = "measuring" /\ phase' = "measuring"
<1>1. Core /\ pc # "done" /\ phase = "measuring"
  BY DEF Monitored, Hooked, Running
<1>2. TypeOK' /\ Answering' /\ Account' /\ ~Running'
  BY <1>1 DEF Core, TypeOK, Answering, Account, Running, Places
<1> QED
  BY <1>1, <1>2 DEF Core

\* So does one whose monitor has failed.
LEMMA AbandonKeeps ==
  ASSUME Monitored, Abandon
  PROVE  Monitored'
<1>1. Running
  <2>1. pc \in Places
    BY DEF Monitored, Core, TypeOK
  <2> QED
    BY <2>1 DEF Abandon, Monitored, Hooked, Running, Places
<1>2. /\ abort = "failure" /\ child' = "none" /\ pc' = "raised"
      /\ UNCHANGED <<kind, todo, completed, fresh, timed_out, results, at, doing, half, rows, written>>
      /\ UNCHANGED <<phase, arm, jobs, records, active, measuring, abort, foul, long, sound,
                     harmed, crowded, events, timed>>
  BY DEF Abandon, monitor
<1>3. Core' /\ ~Running' /\ phase' = "measuring"
  BY <1>1, <1>2, RaisedKeeps
<1>4. MonitorTypeOK'
  BY <1>2, <1>3, TypesAre DEF Monitored, Types, MonitorTypeOK, Core
<1>5. Range(jobs)' = Range(jobs) /\ Range(results)' = Range(results)
  BY <1>2
<1>6. Hooked' /\ Bracketed' /\ Reasons'
  BY <1>2, <1>3 DEF Monitored, Hooked, Bracketed, Reasons
<1>7. Arranged' /\ Balanced'
  BY <1>2, <1>3, <1>5 DEF Monitored, Arranged, Balanced
<1> QED
  BY <1>3, <1>4, <1>6, <1>7 DEF Monitored

\* The final window of a worker that has ended is judged before its rows are collected.
LEMMA MonitoredCollectKeeps ==
  ASSUME Monitored, MonitoredCollect
  PROVE  Monitored'
<1>t. Types /\ Core /\ records # <<>> /\ Running /\ pc = "reap" /\ abort # "failure"
      /\ phase = "measuring"
  BY TypesAre DEF Monitored, Hooked, Running, MonitoredCollect
<1>1. UNCHANGED <<phase, arm, jobs, measuring, sound, harmed, crowded, events, timed>>
  BY DEF MonitoredCollect
<1>2. CASE abort = "none" /\ sound = "unreadable"
  <2>1. abort' = "failure" /\ UNCHANGED <<vars, records, active, foul, long>>
    BY <1>2 DEF MonitoredCollect
  <2> QED
    BY <1>t, <1>1, <1>2, <2>1, RaiseKeeps DEF vars
<1>3. CASE ~(abort = "none" /\ sound = "unreadable")
  <2> DEFINE r == IF abort = "none" THEN Judged(Current, Open(TRUE)) ELSE Current
             last == [r EXCEPT !.exited = TRUE]
  <2>1. /\ records' = SetCurrent(last) /\ active' = FALSE /\ NewWindow
        /\ r.aborted => /\ abort' = "contaminated" /\ pc' = "raised" /\ child' = "none"
                        /\ UNCHANGED <<kind, todo, completed, fresh, timed_out, results, at,
                                       doing, half, rows, written>>
        /\ ~r.aborted => abort' = abort /\ Collect
    BY <1>3 DEF MonitoredCollect
  <2>2. /\ r \in Record
        /\ abort = "none" => (r.aborted <=> foul /\ measuring # 0)
        /\ abort # "none" => r.aborted
    <3>1. Current \in Record
      BY <1>t, CurrentIn DEF Types
    <3>2. foul \in BOOLEAN /\ long \in BOOLEAN /\ measuring \in Nat /\ abort \in {"none", "contaminated"}
      BY <1>t, NAssumption DEF Types
    <3>3. abort # "none" => Current.aborted
      BY <1>t, <3>2 DEF Monitored, Hooked
    <3> QED
      BY <3>1, <3>2, <3>3, JudgedIs
  <2> HIDE DEF r
  <2>3. last \in Record
    BY <2>2 DEF Record
  <2> HIDE DEF last
  <2>4. records' \in Seq(Record) /\ records' # <<>>
    BY <1>t, <2>1, <2>3, CurrentIs DEF Types
  <2>5. /\ foul' = FALSE /\ long' = FALSE
        /\ r.aborted => crowded
        /\ ~r.aborted => abort = "none" /\ ~harmed
    BY <1>t, <2>1, <2>2 DEF NewWindow, Monitored, Reasons, Types
  <2>6. Range(jobs)' = Range(jobs) /\ Arranged'
    BY <1>1 DEF Monitored, Arranged
  <2>7. CASE r.aborted
    <3>1. Core' /\ ~Running'
      BY <1>t, <1>1, <2>1, <2>7, RaisedKeeps
    <3>2. MonitorTypeOK'
      <4>1. Types'
        BY <1>t, <1>1, <2>1, <2>4, <2>5, <2>7 DEF Types
      <4> QED
        BY <3>1, <4>1, TypesAre DEF MonitorTypeOK, Types, Core
    <3>3. Hooked' /\ Bracketed' /\ Reasons'
      BY <1>t, <1>1, <2>1, <2>4, <2>5, <2>7, <3>1 DEF Monitored, Hooked, Bracketed, Reasons
    <3>4. Range(results)' = Range(results)
      BY <2>1, <2>7
    <3>5. Balanced'
      BY <1>1, <2>1, <2>7, <3>1, <3>4 DEF Monitored, Balanced
    <3> QED
      BY <2>6, <3>1, <3>2, <3>3, <3>5 DEF Monitored
  <2>8. CASE ~r.aborted
    <3>1. /\ Core' /\ pc' \in {"launch", "done"}
          /\ \A a \in Range(results') :
                a.status \in Statuses => a \in Range(results) \cup Range(rows)
          /\ pc' = "launch" => todo' \subseteq todo \ (SeedsOf(rows) \cup {at})
      BY <1>t, <2>1, <2>8, CollectCore
    <3>2. ~Running' /\ abort' = "none" /\ doing' = doing /\ TypeOK'
      BY <2>1, <2>5, <2>8, <3>1 DEF Collect, Running, Core
    <3>3. MonitorTypeOK'
      <4>1. Types'
        BY <1>t, <1>1, <2>1, <2>4, <2>5, <2>8 DEF Types
      <4> QED
        BY <3>2, <4>1, TypesAre DEF MonitorTypeOK, Types
    <3>4. Hooked' /\ Bracketed' /\ Reasons'
      BY <1>t, <1>1, <2>1, <2>5, <2>8, <3>1, <3>2 DEF Monitored, Hooked, Bracketed, Reasons
    <3>5. Balanced'
      <4>1. \A a \in Range(results') : a.status = "ok" => timed[<<arm, a.seed>>] = 1
        BY <1>t, <3>1 DEF Monitored, Balanced, Statuses
      <4>2. pc' = "launch" => \A s \in todo' : timed[<<arm, s>>] = 0
        BY <1>t, <3>1 DEF Monitored, Balanced
      <4> QED
        BY <1>1, <3>2, <4>1, <4>2 DEF Balanced
    <3> QED
      BY <2>6, <3>1, <3>3, <3>4, <3>5 DEF Monitored
  <2> QED
    BY <2>7, <2>8
<1> QED
  BY <1>2, <1>3

\* An entry that fails before its measurement is answered unmeasured.
LEMMA SetupKeeps ==
  ASSUME Monitored, Setup
  PROVE  Monitored'
<1>1. /\ child = "alive" /\ doing = "work" /\ doing' \in {"B", "answer"} /\ half' \in {half, "error"}
      /\ doing' = "answer" => half' = "error"
      /\ UNCHANGED <<kind, pc, todo, completed, fresh, timed_out, results, child, at, rows, written>>
      /\ UNCHANGED <<phase, arm, jobs, records, active, measuring, abort, foul, long, sound,
                     harmed, crowded, events, timed>>
  BY DEF Setup, monitor
<1>2. Core /\ Running
  BY <1>1 DEF Monitored, Core, Answering, Running
<1>3. Core' /\ (Running' <=> Running)
  <2>1. /\ doing' \in Doings /\ half' \in Statuses /\ completed' \in 0 .. N
        /\ fresh' \in BOOLEAN /\ timed_out' \in BOOLEAN /\ (pc' = "reap" => child' # "alive")
    BY <1>1, <1>2 DEF Core, TypeOK, Answering, Doings, Statuses
  <2> QED
    BY <1>1, <1>2, <2>1, MoveCore
<1>4. /\ Current' = Current /\ Range(jobs)' = Range(jobs) /\ Range(results)' = Range(results)
      /\ Range(rows)' = Range(rows) /\ SeedsOf(rows)' = SeedsOf(rows)
  BY <1>1 DEF Current
<1>5. MonitorTypeOK'
  BY <1>1, <1>3, TypesAre DEF Monitored, Types, MonitorTypeOK, Core
<1>6. Hooked' /\ Reasons' /\ Arranged'
  BY <1>1, <1>3, <1>4 DEF Monitored, Hooked, Reasons, Arranged
<1>7. Bracketed'
  <2>1. Len(rows) \in Nat /\ Len(Current.measurements) <= Len(rows) /\ Current.measurements \in Seq(Measurement)
    <3>1. Types /\ records # <<>>
      BY <1>2, TypesAre DEF Monitored, Hooked
    <3> QED
      BY <1>1, <1>2, <3>1, RowsAre, CurrentIn DEF Monitored, Bracketed, Types, Timing, Timed, Record
  <2>2. Len(Current.measurements) <= Len(rows) + 1
    BY <2>1, LenProperties
  <2> QED
    BY <1>1, <1>2, <1>4, <2>1, <2>2 DEF Monitored, Bracketed, Timing, Timed
<1>8. Balanced'
  BY <1>1, <1>2, <1>3, <1>4 DEF Monitored, Balanced, Timed
<1> QED
  BY <1>3, <1>5, <1>6, <1>7, <1>8 DEF Monitored

\* The timed calls of the entry in hand, which has not been timed before.
LEMMA TimedKeeps ==
  ASSUME Monitored, TimedCalls
  PROVE  Monitored'
<1>1. /\ child = "alive" /\ doing = "timing" /\ doing' = "E" /\ half' \in Statuses
      /\ timed' = [timed EXCEPT ![<<arm, at>>] = IF half' = "ok" THEN @ + 1 ELSE @]
      /\ UNCHANGED <<kind, pc, todo, completed, fresh, timed_out, results, child, at, rows, written>>
      /\ UNCHANGED <<phase, arm, jobs, records, active, measuring, abort, foul, long, sound,
                     harmed, crowded, events>>
  BY DEF TimedCalls
<1>2. Core /\ Running /\ Types /\ phase = "measuring"
  BY <1>1, TypesAre DEF Monitored, Core, Answering, Running, Hooked
<1>3. Core' /\ (Running' <=> Running)
  <2>1. /\ doing' \in Doings /\ completed' \in 0 .. N
        /\ fresh' \in BOOLEAN /\ timed_out' \in BOOLEAN /\ (pc' = "reap" => child' # "alive")
    BY <1>1, <1>2 DEF Core, TypeOK, Answering, Doings
  <2> QED
    BY <1>1, <1>2, <2>1, MoveCore
<1>4. /\ Current' = Current /\ Range(jobs)' = Range(jobs) /\ Range(results)' = Range(results)
      /\ Range(rows)' = Range(rows) /\ SeedsOf(rows)' = SeedsOf(rows)
  BY <1>1 DEF Current
<1>5. /\ at \in todo \ SeedsOf(rows) /\ SeedsOf(rows) \subseteq todo /\ todo \subseteq Entries
      /\ \A r \in Range(rows) : r.seed \in SeedsOf(rows)
      /\ \A r \in Range(results) : r.seed \in Entries \ todo
  BY <1>1, <1>2, RowsAre DEF Core, TypeOK
<1>6. /\ timed[<<arm, at>>] = 0 /\ timed' \in [Arms \X Entries -> Nat]
      /\ timed'[<<arm, at>>] = IF half' = "ok" THEN 1 ELSE 0
      /\ \A a \in Arms, s \in Entries :
            a # arm \/ s # at => timed'[<<a, s>>] = timed[<<a, s>>]
  <2>1. timed[<<arm, at>>] = 0
    BY <1>1, <1>2, <1>5 DEF Monitored, Balanced, Timed
  <2>2. arm \in Arms /\ timed \in [Arms \X Entries -> Nat] /\ <<arm, at>> \in Arms \X Entries
    BY <1>2, <1>5 DEF Types
  <2>3. \A a \in Arms, s \in Entries :
           a # arm \/ s # at => <<a, s>> # <<arm, at>> /\ <<a, s>> \in Arms \X Entries
    OBVIOUS
  <2> QED
    BY <1>1, <2>1, <2>2, <2>3
<1>7. MonitorTypeOK'
  <2>1. Types'
    BY <1>1, <1>2, <1>6 DEF Types
  <2> QED
    BY <1>3, <2>1, TypesAre DEF MonitorTypeOK, Types, Core
<1>8. Hooked' /\ Reasons'
  BY <1>1, <1>3, <1>4 DEF Monitored, Hooked, Reasons
<1>9. Bracketed'
  BY <1>1, <1>3, <1>4 DEF Monitored, Bracketed, Timing, Timed
<1>10. Arranged'
  <2>1. arm \notin Range(jobs) /\ Range(jobs) \subseteq Arms /\ arm \in Arms
    <3>1. jobs \in Seq(Arms)
      BY <1>2 DEF Types
    <3>2. Range(jobs) \subseteq Arms
      BY <3>1, LenProperties, ElementOfSeq DEF Range
    <3> QED
      BY <1>2, <3>2 DEF Monitored, Arranged, Types
  <2>2. \A a \in Range(jobs), s \in Entries : timed'[<<a, s>>] = timed[<<a, s>>]
    BY <1>6, <2>1
  <2>3. \A a \in Arms \ {arm}, s \in Entries : timed'[<<a, s>>] = timed[<<a, s>>]
    BY <1>6, <2>1
  <2> QED
    BY <1>1, <1>4, <2>2, <2>3 DEF Monitored, Arranged
<1>11. Balanced'
  <2>1. arm \in Arms
    BY <1>2 DEF Types
  <2>2. \A s \in Entries : s # at => timed'[<<arm, s>>] = timed[<<arm, s>>]
    BY <1>6, <2>1
  <2>3. \A r \in Range(results) : r.status = "ok" => timed'[<<arm, r.seed>>] = 1
    BY <1>2, <1>5, <2>2 DEF Monitored, Balanced
  <2>4. \A r \in Range(rows) : r.status = "ok" => timed'[<<arm, r.seed>>] = 1
    BY <1>2, <1>5, <2>2 DEF Monitored, Balanced
  <2>5. \A s \in todo \ SeedsOf(rows) : s # at => timed'[<<arm, s>>] = 0
    BY <1>2, <1>5, <2>2 DEF Monitored, Balanced
  <2>6. pc # "launch"
    BY <1>2 DEF Running
  <2> QED
    BY <1>1, <1>3, <1>4, <1>6, <2>3, <2>4, <2>5, <2>6 DEF Balanced, Timed
<1> QED
  BY <1>3, <1>7, <1>8, <1>9, <1>10, <1>11 DEF Monitored

\* Whatever happens around the worker.
LEMMA EventKeeps ==
  ASSUME Monitored, Disturb \/ Stall \/ Spoil
  PROVE  Monitored'
<1>1. /\ UNCHANGED <<vars, phase, arm, jobs, records, active, measuring, abort, timed>>
      /\ active /\ events < MaxEvents /\ events' = events + 1
  BY DEF Disturb, Stall, Spoil, Event
<1>t. Types
  BY TypesAre DEF Monitored
<1>2. /\ Core' /\ TypeOK' /\ Current' = Current /\ (Running' <=> Running)
      /\ Range(jobs)' = Range(jobs) /\ Range(results)' = Range(results)
      /\ Range(rows)' = Range(rows) /\ SeedsOf(rows)' = SeedsOf(rows)
      /\ UNCHANGED <<pc, todo, child, at, doing, half, rows>>
  BY <1>1 DEF vars, Monitored, Core, TypeOK, Answering, Account, Current, Running
<1>3. events' \in 0 .. MaxEvents
  BY <1>t, <1>1, EventsAssumption DEF Types
<1>4. pc \notin {"launch", "done"}
  BY <1>1 DEF Monitored, Hooked
<1>5. Types' /\ Reasons'
  <2>1. CASE Disturb
    <3>1. /\ ~foul /\ foul' = TRUE /\ UNCHANGED <<long, sound>>
          /\ harmed' = (harmed \/ (child = "alive" /\ doing = "timing"))
          /\ crowded' = (crowded \/ measuring # 0)
      BY <2>1 DEF Disturb
    <3>2. harmed' \in BOOLEAN /\ crowded' \in BOOLEAN
      BY <3>1
    <3>3. Types'
      BY <1>t, <1>1, <1>3, <3>1, <3>2 DEF Types
    <3>4. doing = "timing" => measuring # 0
      BY DEF Monitored, Bracketed, Timing
    <3>5. Reasons'
      BY <1>1, <3>1, <3>4 DEF Monitored, Reasons
    <3> QED
      BY <3>3, <3>5
  <2>2. CASE Stall
    BY <1>t, <1>1, <1>3, <2>2 DEF Stall, Types, Monitored, Reasons
  <2>3. CASE Spoil
    BY <1>t, <1>1, <1>3, <2>3 DEF Spoil, Types, Monitored, Reasons
  <2> QED
    BY <2>1, <2>2, <2>3
<1>6. MonitorTypeOK'
  BY <1>2, <1>5, TypesAre DEF MonitorTypeOK, Types
<1>7. Hooked' /\ Bracketed'
  BY <1>1, <1>2, <1>4 DEF Monitored, Hooked, Bracketed
<1>8. Arranged' /\ Balanced'
  BY <1>1, <1>2 DEF Monitored, Arranged, Balanced
<1> QED
  BY <1>2, <1>5, <1>6, <1>7, <1>8 DEF Monitored

\* A finished job has timed every entry of its arm once.
LEMMA UsableIs ==
  ASSUME Monitored, phase = "measuring", Usable
  PROVE  \A s \in Entries : timed[<<arm, s>>] = 1
<1> TAKE s \in Entries
<1>1. PICK i \in DOMAIN results : results[i].seed = s
  BY DEF Usable
<1>2. results[i] \in Range(results) /\ results[i].status = "ok"
  BY DEF Usable, Range
<1> QED
  BY <1>1, <1>2 DEF Monitored, Balanced

\* There are two arms, and a job adds its own to those that are over.
LEMMA JobsAre ==
  ASSUME Monitored, phase = "measuring"
  PROVE  /\ Append(jobs, arm) \in Seq(Arms)
         /\ Range(Append(jobs, arm)) = Range(jobs) \cup {arm}
         /\ jobs = <<>> \/ Len(jobs) = 1
         /\ jobs = <<>> => Range(jobs) = {} /\ Len(Append(jobs, arm)) = 1
         /\ Len(jobs) = 1 => Range(jobs) \cup {arm} = Arms
<1>1. jobs \in Seq(Arms) /\ arm \in Arms /\ arm \notin Range(jobs) /\ Len(jobs) <= 1
  BY TypesAre DEF Monitored, Types, Arranged
<1>2. /\ Append(jobs, arm) \in Seq(Arms) /\ Len(jobs) \in Nat
      /\ DOMAIN jobs = 1 .. Len(jobs)
      /\ DOMAIN Append(jobs, arm) = 1 .. (Len(jobs) + 1)
      /\ \A i \in 1 .. Len(jobs) : Append(jobs, arm)[i] = jobs[i]
      /\ Append(jobs, arm)[Len(jobs) + 1] = arm
      /\ Len(Append(jobs, arm)) = Len(jobs) + 1
  BY <1>1, AppendProperties, LenProperties
<1>3. Range(Append(jobs, arm)) = Range(jobs) \cup {arm}
  <2>1. \A i \in 1 .. (Len(jobs) + 1) : i \in 1 .. Len(jobs) \/ i = Len(jobs) + 1
    BY <1>2
  <2>2. \A i \in 1 .. Len(jobs) : i \in 1 .. (Len(jobs) + 1)
    BY <1>2
  <2>3. Len(jobs) + 1 \in 1 .. (Len(jobs) + 1)
    BY <1>2
  <2> QED
    BY <1>2, <2>1, <2>2, <2>3 DEF Range
<1>4. jobs = <<>> \/ Len(jobs) = 1
  BY <1>1, <1>2, EmptySeq
<1>5. jobs = <<>> => Range(jobs) = {} /\ Len(Append(jobs, arm)) = 1
  BY <1>2 DEF Range
<1>6. ASSUME Len(jobs) = 1 PROVE Range(jobs) \cup {arm} = Arms
  <2>1. jobs[1] \in Range(jobs) /\ Range(jobs) \subseteq Arms
    BY <1>1, <1>2, <1>6, ElementOfSeq DEF Range
  <2>2. jobs[1] # arm /\ {jobs[1], arm} \in SUBSET Arms
    BY <1>1, <2>1
  <2>3. Cardinality({jobs[1], arm}) = 2
    <3>1. IsFiniteSet({arm}) /\ Cardinality({arm}) = 1
      BY FS_Singleton
    <3>2. Cardinality({arm} \cup {jobs[1]}) = 2
      BY <2>2, <3>1, FS_AddElement
    <3>3. {arm} \cup {jobs[1]} = {jobs[1], arm}
      OBVIOUS
    <3> QED
      BY <3>2, <3>3
  <2>4. {jobs[1], arm} = Arms
    BY <2>2, <2>3, ArmsAssumption, FS_Subset
  <2> QED
    BY <1>1, <2>1, <2>4
<1> QED
  BY <1>2, <1>3, <1>4, <1>5, <1>6

\* The end of a job: of the bundle, of the stage, or of the first arm.
LEMMA EndJobKeeps ==
  ASSUME Monitored, EndJob
  PROVE  Monitored'
<1>t. Types /\ Core /\ ~Running /\ phase = "measuring" /\ Ended
  BY TypesAre DEF Monitored, EndJob, Ended, Running
<1>1. UNCHANGED <<kind, completed, fresh, timed_out, child, at, doing, half, rows, written, records,
                  active, measuring, abort, foul, long, sound, harmed, crowded, events, timed>>
  BY DEF EndJob
<1>2. Reasons'
  BY <1>1 DEF Monitored, Reasons
<1>3. ASSUME UNCHANGED <<arm, pc, todo, results>>, jobs' \in Seq(Arms), Arranged',
             phase' \in {"complete", "incomplete", "contaminated", "failed"},
             phase' = "complete" => pc = "done",
             phase' \in {"contaminated", "failed"} =>
                pc = "raised" /\ (phase' = "contaminated" <=> abort = "contaminated")
      PROVE  Monitored'
  <2>1. /\ Core' /\ ~Running' /\ Current' = Current
        /\ Range(results)' = Range(results)
    BY <1>t, <1>1, <1>3 DEF Core, TypeOK, Answering, Account, Current, Running
  <2>2. MonitorTypeOK'
    <3>1. Types'
      BY <1>t, <1>1, <1>3 DEF Types, Outcomes
    <3> QED
      BY <2>1, <3>1, TypesAre DEF MonitorTypeOK, Types, Core
  <2>3. Hooked' /\ Bracketed'
    BY <1>t, <1>1, <1>3, <2>1 DEF Monitored, Hooked, Bracketed
  <2>4. Balanced'
    BY <1>t, <1>1, <1>3, <2>1 DEF Monitored, Balanced
  <2> QED
    BY <1>2, <1>3, <2>1, <2>2, <2>3, <2>4 DEF Monitored
<1>4. CASE pc = "done" /\ Usable /\ jobs' = Append(jobs, arm)
  <2>1. /\ jobs' \in Seq(Arms) /\ Range(jobs') = Range(jobs) \cup {arm}
        /\ \A a \in Range(jobs'), s \in Entries : timed[<<a, s>>] = 1
    BY <1>t, <1>4, JobsAre, UsableIs DEF Monitored, Arranged
  <2>2. CASE Len(jobs) = 1
    <3>1. phase' = "complete" /\ UNCHANGED <<arm, pc, todo, results>>
      BY <1>4, <2>2 DEF EndJob
    <3>2. Range(jobs') = Arms
      BY <1>t, <2>1, <2>2, JobsAre
    <3>3. Arranged'
      BY <1>1, <2>1, <3>1, <3>2 DEF Arranged
    <3> QED
      BY <1>3, <1>4, <2>1, <3>1, <3>3
  <2>3. CASE Len(jobs) # 1
    <3>1. /\ arm' \in Arms \ {arm} /\ pc' = "launch" /\ todo' = Entries /\ results' = <<>>
          /\ phase' = "measuring"
      BY <1>t, <1>4, <2>3 DEF EndJob
    <3>2. Range(jobs) = {} /\ Len(jobs') = 1 /\ arm' \notin Range(jobs')
      BY <1>t, <1>4, <2>1, <2>3, <3>1, JobsAre
    <3>3. Arranged'
      <4>1. \A a \in Arms \ {arm'}, s \in Entries : a \notin Range(jobs') => timed[<<a, s>>] = 0
        BY <1>t, <2>1, <3>1, <3>2 DEF Monitored, Arranged
      <4> QED
        BY <1>1, <2>1, <3>1, <3>2, <4>1 DEF Arranged
    <3>4. \A s \in Entries : timed[<<arm', s>>] = 0
      BY <1>t, <3>1, <3>2 DEF Monitored, Arranged
    <3>5. Core' /\ ~Running'
      <4>1. /\ <<>> \in Seq(Result) /\ SeedsOf(<<>>) = {} /\ Distinct(<<>>) /\ Entries # {}
        BY NAssumption DEF SeedsOf, Distinct, Entries
      <4>2. TypeOK'
        BY <1>t, <1>1, <3>1, <4>1 DEF Core, TypeOK, Places
      <4>3. Answering' /\ ~Running'
        <5>1. child # "alive"
          BY <1>t DEF Core, Answering, Running
        <5> QED
          BY <1>1, <3>1, <5>1 DEF Answering, Running
      <4>4. Account'
        BY <3>1, <4>1 DEF Account
      <4> QED
        BY <4>2, <4>3, <4>4 DEF Core
    <3>6. MonitorTypeOK'
      <4>1. Types'
        BY <1>t, <1>1, <2>1, <3>1 DEF Types
      <4> QED
        BY <3>5, <4>1, TypesAre DEF MonitorTypeOK, Types, Core
    <3>7. Hooked' /\ Bracketed'
      BY <1>1, <1>4, <3>1, <3>5 DEF Monitored, Hooked, Bracketed
    <3>8. Balanced'
      <4>1. Range(results') = {}
        BY <3>1 DEF Range
      <4> QED
        BY <1>1, <3>1, <3>4, <3>5, <4>1 DEF Balanced
    <3> QED
      BY <1>2, <3>3, <3>5, <3>6, <3>7, <3>8 DEF Monitored
  <2> QED
    BY <2>2, <2>3
<1>5. CASE /\ pc = "done" /\ phase' = "incomplete"
           /\ UNCHANGED <<arm, jobs, pc, todo, results>>
  <2>1. Arranged'
    BY <1>1, <1>5 DEF Monitored, Arranged
  <2> QED
    BY <1>t, <1>3, <1>5, <2>1 DEF Types
<1>6. CASE /\ pc = "raised"
           /\ phase' = IF abort = "contaminated" THEN "contaminated" ELSE "failed"
           /\ UNCHANGED <<arm, jobs, pc, todo, results>>
  <2>1. Arranged'
    BY <1>1, <1>6 DEF Monitored, Arranged
  <2> QED
    BY <1>t, <1>3, <1>6, <2>1 DEF Types
<1> QED
  BY <1>4, <1>5, <1>6 DEF EndJob

\* The bundle is admitted or not.
LEMMA ValidateKeeps ==
  ASSUME Monitored, Validate
  PROVE  Monitored'
<1>1. /\ phase = "complete" /\ phase' \in {"admitted", "rejected"}
      /\ UNCHANGED <<vars, arm, jobs, records, active, measuring, abort, foul, long, sound, harmed,
                     crowded, events, timed>>
  BY DEF Validate
<1>2. pc = "done"
  BY <1>1 DEF Monitored, Hooked
<1>3. /\ Core' /\ ~Running /\ ~Running' /\ UNCHANGED <<pc, doing>>
      /\ Range(jobs)' = Range(jobs)
  BY <1>1, <1>2 DEF vars, Monitored, Core, TypeOK, Answering, Account, Running
<1>4. MonitorTypeOK'
  BY <1>1, <1>3, TypesAre DEF Monitored, Types, Outcomes, MonitorTypeOK, Core
<1>5. Hooked' /\ Bracketed' /\ Reasons' /\ Arranged' /\ Balanced'
  BY <1>1, <1>2, <1>3 DEF Monitored, Hooked, Bracketed, Reasons, Arranged, Balanced
<1> QED
  BY <1>3, <1>4, <1>5 DEF Monitored

\* Every step keeps the invariant.
LEMMA NextMonitored ==
  ASSUME Monitored, [MonitorNext]_allVars
  PROVE  Monitored'
<1>1. CASE Prepare \/ MonitoredLaunch
  BY <1>1, PrepareKeeps, LaunchKeeps
<1>2. CASE abort = "none" /\ (Poll \/ Sleep \/ Timeout \/ ExitSeen) /\ UNCHANGED monitor
  BY <1>2, WaitingKeeps
<1>3. CASE Progress \/ (\E event \in {"B", "E"} : Boundary(event))
  BY <1>3, ProgressKeeps, BoundaryKeeps
<1>4. CASE Abandon \/ MonitoredCollect
  BY <1>4, AbandonKeeps, MonitoredCollectKeeps
<1>5. CASE EndJob \/ Validate
  BY <1>5, EndJobKeeps, ValidateKeeps
<1>6. CASE (Boot \/ BeginRow \/ FinishRow \/ Exit) /\ UNCHANGED monitor
  BY <1>6, WaitingKeeps, FinishKeeps
<1>7. CASE Setup \/ TimedCalls
  BY <1>7, SetupKeeps, TimedKeeps
<1>8. CASE Disturb \/ Stall \/ Spoil
  BY <1>8, EventKeeps
<1>9. CASE UNCHANGED allVars
  <2>1. UNCHANGED <<vars, monitor>>
    BY <1>9 DEF allVars
  <2>2. Core' /\ (Running' <=> Running) /\ UNCHANGED <<pc, todo, results, at, doing, half, rows>>
    BY <2>1 DEF vars, Monitored, Core, TypeOK, Answering, Account, Running
  <2> QED
    BY <2>1, <2>2, PlainKeeps
<1> QED
  BY <1>1, <1>2, <1>3, <1>4, <1>5, <1>6, <1>7, <1>8, <1>9
     DEF MonitorNext, MonitoredWatching, MonitoredWorking

-----------------------------------------------------------------------------
(* The theorems *)

\* Every record, window, measurement and local of the monitored stage has its type.
THEOREM MonitorTypeCorrect == MonitorSpec => []MonitorTypeOK
<1>1. Monitored => MonitorTypeOK
  BY DEF Monitored
<1> QED
  BY InitMonitored, NextMonitored, <1>1, PTL DEF MonitorSpec

\* AdmittedIsQuiet: no foreign activity fell on a timed call of a bundle that cost_evidence
\* admits, for any number of disturbances.
THEOREM AdmittedBundlesAreQuiet == MonitorSpec => []AdmittedIsQuiet
<1>1. Monitored => AdmittedIsQuiet
  BY DEF Monitored, Hooked, Reasons, AdmittedIsQuiet
<1> QED
  BY InitMonitored, NextMonitored, <1>1, PTL DEF MonitorSpec

\* AdmittedIsBalanced: in an admitted bundle every entry of both arms was timed to the end once,
\* whatever workers were replaced.
THEOREM AdmittedBundlesAreBalanced == MonitorSpec => []AdmittedIsBalanced
<1>1. Monitored => AdmittedIsBalanced
  <2> SUFFICES ASSUME Monitored, phase = "admitted", NEW a \in Arms, NEW s \in Entries
               PROVE  timed[<<a, s>>] = 1
    BY DEF AdmittedIsBalanced
  <2> QED
    BY DEF Monitored, Arranged
<1> QED
  BY InitMonitored, NextMonitored, <1>1, PTL DEF MonitorSpec

\* ContaminationIsMeasured: a worker is stopped for contamination only if foreign activity fell
\* between the two samples of a measurement.
THEOREM StoppedForActivity == MonitorSpec => []ContaminationIsMeasured
<1>1. Monitored => ContaminationIsMeasured
  BY DEF Monitored, Hooked, Reasons, ContaminationIsMeasured
<1> QED
  BY InitMonitored, NextMonitored, <1>1, PTL DEF MonitorSpec

\* FailureIsReal: the monitor gives up only on masks and counters.
THEOREM FailuresAreReal == MonitorSpec => []FailureIsReal
<1>1. Monitored => FailureIsReal
  <2> SUFFICES ASSUME Monitored, phase = "failed", records # <<>> PROVE sound # "yes"
    BY DEF FailureIsReal
  <2>1. pc = "raised" /\ abort \notin {"none", "contaminated"}
    BY DEF Monitored, Hooked
  <2>2. abort \in {"none", "contaminated", "failure"}
    BY DEF Monitored, MonitorTypeOK
  <2> QED
    BY <2>1, <2>2 DEF Monitored, Reasons
<1> QED
  BY InitMonitored, NextMonitored, <1>1, PTL DEF MonitorSpec
=============================================================================
