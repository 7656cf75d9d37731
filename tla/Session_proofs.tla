--------------------------- MODULE Session_proofs ---------------------------
(***************************************************************************)
(* Theorems about Session, for any number of processes, harnesses and      *)
(* outcomes, and for any bounds: every variable has its type, a finished   *)
(* stage is never written again, and nothing is cleaned but a session that *)
(* is decided as it stands.                                                *)
(*                                                                         *)
(* The last two follow from one inductive invariant.  Guarded says which   *)
(* lock a process holds at which label; Open, what an admitted attempt may *)
(* rely on until it ends; Reader, what a decide that meets clean.json has  *)
(* read.                                                                   *)
(***************************************************************************)
EXTENDS Session, TLAPS

USE DEF files, locks, local, vars

-----------------------------------------------------------------------------
(* The pure judgements have their types. *)

\* The verdict of any records is one of the five verdicts EXIT_CODES maps.
LEMMA VerdictType == \A recs, ids : verdict(recs, ids) \in VERDICTS
  BY DEF verdict, VERDICTS

\* The gate of any records is one of the three states quality records.
LEMMA GateType == \A b, recs, q, i : gate(b, recs, q, i) \in Gates
  BY DEF gate, Gates

\* The verdict of a session is one of the five verdicts.
LEMMA SessionVerdictType == \A states, rows : SessionVerdict(states, rows) \in VERDICTS
  BY VerdictType DEF SessionVerdict, VERDICTS

\* A record of a grade, or a crash record, tagged with an attempt is a stored row.
LEMMA TagType ==
  /\ \A r \in Record, n \in Nat : Tag(r, n) \in Row
  /\ \A s \in Stages, n \in Nat : Tag(Crash(s), n) \in Row
  BY DEF Tag, Row, Record, Crash, record, Ids, Names, KINDS, RESULTS, Subjects

\* Replacing records keeps a set of rows a set of rows.
LEMMA PutType ==
  ASSUME NEW rows \in SUBSET Row, NEW new \in SUBSET Row PROVE Put(rows, new) \in SUBSET Row
  BY DEF Put

\* Reading committed evidence yields rows of the file that was read.
LEMMA CommittedType ==
  \A st, rows : committed_evidence(st, rows) \subseteq rows
  BY DEF committed_evidence

-----------------------------------------------------------------------------
(* Type correctness *)

\* A process that is gone leaves locks and memory of the right types.
LEMMA GoneType ==
  ASSUME TypeOK, NEW p \in Procs, Gone(p)
  PROVE  /\ sharers' \subseteq Procs
         /\ exclusive' \in Procs \cup {None}
         /\ stageLock' \in [Stages -> Procs \cup {None}]
         /\ decideLock' \in Procs \cup {None}
         /\ pc' \in [Procs -> Labels]
         /\ cmd' \in [Procs -> Stages \cup {"decide", "clean", "amend", "none"}]
         /\ harness' \in [Procs -> Harnesses \cup {None}]
         /\ records' \in [Procs -> SUBSET Row]
         /\ fate' \in [Procs -> {"none", "complete", "failed", "noisy", "blocked"}]
         /\ idx' \in [Procs -> 1..Len(STAGE_ORDER)]
         /\ snap' \in [Procs -> [Stages -> StateFile]]
         /\ seen' \in [Procs -> [Stages -> SUBSET Row]]
<1>1. NoSnap \in [Stages -> StateFile] /\ NoEvidence \in [Stages -> SUBSET Row]
  BY DEF NoSnap, NoEvidence, NotStarted, StateFile, Statuses, FINAL, UNFINISHED, Gates
<1>2. 1 \in 1..Len(STAGE_ORDER)
  BY DEF STAGE_ORDER
<1> QED
  BY <1>1, <1>2 DEF Gone, TypeOK, Labels, StageLabels

\* Which command a process can be executing at a label.
Control ==
    \A p \in Procs :
        /\ pc[p] \in StageLabels \cup {"lifecycle", "dircheck", "mkdir"} => cmd[p] \in Stages
        /\ pc[p] \in StageLabels \cup {"lifecycle", "dircheck", "mkdir"} => harness[p] \in Harnesses
        /\ pc[p] \in {"commit", "final"} => fate[p] \in {"complete", "failed", "noisy"}

Typed == TypeOK /\ Control

\* An invocation that ends without writing a file keeps every type.
LEMMA ExitType ==
  ASSUME Typed, NEW p \in Procs, Gone(p), UNCHANGED files, kills' \in Nat
  PROVE  Typed'
<1>1. TypeOK'
  BY GoneType DEF Typed, TypeOK
<1>2. Control'
  BY DEF Gone, Typed, TypeOK, Control, StageLabels, AttemptLabels
<1> QED
  BY <1>1, <1>2 DEF Typed

\* Every step of a stage keeps every type and the control structure.
LEMMA StageStepTyped ==
  ASSUME Typed, NEW p \in Procs, StageStep(p)
  PROVE  Typed'
<1>a. TypeOK /\ Control /\ kills \in Nat
  BY DEF Typed, TypeOK
<1>1. CASE CheckSessionDirectory(p)
  <2>1. CASE dir \in {"absent", "session"}
    <3>1. TypeOK'
      BY <1>1, <1>a, <2>1 DEF CheckSessionDirectory, Goto, TypeOK, Control, Labels, StageLabels, AttemptLabels
    <3>2. Control'
      BY <1>1, <1>a, <2>1 DEF CheckSessionDirectory, Goto, TypeOK, Control, Labels, StageLabels, AttemptLabels
    <3> QED
      BY <3>1, <3>2 DEF Typed
  <2>2. CASE dir \in {"empty", "files"}
    <3>1. Gone(p) /\ UNCHANGED files /\ kills' \in Nat
      BY <1>1, <1>a, <2>2 DEF CheckSessionDirectory, Exit
    <3> QED
      BY <3>1, ExitType
  <2> QED
    BY <1>1, <2>1, <2>2 DEF CheckSessionDirectory
<1>2. CASE MakeDirectory(p)
  <2>8. TypeOK'
    BY <1>2, <1>a DEF MakeDirectory, Goto, TypeOK, Control, Labels, StageLabels, AttemptLabels
  <2>9. Control'
    BY <1>2, <1>a DEF MakeDirectory, Goto, TypeOK, Control, Labels, StageLabels, AttemptLabels
  <2> QED
    BY <2>8, <2>9 DEF Typed
<1>3. CASE LockLifecycle(p)
  <2>1. CASE exclusive = None
    <3>1. TypeOK'
      BY <1>3, <1>a, <2>1 DEF LockLifecycle, Goto, TypeOK, Control, Labels, StageLabels, AttemptLabels
    <3>2. Control'
      BY <1>3, <1>a, <2>1 DEF LockLifecycle, Goto, TypeOK, Control, Labels, StageLabels, AttemptLabels
    <3> QED
      BY <3>1, <3>2 DEF Typed
  <2>2. CASE exclusive # None
    <3>1. Gone(p) /\ UNCHANGED files /\ kills' \in Nat
      BY <1>3, <1>a, <2>2 DEF LockLifecycle, Exit
    <3> QED
      BY <3>1, ExitType
  <2> QED
    BY <1>3, <2>1, <2>2 DEF LockLifecycle
<1>4. CASE LockStage(p)
  <2>1. CASE stageLock[cmd[p]] = None
    <3>a. stageLock' \in [Stages -> Procs \cup {None}]
      <4>1. stageLock' = [stageLock EXCEPT ![cmd[p]] = p]
        BY <1>4, <2>1 DEF LockStage
      <4> QED
        BY <4>1, <1>a DEF TypeOK
    <3>1. TypeOK'
      BY <1>4, <1>a, <2>1, <3>a DEF LockStage, Goto, TypeOK, Labels, StageLabels, AttemptLabels
    <3>2. Control'
      BY <1>4, <1>a, <2>1 DEF LockStage, Goto, TypeOK, Control, Labels, StageLabels, AttemptLabels
    <3> QED
      BY <3>1, <3>2 DEF Typed
  <2>2. CASE stageLock[cmd[p]] # None
    <3>1. Gone(p) /\ UNCHANGED files /\ kills' \in Nat
      BY <1>4, <1>a, <2>2 DEF LockStage, Exit
    <3> QED
      BY <3>1, ExitType
  <2> QED
    BY <1>4, <2>1, <2>2 DEF LockStage
<1>5. CASE EndUnstarted(p)
  <2>1. Gone(p) /\ UNCHANGED files /\ kills' \in Nat
    BY <1>5, <1>a DEF EndUnstarted, Exit
  <2> QED
    BY <2>1, ExitType
<1>6. CASE EnvironmentRefuses(p)
  <2>1. Gone(p) /\ UNCHANGED files /\ kills' \in Nat
    BY <1>6, <1>a DEF EnvironmentRefuses, Exit
  <2> QED
    BY <2>1, ExitType
<1>7. CASE Skip(p)
  <2>1. cmd[p] \in Stages /\ harness[p] \in Harnesses
    BY <1>7, <1>a DEF Skip, Control, Labels, StageLabels, AttemptLabels
  <2>2. state[cmd[p]] \in StateFile
    BY <2>1, <1>a DEF TypeOK
  <2>3. state' \in [Stages -> StateFile]
    BY <1>7, <1>a, <2>1, <2>2 DEF Skip, TypeOK, StateFile, Statuses, FINAL, UNFINISHED, Gates
  <2>4. TypeOK'
    BY <1>7, <1>a, <2>3, GoneType DEF Skip, Exit, TypeOK
  <2>5. Control'
    BY <1>7, <1>a DEF Skip, Exit, Gone, TypeOK, Control, Labels, StageLabels, AttemptLabels
  <2> QED
    BY <2>4, <2>5 DEF Typed
<1>8. CASE Admit(p)
  <2>1. evidence[cmd[p]] \in SUBSET Row
    BY <1>8, <1>a DEF Admit, TypeOK, Control, StageLabels
  <2>2. {r \in evidence[cmd[p]] : ~IsCrash(r)} \in SUBSET Row
    BY <2>1
  <2>8. TypeOK'
    BY <1>8, <1>a, <2>2 DEF Admit, Goto, TypeOK, Control, Labels, StageLabels, AttemptLabels
  <2>9. Control'
    BY <1>8, <1>a DEF Admit, Goto, TypeOK, Control, Labels, StageLabels, AttemptLabels
  <2> QED
    BY <2>8, <2>9 DEF Typed
<1>9. CASE ArchiveProfile(p)
  <2>8. TypeOK'
    BY <1>9, <1>a DEF ArchiveProfile, Goto, TypeOK, Control, Labels, StageLabels, AttemptLabels
  <2>9. Control'
    BY <1>9, <1>a DEF ArchiveProfile, Goto, TypeOK, Control, Labels, StageLabels, AttemptLabels
  <2> QED
    BY <2>8, <2>9 DEF Typed
<1>10. CASE WriteRun(p)
  <2>8. TypeOK'
    BY <1>10, <1>a DEF WriteRun, Goto, TypeOK, Control, Labels, StageLabels, AttemptLabels
  <2>9. Control'
    BY <1>10, <1>a DEF WriteRun, Goto, TypeOK, Control, Labels, StageLabels, AttemptLabels
  <2> QED
    BY <2>8, <2>9 DEF Typed
<1>11. CASE PrepareRefuses(p)
  <2>1. Gone(p) /\ UNCHANGED files /\ kills' \in Nat
    BY <1>11, <1>a DEF PrepareRefuses, Exit
  <2> QED
    BY <2>1, ExitType
<1>12. CASE Prepare(p)
  <2>8. TypeOK'
    BY <1>12, <1>a DEF Prepare, Goto, TypeOK, Control, Labels, StageLabels, AttemptLabels
  <2>9. Control'
    BY <1>12, <1>a DEF Prepare, Goto, TypeOK, Control, Labels, StageLabels, AttemptLabels
  <2> QED
    BY <2>8, <2>9 DEF Typed
<1>13. CASE WriteRunning(p)
  <2>1. cmd[p] \in Stages /\ harness[p] \in Harnesses
    BY <1>13, <1>a DEF WriteRunning, Control, Labels, StageLabels, AttemptLabels
  <2>2. state[cmd[p]] \in StateFile
    BY <2>1, <1>a DEF TypeOK
  <2>3. state' \in [Stages -> StateFile]
    BY <1>13, <1>a, <2>1, <2>2 DEF WriteRunning, TypeOK, StateFile, Statuses, FINAL, UNFINISHED, Gates
  <2>4. TypeOK'
    BY <1>13, <1>a, <2>3 DEF WriteRunning, Goto, TypeOK, Labels, StageLabels, AttemptLabels
  <2>5. Control'
    BY <1>13, <1>a DEF WriteRunning, Goto, TypeOK, Control, Labels, StageLabels, AttemptLabels
  <2> QED
    BY <2>4, <2>5 DEF Typed
<1>14. CASE OpenEvidence(p)
  <2>1. records[p] \in SUBSET Row
    BY <1>a DEF TypeOK
  <2>6. records' \in [Procs -> SUBSET Row] /\ evidence' \in [Stages -> SUBSET Row]
    BY <1>14, <1>a, <2>1 DEF OpenEvidence, Save, TypeOK
  <2>8. TypeOK'
    BY <1>14, <1>a, <2>6 DEF OpenEvidence, Goto, TypeOK, Labels, StageLabels, AttemptLabels
  <2>9. Control'
    BY <1>14, <1>a DEF OpenEvidence, Goto, Save, TypeOK, Control, Labels, StageLabels, AttemptLabels
  <2> QED
    BY <2>8, <2>9 DEF Typed
<1>15. CASE BodyBegin(p)
  <2>1. records[p] \in SUBSET Row
    BY <1>a DEF TypeOK
  <2>6. records' \in [Procs -> SUBSET Row] /\ evidence' \in [Stages -> SUBSET Row]
    BY <1>15, <1>a, <2>1 DEF BodyBegin, Save, TypeOK
  <2>8. TypeOK'
    BY <1>15, <1>a, <2>6 DEF BodyBegin, Goto, TypeOK, Labels, StageLabels, AttemptLabels
  <2>9. Control'
    BY <1>15, <1>a DEF BodyBegin, Goto, Save, TypeOK, Control, Labels, StageLabels, AttemptLabels
  <2> QED
    BY <2>8, <2>9 DEF Typed
<1>16. CASE BodyRecord(p)
  <2>1. records[p] \in SUBSET Row
    BY <1>a DEF TypeOK
  <2>2. cmd[p] \in Stages
    BY <1>16, <1>a DEF BodyRecord, Control, StageLabels, AttemptLabels
  <2>3. Attempt(p) \in Nat
    BY <2>2, <1>a DEF Attempt, TypeOK, StateFile
  <2>4. PICK g \in Grades[cmd[p]] : \E r \in g : Save(p, Put(records[p], {Tag(r, Attempt(p))}))
    BY <1>16 DEF BodyRecord
  <2>r. PICK r \in g : Save(p, Put(records[p], {Tag(r, Attempt(p))}))
    BY <2>4
  <2>5. Put(records[p], {Tag(r, Attempt(p))}) \in SUBSET Row
    <3>1. r \in Record
      BY <2>2, GradesAssumption
    <3>2. {Tag(r, Attempt(p))} \in SUBSET Row
      BY <3>1, <2>3, TagType
    <3> QED
      BY <3>2, <2>1, PutType
  <2>6. records' \in [Procs -> SUBSET Row] /\ evidence' \in [Stages -> SUBSET Row]
    BY <1>16, <1>a, <2>r, <2>5 DEF BodyRecord, Save, TypeOK
  <2>8. TypeOK'
    BY <1>16, <1>a, <2>6 DEF BodyRecord, Goto, TypeOK, Labels, StageLabels, AttemptLabels
  <2>9. Control'
    BY <1>16, <1>a DEF BodyRecord, Goto, Save, TypeOK, Control, Labels, StageLabels, AttemptLabels
  <2> QED
    BY <2>8, <2>9 DEF Typed
<1>17. CASE BodyDone(p)
  <2>1. records[p] \in SUBSET Row
    BY <1>a DEF TypeOK
  <2>2. cmd[p] \in Stages
    BY <1>17, <1>a DEF BodyDone, Control, StageLabels, AttemptLabels
  <2>3. Attempt(p) \in Nat
    BY <2>2, <1>a DEF Attempt, TypeOK, StateFile
  <2>4. PICK g \in Grades[cmd[p]] : Save(p, Put(records[p], Tagged(p, g)))
    BY <1>17 DEF BodyDone
  <2>5. Put(records[p], Tagged(p, g)) \in SUBSET Row
    <3>1. g \in SUBSET Record
      BY <2>2, GradesAssumption
    <3>2. Tagged(p, g) \in SUBSET Row
      BY <3>1, <2>3, TagType DEF Tagged
    <3> QED
      BY <3>2, <2>1, PutType
  <2>6. records' \in [Procs -> SUBSET Row] /\ evidence' \in [Stages -> SUBSET Row]
    BY <1>17, <1>a, <2>4, <2>5 DEF BodyDone, Save, TypeOK
  <2>8. TypeOK'
    BY <1>17, <1>a, <2>6 DEF BodyDone, Goto, TypeOK, Labels, StageLabels, AttemptLabels
  <2>9. Control'
    BY <1>17, <1>a DEF BodyDone, Goto, Save, TypeOK, Control, Labels, StageLabels, AttemptLabels
  <2> QED
    BY <2>8, <2>9 DEF Typed
<1>18. CASE BodyFails(p)
  <2>1. records[p] \in SUBSET Row
    BY <1>a DEF TypeOK
  <2>2. cmd[p] \in Stages
    BY <1>18, <1>a DEF BodyFails, Control, StageLabels, AttemptLabels
  <2>3. Attempt(p) \in Nat
    BY <2>2, <1>a DEF Attempt, TypeOK, StateFile
  <2>5. Put(records[p], {Tag(Crash(cmd[p]), Attempt(p))}) \in SUBSET Row
    <3>1. {Tag(Crash(cmd[p]), Attempt(p))} \in SUBSET Row
      BY <2>2, <2>3, TagType
    <3> QED
      BY <3>1, <2>1, PutType
  <2>6. records' \in [Procs -> SUBSET Row] /\ evidence' \in [Stages -> SUBSET Row]
    BY <1>18, <1>a, <2>5 DEF BodyFails, Save, TypeOK
  <2>8. TypeOK'
    BY <1>18, <1>a, <2>6 DEF BodyFails, Goto, TypeOK, Labels, StageLabels, AttemptLabels
  <2>9. Control'
    BY <1>18, <1>a DEF BodyFails, Goto, Save, TypeOK, Control, Labels, StageLabels, AttemptLabels
  <2> QED
    BY <2>8, <2>9 DEF Typed
<1>19. CASE BodyNoisy(p)
  <2>8. TypeOK'
    BY <1>19, <1>a DEF BodyNoisy, Goto, TypeOK, Control, Labels, StageLabels, AttemptLabels
  <2>9. Control'
    BY <1>19, <1>a DEF BodyNoisy, Goto, TypeOK, Control, Labels, StageLabels, AttemptLabels
  <2> QED
    BY <2>8, <2>9 DEF Typed
<1>20. CASE CommitEvidence(p)
  <2>1. records[p] \in SUBSET Row
    BY <1>a DEF TypeOK
  <2>6. records' \in [Procs -> SUBSET Row] /\ evidence' \in [Stages -> SUBSET Row]
    BY <1>20, <1>a, <2>1 DEF CommitEvidence, Save, TypeOK
  <2>8. TypeOK'
    BY <1>20, <1>a, <2>6 DEF CommitEvidence, Goto, TypeOK, Labels, StageLabels, AttemptLabels
  <2>9. Control'
    BY <1>20, <1>a DEF CommitEvidence, Goto, Save, TypeOK, Control, Labels, StageLabels, AttemptLabels
  <2> QED
    BY <2>8, <2>9 DEF Typed
<1>21. CASE WriteFinal(p)
  <2>1. cmd[p] \in Stages /\ fate[p] \in Statuses
    BY <1>21, <1>a DEF WriteFinal, Control, Labels, StageLabels, AttemptLabels, Statuses, FINAL, UNFINISHED
  <2>2. state[cmd[p]] \in StateFile
    BY <2>1, <1>a DEF TypeOK
  <2>3. PICK g \in Gates : state' = [state EXCEPT ![cmd[p]].status = fate[p], ![cmd[p]].gate = g]
    <3>1. "none" \in Gates
      BY DEF Gates
    <3> QED
      BY <1>21, <3>1, GateType DEF WriteFinal
  <2>4. state' \in [Stages -> StateFile]
    BY <1>a, <2>1, <2>2, <2>3 DEF TypeOK, StateFile
  <2>5. TypeOK'
    BY <1>21, <1>a, <2>4, GoneType DEF WriteFinal, Exit, TypeOK
  <2>6. Control'
    BY <1>21, <1>a DEF WriteFinal, Exit, Gone, TypeOK, Control, Labels, StageLabels, AttemptLabels
  <2> QED
    BY <2>5, <2>6 DEF Typed
<1> QED
  BY <1>1, <1>2, <1>3, <1>4, <1>5, <1>6, <1>7, <1>8, <1>9, <1>10, <1>11, <1>12, <1>13, <1>14, <1>15, <1>16, <1>17, <1>18, <1>19, <1>20, <1>21 DEF StageStep

\* Every step of decide keeps every type and the control structure.
LEMMA DecideStepTyped ==
  ASSUME Typed, NEW p \in Procs, DecideStep(p)
  PROVE  Typed'
<1>a. TypeOK /\ Control /\ kills \in Nat
  BY DEF Typed, TypeOK
<1>b. idx[p] \in 1..5 /\ Len(STAGE_ORDER) = 5 /\ At(p) \in Stages
  BY <1>a DEF TypeOK, STAGE_ORDER, Stages, At
<1>c. NoSnap \in [Stages -> StateFile] /\ NoEvidence \in [Stages -> SUBSET Row]
  BY DEF NoSnap, NoEvidence, NotStarted, StateFile, Statuses, FINAL, UNFINISHED, Gates
<1>d. ASSUME NEW next \in Labels, Advance(p, next)
      PROVE  idx' \in [Procs -> 1..Len(STAGE_ORDER)] /\ pc' \in [Procs -> Labels]
  BY <1>a, <1>b, <1>d DEF Advance, Goto, TypeOK
<1>1. CASE DecideShared(p)
  <2>1. TypeOK'
    BY <1>1, <1>a DEF DecideShared, Goto, TypeOK, Labels
  <2>2. Control'
    BY <1>1, <1>a DEF DecideShared, Goto, Advance, TypeOK, Control, Labels, StageLabels, AttemptLabels
  <2> QED
    BY <2>1, <2>2 DEF Typed
<1>2. CASE DecideLock(p)
  <2>1. TypeOK'
    BY <1>2, <1>a DEF DecideLock, Goto, TypeOK, Labels
  <2>2. Control'
    BY <1>2, <1>a DEF DecideLock, Goto, Advance, TypeOK, Control, Labels, StageLabels, AttemptLabels
  <2> QED
    BY <2>1, <2>2 DEF Typed
<1>3. CASE ReadState(p)
  <2>1. idx' \in [Procs -> 1..Len(STAGE_ORDER)] /\ pc' \in [Procs -> Labels]
    BY <1>3, <1>d DEF ReadState, Labels
  <2>2. snap' \in [Procs -> [Stages -> StateFile]]
    BY <1>3, <1>a, <1>b DEF ReadState, TypeOK
  <2>3. TypeOK'
    BY <1>3, <1>a, <2>1, <2>2 DEF ReadState, TypeOK
  <2>4. Control'
    BY <1>3, <1>a DEF ReadState, Goto, Advance, TypeOK, Control, Labels, StageLabels, AttemptLabels
  <2> QED
    BY <2>3, <2>4 DEF Typed
<1>4. CASE ReadEvidence(p)
  <2>1. idx' \in [Procs -> 1..Len(STAGE_ORDER)] /\ pc' \in [Procs -> Labels]
    BY <1>4, <1>d DEF ReadEvidence, Labels
  <2>a. committed_evidence(snap[p][At(p)], evidence[At(p)]) \in SUBSET Row
    BY <1>a, <1>b, CommittedType DEF TypeOK
  <2>2. seen' \in [Procs -> [Stages -> SUBSET Row]]
    BY <1>4, <1>a, <1>b, <2>a DEF ReadEvidence, TypeOK
  <2>3. TypeOK'
    BY <1>4, <1>a, <2>1, <2>2 DEF ReadEvidence, TypeOK
  <2>4. Control'
    BY <1>4, <1>a DEF ReadEvidence, Goto, Advance, TypeOK, Control, Labels, StageLabels, AttemptLabels
  <2> QED
    BY <2>3, <2>4 DEF Typed
<1>5. CASE Rehash(p)
  <2>1. idx' \in [Procs -> 1..Len(STAGE_ORDER)] /\ pc' \in [Procs -> Labels]
    BY <1>5, <1>d DEF Rehash, Labels
  <2>3. TypeOK'
    BY <1>5, <1>a, <2>1 DEF Rehash, TypeOK
  <2>4. Control'
    BY <1>5, <1>a DEF Rehash, Goto, Advance, TypeOK, Control, Labels, StageLabels, AttemptLabels
  <2> QED
    BY <2>3, <2>4 DEF Typed
<1>6. CASE RehashDiffers(p)
  <2>1. TypeOK'
    BY <1>6, <1>a, <1>b, <1>c DEF RehashDiffers, Goto, TypeOK, Labels
  <2>2. Control'
    BY <1>6, <1>a DEF RehashDiffers, Goto, Advance, TypeOK, Control, Labels, StageLabels, AttemptLabels
  <2> QED
    BY <2>1, <2>2 DEF Typed
<1>7. CASE WriteDecision(p)
  <2>1. SessionVerdict(snap[p], seen[p]) \in VERDICTS
    BY SessionVerdictType
  <2>2. decision' \in [states: [Stages -> StateFile], evidence: [Stages -> SUBSET Row],
                       verdict: VERDICTS \cup {"none"}]
    BY <1>7, <1>a, <2>1 DEF WriteDecision, TypeOK
  <2>3. TypeOK'
    BY <1>7, <1>a, <1>c, <2>2 DEF WriteDecision, Goto, TypeOK, Labels
  <2>4. Control'
    BY <1>7, <1>a DEF WriteDecision, Goto, TypeOK, Control, Labels, StageLabels, AttemptLabels
  <2> QED
    BY <2>3, <2>4 DEF Typed
<1>8. CASE AfterDecide(p)
  <2>1. CASE CleanupBlocked(p)
    <3>1. Gone(p) /\ UNCHANGED files /\ kills' \in Nat
      BY <1>8, <1>a, <2>1 DEF AfterDecide, Exit
    <3> QED
      BY <3>1, ExitType
  <2>2. CASE ~CleanupBlocked(p)
    <3>1. TypeOK'
      BY <1>8, <1>a, <2>2 DEF AfterDecide, Goto, TypeOK, Labels
    <3>2. Control'
      BY <1>8, <1>a, <2>2 DEF AfterDecide, Goto, TypeOK, Control, Labels, StageLabels, AttemptLabels
    <3> QED
      BY <3>1, <3>2 DEF Typed
  <2> QED
    BY <2>1, <2>2
<1> QED
  BY <1>1, <1>2, <1>3, <1>4, <1>5, <1>6, <1>7, <1>8 DEF DecideStep

\* Taking the session alone, or failing to, keeps every type and the control structure.
LEMMA LockExclusiveTyped ==
  ASSUME Typed, NEW p \in Procs, NEW next \in {"c_check", "a_write"}, LockExclusive(p, next)
  PROVE  Typed'
<1>a. TypeOK /\ Control /\ kills \in Nat
  BY DEF Typed, TypeOK
<1>1. CASE sharers = {} /\ exclusive = None
  <2>a. /\ exclusive' = p /\ Goto(p, next) /\ next \in Labels
        /\ UNCHANGED <<files, sharers, stageLock, decideLock>>
        /\ UNCHANGED <<cmd, harness, records, fate, idx, snap, seen, kills>>
    BY <1>1 DEF LockExclusive, Labels
  <2>1. TypeOK'
    BY <2>a, <1>a DEF Goto, TypeOK
  <2>2. Control'
    BY <2>a, <1>a DEF Goto, TypeOK, Control, Labels, StageLabels, AttemptLabels
  <2> QED
    BY <2>1, <2>2 DEF Typed
<1>2. CASE ~(sharers = {} /\ exclusive = None)
  <2>1. Gone(p) /\ UNCHANGED files /\ kills' \in Nat
    BY <1>2, <1>a DEF LockExclusive, Exit
  <2> QED
    BY <2>1, ExitType
<1> QED
  BY <1>1, <1>2

\* Every step of clean and of amend keeps every type and the control structure.
LEMMA OwnerStepTyped ==
  ASSUME Typed, NEW p \in Procs, CleanStep(p) \/ AmendStep(p)
  PROVE  Typed'
<1>a. TypeOK /\ Control /\ kills \in Nat
  BY DEF Typed, TypeOK
<1>1. CASE CleanLock(p) \/ AmendLock(p)
  BY <1>1, LockExclusiveTyped DEF CleanLock, AmendLock
<1>2. CASE CleanRefused(p)
  <2>1. Gone(p) /\ UNCHANGED files /\ kills' \in Nat
    BY <1>2, <1>a DEF CleanRefused, Exit
  <2> QED
    BY <2>1, ExitType
<1>3. CASE CleanPlan(p)
  <2>1. clean' \in {"none", "cleaning", "complete"} /\ planned' \subseteq Bulk
    BY <1>3, <1>a DEF CleanPlan, TypeOK
  <2>2. TypeOK'
    BY <1>3, <1>a, <2>1 DEF CleanPlan, Goto, TypeOK, Labels
  <2>3. Control'
    BY <1>3, <1>a DEF CleanPlan, Goto, TypeOK, Control, Labels, StageLabels, AttemptLabels
  <2> QED
    BY <2>2, <2>3 DEF Typed
<1>4. CASE CleanDelete(p)
  <2>1. TypeOK'
    BY <1>4, <1>a DEF CleanDelete, TypeOK
  <2>2. Control'
    BY <1>4, <1>a DEF CleanDelete, Control
  <2> QED
    BY <2>1, <2>2 DEF Typed
<1>5. CASE CleanDone(p)
  <2>1. TypeOK'
    BY <1>5, <1>a, GoneType DEF CleanDone, Exit, TypeOK
  <2>2. Control'
    BY <1>5, <1>a DEF CleanDone, Exit, Gone, TypeOK, Control, Labels, StageLabels, AttemptLabels
  <2> QED
    BY <2>1, <2>2 DEF Typed
<1>6. CASE Amend(p)
  <2>1. pin' \in [Stages -> Harnesses \cup {None}]
    BY <1>6, <1>a DEF Amend, TypeOK
  <2>2. TypeOK'
    BY <1>6, <1>a, <2>1, GoneType DEF Amend, Exit, TypeOK
  <2>3. Control'
    BY <1>6, <1>a DEF Amend, Exit, Gone, TypeOK, Control, Labels, StageLabels, AttemptLabels
  <2> QED
    BY <2>2, <2>3 DEF Typed
<1> QED
  BY <1>1, <1>2, <1>3, <1>4, <1>5, <1>6 DEF CleanStep, AmendStep

\* The empty directory has every type.
LEMMA InitTyped == Init => Typed
<1> SUFFICES ASSUME Init PROVE Typed
  OBVIOUS
<1>1. NoSnap \in [Stages -> StateFile] /\ NoEvidence \in [Stages -> SUBSET Row]
  BY DEF NoSnap, NoEvidence, NotStarted, StateFile, Statuses, FINAL, UNFINISHED, Gates
<1>2. 1 \in 1..Len(STAGE_ORDER)
  BY DEF STAGE_ORDER
<1>3. TypeOK
  BY <1>1, <1>2 DEF Init, TypeOK, Labels
<1>4. Control
  BY DEF Init, Control, Labels, StageLabels, AttemptLabels
<1> QED
  BY <1>3, <1>4 DEF Typed

\* Every step of the system, and every stuttering step, keeps every type.
LEMMA NextTyped ==
  ASSUME Typed, [Next]_vars
  PROVE  Typed'
<1>a. TypeOK /\ Control /\ kills \in Nat
  BY DEF Typed, TypeOK
<1>1. ASSUME NEW p \in Procs, Start(p) PROVE Typed'
  <2>1. PICK c \in Commands[p], h \in Harnesses :
           /\ cmd' = [cmd EXCEPT ![p] = c]
           /\ harness' = [harness EXCEPT ![p] = h]
           /\ Goto(p, FirstStep(c))
           /\ UNCHANGED <<files, locks, records, fate, idx, snap, seen, kills>>
    BY <1>1 DEF Start
  <2>2. c \in Stages \cup {"decide", "clean", "amend"}
    BY CommandsAssumption
  <2>3. /\ FirstStep(c) \in {"dircheck", "d_shared", "c_lock", "a_lock", "lifecycle"}
        /\ FirstStep(c) \in {"dircheck", "lifecycle"} => c \in Stages
    BY <2>2 DEF FirstStep, Stages
  <2>4. TypeOK'
    BY <1>a, <2>1, <2>2, <2>3 DEF Goto, TypeOK, Labels
  <2>5. Control'
    BY <1>a, <2>1, <2>2, <2>3 DEF Goto, TypeOK, Control, Labels, StageLabels, AttemptLabels
  <2> QED
    BY <2>4, <2>5 DEF Typed
<1>2. ASSUME NEW p \in Procs, Kill(p) PROVE Typed'
  BY <1>2, <1>a, ExitType DEF Kill
<1>3. ASSUME NEW p \in Procs, Step(p) PROVE Typed'
  BY <1>3, StageStepTyped, DecideStepTyped, OwnerStepTyped DEF Step
<1>4. CASE UNCHANGED vars
  BY <1>a, <1>4 DEF Typed, TypeOK, Control
<1> QED
  BY <1>1, <1>2, <1>3, <1>4 DEF Next

\* Every variable has its type in every reachable state, for any number of processes: in
\* particular decide only ever writes one of the five verdicts, and no stage commits a
\* state without a status.
THEOREM TypeCorrect == Spec => []TypeOK
<1>1. Typed /\ [Next]_vars => Typed'
  BY NextTyped
<1>2. Typed => TypeOK
  BY DEF Typed
<1> QED
  BY InitTyped, <1>1, <1>2, PTL DEF Spec

-----------------------------------------------------------------------------
(* The inductive invariant *)

Locked == StageLabels \ {"stagelock"}
Admitted == {"create", "runjson", "prepare"} \cup AttemptLabels
Sharing == StageLabels \cup {"d_lock", "d_states", "d_evidence", "d_rehash", "d_write"}
Owning == {"c_check", "c_delete", "a_write"}
Reading == {"d_states", "d_evidence", "d_rehash"}

\* A process holds the locks that the code it executes relies on.
Guarded ==
    /\ \A p \in Procs :
          /\ pc[p] \in Locked => stageLock[cmd[p]] = p
          /\ pc[p] \in Sharing => p \in sharers
          /\ pc[p] \in Owning => exclusive = p
    /\ exclusive # None => sharers = {}

\* An admitted attempt runs in a session nobody cleans, for a stage that is not finished; a
\* clean that deletes has recorded that it does.
Open ==
    \A p \in Procs :
        /\ pc[p] \in Admitted => state[cmd[p]].status \notin FINAL /\ clean = "none"
        /\ pc[p] = "c_delete" => clean = "cleaning"

\* The positions decide has already read in its first pass.
Before(p) == {STAGE_ORDER[j] : j \in 1..(idx[p] - 1)}

\* Once clean.json exists, what decide has read of the states is what they still are.
Reader ==
    \A p \in Procs :
        /\ pc[p] \notin Reading => idx[p] = 1
        /\ clean # "none" =>
             /\ pc[p] = "d_states" => \A s \in Before(p) : snap[p][s] = state[s]
             /\ pc[p] \in {"d_evidence", "d_rehash", "d_write"} =>
                   \A s \in Stages : snap[p][s] = state[s]

Safe == Typed /\ Guarded /\ Open /\ Reader /\ CleanedIsDecided

-----------------------------------------------------------------------------
(* Locks *)

\* A process that moves without touching a lock stays guarded if the label it reaches needs
\* no lock that its old one did not.
LEMMA MoveGuarded ==
  ASSUME Typed, Guarded, NEW p \in Procs, NEW l,
         pc' = [pc EXCEPT ![p] = l], UNCHANGED <<locks, cmd>>,
         l \in Locked => pc[p] \in Locked,
         l \in Sharing => pc[p] \in Sharing,
         l \in Owning => pc[p] \in Owning
  PROVE  Guarded'
  BY DEF Typed, TypeOK, Guarded

\* A process that is gone leaves no other process unguarded.
LEMMA GoneGuarded ==
  ASSUME Typed, Guarded, NEW p \in Procs, Gone(p)
  PROVE  Guarded'
<1>1. p # None
  BY NoneAssumption
<1>2. \A q \in Procs : q # p => pc'[q] = pc[q] /\ cmd'[q] = cmd[q]
  BY DEF Typed, TypeOK, Gone
<1>3. pc'[p] = "idle"
  BY DEF Typed, TypeOK, Gone
<1>4. \A q \in Procs : pc[q] \in Locked => cmd[q] \in Stages
  BY DEF Typed, Control, Locked
<1>5. \A q \in Procs : q # p /\ pc[q] \in Locked => stageLock'[cmd'[q]] = q
  BY <1>2, <1>4 DEF Gone, Guarded
<1>6. \A q \in Procs : q # p /\ pc[q] \in Sharing => q \in sharers'
  BY DEF Gone, Guarded
<1>7. \A q \in Procs : q # p /\ pc[q] \in Owning => exclusive' = q
  BY DEF Gone, Guarded
<1>8. exclusive' # None => sharers' = {}
  BY DEF Gone, Guarded
<1>9. "idle" \notin Locked \cup Sharing \cup Owning
  BY DEF Locked, Sharing, Owning, StageLabels, AttemptLabels
<1> QED
  BY <1>2, <1>3, <1>5, <1>6, <1>7, <1>8, <1>9 DEF Guarded

\* Every step of a stage keeps processes guarded.
LEMMA StageGuarded ==
  ASSUME Typed, Guarded, NEW p \in Procs, StageStep(p)
  PROVE  Guarded'
<1>1. CASE CheckSessionDirectory(p)
  <2>1. CASE dir \in {"absent", "session"}
    BY <1>1, <2>1, MoveGuarded DEF CheckSessionDirectory, Goto, Locked, Sharing, Owning, StageLabels, AttemptLabels
  <2>2. CASE dir \in {"empty", "files"}
    BY <1>1, <2>2, GoneGuarded DEF CheckSessionDirectory, Exit
  <2> QED
    BY <1>1, <2>1, <2>2 DEF CheckSessionDirectory
<1>2. CASE MakeDirectory(p)
  BY <1>2, MoveGuarded DEF MakeDirectory, Goto, Locked, Sharing, Owning, StageLabels, AttemptLabels
<1>3. CASE LockLifecycle(p)
  <2>1. CASE exclusive = None
    BY <1>3, <2>1 DEF LockLifecycle, Goto, Guarded, Typed, TypeOK, Locked, Sharing, Owning, StageLabels, AttemptLabels
  <2>2. CASE exclusive # None
    BY <1>3, <2>2, GoneGuarded DEF LockLifecycle, Exit
  <2> QED
    BY <2>1, <2>2
<1>4. CASE LockStage(p)
  <2>1. CASE stageLock[cmd[p]] = None
    <3>1. pc[p] = "stagelock" /\ cmd[p] \in Stages
      BY <1>4 DEF LockStage, Typed, Control, StageLabels
    <3>2. /\ stageLock' = [stageLock EXCEPT ![cmd[p]] = p]
          /\ pc' = [pc EXCEPT ![p] = "check"]
          /\ UNCHANGED <<sharers, exclusive, cmd>>
      BY <1>4, <2>1 DEF LockStage, Goto
    <3>3. \A q \in Procs : q # p /\ pc[q] \in Locked => cmd[q] # cmd[p]
      BY <2>1, NoneAssumption DEF Guarded
    <3>4. \A q \in Procs : pc'[q] \in Locked => stageLock'[cmd'[q]] = q
      BY <3>1, <3>2, <3>3 DEF Typed, TypeOK, Guarded
    <3> QED
      BY <3>1, <3>2, <3>4 DEF Guarded, Typed, TypeOK, Sharing, Owning, StageLabels
  <2>2. CASE stageLock[cmd[p]] # None
    BY <1>4, <2>2, GoneGuarded DEF LockStage, Exit
  <2> QED
    BY <2>1, <2>2
<1>5. CASE EndUnstarted(p)
  BY <1>5, GoneGuarded DEF EndUnstarted, Exit
<1>6. CASE EnvironmentRefuses(p)
  BY <1>6, GoneGuarded DEF EnvironmentRefuses, Exit
<1>7. CASE Skip(p)
  BY <1>7, GoneGuarded DEF Skip, Exit
<1>8. CASE Admit(p)
  BY <1>8, MoveGuarded DEF Admit, Goto, Locked, Sharing, Owning, StageLabels, AttemptLabels
<1>9. CASE ArchiveProfile(p)
  BY <1>9, MoveGuarded DEF ArchiveProfile, Goto, Locked, Sharing, Owning, StageLabels, AttemptLabels
<1>10. CASE WriteRun(p)
  BY <1>10, MoveGuarded DEF WriteRun, Goto, Locked, Sharing, Owning, StageLabels, AttemptLabels
<1>11. CASE PrepareRefuses(p)
  BY <1>11, GoneGuarded DEF PrepareRefuses, Exit
<1>12. CASE Prepare(p)
  BY <1>12, MoveGuarded DEF Prepare, Goto, Locked, Sharing, Owning, StageLabels, AttemptLabels
<1>13. CASE WriteRunning(p)
  BY <1>13, MoveGuarded DEF WriteRunning, Goto, Locked, Sharing, Owning, StageLabels, AttemptLabels
<1>14. CASE OpenEvidence(p)
  BY <1>14, MoveGuarded DEF OpenEvidence, Goto, Locked, Sharing, Owning, StageLabels, AttemptLabels
<1>15. CASE BodyBegin(p)
  BY <1>15, MoveGuarded DEF BodyBegin, Goto, Locked, Sharing, Owning, StageLabels, AttemptLabels
<1>16. CASE BodyRecord(p)
  BY <1>16, MoveGuarded DEF BodyRecord, Goto, Locked, Sharing, Owning, StageLabels, AttemptLabels
<1>17. CASE BodyDone(p)
  BY <1>17, MoveGuarded DEF BodyDone, Goto, Locked, Sharing, Owning, StageLabels, AttemptLabels
<1>18. CASE BodyFails(p)
  BY <1>18, MoveGuarded DEF BodyFails, Goto, Locked, Sharing, Owning, StageLabels, AttemptLabels
<1>19. CASE BodyNoisy(p)
  BY <1>19, MoveGuarded DEF BodyNoisy, Goto, Locked, Sharing, Owning, StageLabels, AttemptLabels
<1>20. CASE CommitEvidence(p)
  BY <1>20, MoveGuarded DEF CommitEvidence, Goto, Locked, Sharing, Owning, StageLabels, AttemptLabels
<1>21. CASE WriteFinal(p)
  BY <1>21, GoneGuarded DEF WriteFinal, Exit
<1> QED
  BY <1>1, <1>2, <1>3, <1>4, <1>5, <1>6, <1>7, <1>8, <1>9, <1>10, <1>11, <1>12, <1>13, <1>14, <1>15, <1>16, <1>17, <1>18, <1>19, <1>20, <1>21 DEF StageStep

\* Every step of decide, clean and amend keeps processes guarded.
LEMMA OtherGuarded ==
  ASSUME Typed, Guarded, NEW p \in Procs, DecideStep(p) \/ CleanStep(p) \/ AmendStep(p)
  PROVE  Guarded'
<1>a. ASSUME NEW next \in Labels, pc[p] \in Reading, Advance(p, next), UNCHANGED <<locks, cmd>>,
             next \notin Locked \cup Owning
      PROVE  Guarded'
  BY <1>a, MoveGuarded DEF Advance, Goto, Reading, Locked, Sharing, Owning, StageLabels, AttemptLabels
<1>1. CASE DecideShared(p)
  BY <1>1 DEF DecideShared, Goto, Guarded, Typed, TypeOK, Locked, Sharing, Owning, StageLabels, AttemptLabels
<1>2. CASE DecideLock(p)
  BY <1>2 DEF DecideLock, Goto, Guarded, Typed, TypeOK, Locked, Sharing, Owning, StageLabels, AttemptLabels
<1>3. CASE ReadState(p)
  BY <1>3, <1>a DEF ReadState, Reading, Labels, Locked, Sharing, Owning, StageLabels, AttemptLabels
<1>4. CASE ReadEvidence(p)
  BY <1>4, <1>a DEF ReadEvidence, Reading, Labels, Locked, Sharing, Owning, StageLabels, AttemptLabels
<1>5. CASE Rehash(p)
  BY <1>5, <1>a DEF Rehash, Reading, Labels, Locked, Sharing, Owning, StageLabels, AttemptLabels
<1>6. CASE RehashDiffers(p)
  BY <1>6, MoveGuarded DEF RehashDiffers, Goto, Locked, Sharing, Owning, StageLabels, AttemptLabels
<1>7. CASE WriteDecision(p)
  BY <1>7 DEF WriteDecision, Goto, Guarded, Typed, TypeOK, Locked, Sharing, Owning, StageLabels, AttemptLabels
<1>8. CASE AfterDecide(p)
  <2>1. CASE CleanupBlocked(p)
    BY <1>8, <2>1, GoneGuarded DEF AfterDecide, Exit
  <2>2. CASE ~CleanupBlocked(p)
    BY <1>8, <2>2, MoveGuarded DEF AfterDecide, Goto, Locked, Sharing, Owning, StageLabels, AttemptLabels
  <2> QED
    BY <2>1, <2>2
<1>9. ASSUME NEW next \in Owning, pc[p] \in {"c_lock", "a_lock"}, LockExclusive(p, next)
      PROVE  Guarded'
  <2>1. CASE sharers = {} /\ exclusive = None
    <3>1. /\ exclusive' = p /\ pc' = [pc EXCEPT ![p] = next]
          /\ UNCHANGED <<sharers, stageLock, cmd>>
      BY <1>9, <2>1 DEF LockExclusive, Goto
    <3>2. next \notin Locked \cup Sharing
      BY DEF Locked, Sharing, Owning, StageLabels, AttemptLabels
    <3>3. \A q \in Procs : pc[q] \notin Owning
      BY <2>1, NoneAssumption DEF Guarded
    <3> QED
      BY <2>1, <3>1, <3>2, <3>3 DEF Guarded, Typed, TypeOK
  <2>2. CASE ~(sharers = {} /\ exclusive = None)
    BY <1>9, <2>2, GoneGuarded DEF LockExclusive, Exit
  <2> QED
    BY <2>1, <2>2
<1>10. CASE CleanLock(p) \/ AmendLock(p)
  BY <1>9, <1>10 DEF CleanLock, AmendLock, Owning
<1>11. CASE CleanRefused(p) \/ CleanDone(p) \/ Amend(p)
  BY <1>11, GoneGuarded DEF CleanRefused, CleanDone, Amend, Exit
<1>12. CASE CleanPlan(p)
  BY <1>12, MoveGuarded DEF CleanPlan, Goto, Locked, Sharing, Owning, StageLabels, AttemptLabels
<1>13. CASE CleanDelete(p)
  BY <1>13 DEF CleanDelete, Guarded
<1> QED
  BY <1>1, <1>2, <1>3, <1>4, <1>5, <1>6, <1>7, <1>8, <1>10, <1>11, <1>12, <1>13
     DEF DecideStep, CleanStep, AmendStep

\* Every step of the system keeps processes guarded.
LEMMA NextGuarded ==
  ASSUME Typed, Guarded, [Next]_vars
  PROVE  Guarded'
<1>1. ASSUME NEW p \in Procs, Start(p) PROVE Guarded'
  <2>1. PICK c \in Commands[p] :
           /\ cmd' = [cmd EXCEPT ![p] = c]
           /\ pc' = [pc EXCEPT ![p] = FirstStep(c)]
           /\ UNCHANGED locks
    BY <1>1 DEF Start, Goto
  <2>2. FirstStep(c) \notin Locked \cup Sharing \cup Owning
    BY DEF FirstStep, Locked, Sharing, Owning, StageLabels, AttemptLabels
  <2> QED
    BY <2>1, <2>2 DEF Guarded, Typed, TypeOK
<1>2. ASSUME NEW p \in Procs, Kill(p) PROVE Guarded'
  BY <1>2, GoneGuarded DEF Kill
<1>3. ASSUME NEW p \in Procs, Step(p) PROVE Guarded'
  BY <1>3, StageGuarded, OtherGuarded DEF Step
<1>4. CASE UNCHANGED vars
  BY <1>4 DEF Guarded
<1> QED
  BY <1>1, <1>2, <1>3, <1>4 DEF Next

-----------------------------------------------------------------------------
(* What a step of a stage may do to the files *)

\* Only its own stage, only while that stage is not finished, and not in a cleaned session.
WritesOwn(p) ==
    /\ pc[p] \in Locked
    /\ cmd[p] \in Stages
    /\ state[cmd[p]].status \notin FINAL
    /\ clean = "none"
    /\ \A s \in Stages \ {cmd[p]} : state'[s] = state[s] /\ evidence'[s] = evidence[s]

StageEffect(p) ==
    /\ UNCHANGED <<clean, decision>>
    /\ \A q \in Procs \ {p} : /\ pc'[q] = pc[q] /\ cmd'[q] = cmd[q]
                              /\ idx'[q] = idx[q] /\ snap'[q] = snap[q]
    /\ idx'[p] = 1 /\ pc'[p] \notin Reading \cup {"d_write", "c_delete"}
    /\ pc'[p] \in Admitted => /\ pc'[p] \in Locked /\ pc[p] \in Locked
                              /\ cmd'[p] = cmd[p] /\ clean = "none"
                              /\ state'[cmd[p]].status \notin FINAL
    /\ UNCHANGED <<state, evidence>> \/ WritesOwn(p)

\* Every step of a stage has this effect.
LEMMA StageEffects ==
  ASSUME Typed, Open, Reader, NEW p \in Procs, StageStep(p)
  PROVE  StageEffect(p)
<1>t. /\ pc \in [Procs -> Labels] /\ idx \in [Procs -> 1..Len(STAGE_ORDER)]
      /\ cmd \in [Procs -> Stages \cup {"decide", "clean", "amend", "none"}]
      /\ snap \in [Procs -> [Stages -> StateFile]]
      /\ state \in [Stages -> StateFile] /\ evidence \in [Stages -> SUBSET Row]
      /\ records \in [Procs -> SUBSET Row]
  BY DEF Typed, TypeOK
<1>s. pc[p] \in StageLabels => cmd[p] \in Stages
  BY DEF Typed, Control
<1>i. pc[p] \notin Reading => idx[p] = 1
  BY DEF Reader
<1>o. pc[p] \in Admitted => state[cmd[p]].status \notin FINAL /\ clean = "none"
  BY DEF Open
<1>g. ASSUME Gone(p), UNCHANGED <<clean, decision>>, UNCHANGED <<state, evidence>> \/ WritesOwn(p)
      PROVE  StageEffect(p)
  BY <1>g, <1>t DEF StageEffect, Gone, Admitted, Locked, Reading, StageLabels, AttemptLabels
<1>m. ASSUME NEW l, Goto(p, l), UNCHANGED <<clean, decision, state, cmd, idx, snap>>,
             l \notin Reading \cup {"d_write", "c_delete"}, pc[p] \notin Reading,
             l \in Admitted => pc[p] \in Admitted,
             UNCHANGED evidence \/ WritesOwn(p)
      PROVE  StageEffect(p)
  BY <1>m, <1>t, <1>i, <1>o DEF StageEffect, Goto, Admitted, Locked, Reading, StageLabels, AttemptLabels
<1>w. ASSUME pc[p] \in Admitted, NEW rows, Save(p, rows), UNCHANGED state PROVE WritesOwn(p)
  BY <1>w, <1>t, <1>s, <1>o DEF Save, WritesOwn, Admitted, Locked, Reading, StageLabels, AttemptLabels
<1>1. CASE CheckSessionDirectory(p)
  <2>1. CASE dir \in {"absent", "session"}
    BY <1>1, <2>1, <1>m DEF CheckSessionDirectory, Goto, Admitted, Locked, Reading, StageLabels, AttemptLabels
  <2>2. CASE dir \in {"empty", "files"}
    BY <1>1, <2>2, <1>g DEF CheckSessionDirectory, Exit
  <2> QED
    BY <1>1, <2>1, <2>2 DEF CheckSessionDirectory
<1>2. CASE MakeDirectory(p)
  BY <1>2, <1>m DEF MakeDirectory, Goto, Admitted, Locked, Reading, StageLabels, AttemptLabels
<1>3. CASE LockLifecycle(p)
  <2>1. CASE exclusive = None
    BY <1>3, <2>1, <1>m DEF LockLifecycle, Admitted, Locked, Reading, StageLabels, AttemptLabels
  <2>2. CASE exclusive # None
    BY <1>3, <2>2, <1>g DEF LockLifecycle, Exit
  <2> QED
    BY <2>1, <2>2
<1>4. CASE LockStage(p)
  <2>1. CASE stageLock[cmd[p]] = None
    BY <1>4, <2>1, <1>m DEF LockStage, Admitted, Locked, Reading, StageLabels, AttemptLabels
  <2>2. CASE stageLock[cmd[p]] # None
    BY <1>4, <2>2, <1>g DEF LockStage, Exit
  <2> QED
    BY <2>1, <2>2
<1>5. CASE EndUnstarted(p)
  BY <1>5, <1>g DEF EndUnstarted, Exit
<1>6. CASE EnvironmentRefuses(p)
  BY <1>6, <1>g DEF EnvironmentRefuses, Exit
<1>7. CASE Skip(p)
  <2>1. WritesOwn(p)
    BY <1>7, <1>t, <1>s DEF Skip, Refused, WritesOwn, Admitted, Locked, Reading, StageLabels, AttemptLabels
  <2> QED
    BY <1>7, <2>1, <1>g DEF Skip, Exit
<1>8. CASE Admit(p)
  <2>1. state[cmd[p]].status \notin FINAL /\ clean = "none"
    BY <1>8 DEF Admit, Refused
  <2> QED
    BY <1>8, <2>1, <1>t, <1>i DEF Admit, Goto, StageEffect, Admitted, Locked, Reading, StageLabels, AttemptLabels
<1>9. CASE ArchiveProfile(p)
  BY <1>9, <1>m DEF ArchiveProfile, Goto, Admitted, Locked, Reading, StageLabels, AttemptLabels
<1>10. CASE WriteRun(p)
  BY <1>10, <1>m DEF WriteRun, Goto, Admitted, Locked, Reading, StageLabels, AttemptLabels
<1>11. CASE PrepareRefuses(p)
  BY <1>11, <1>g DEF PrepareRefuses, Exit
<1>12. CASE Prepare(p)
  BY <1>12, <1>m DEF Prepare, Goto, Admitted, Locked, Reading, StageLabels, AttemptLabels
<1>13. CASE WriteRunning(p)
  <2>1. WritesOwn(p)
    BY <1>13, <1>t, <1>s, <1>o DEF WriteRunning, WritesOwn, Admitted, Locked, Reading, StageLabels, AttemptLabels
  <2>2. state'[cmd[p]].status = "running"
    BY <1>13, <1>t, <1>s DEF WriteRunning, StageLabels, AttemptLabels
  <2> QED
    BY <1>13, <2>1, <2>2, <1>t, <1>i, <1>o DEF WriteRunning, Goto, StageEffect, FINAL, Admitted, Locked, Reading, StageLabels, AttemptLabels
<1>14. CASE OpenEvidence(p)
  <2>1. WritesOwn(p)
    BY <1>14, <1>w DEF OpenEvidence, Admitted, Locked, Reading, StageLabels, AttemptLabels
  <2> QED
    BY <1>14, <2>1, <1>m DEF OpenEvidence, Admitted, Locked, Reading, StageLabels, AttemptLabels
<1>15. CASE BodyBegin(p)
  <2>1. WritesOwn(p)
    BY <1>15, <1>w DEF BodyBegin, Admitted, Locked, Reading, StageLabels, AttemptLabels
  <2> QED
    BY <1>15, <2>1, <1>m DEF BodyBegin, Admitted, Locked, Reading, StageLabels, AttemptLabels
<1>16. CASE BodyRecord(p)
  <2>1. WritesOwn(p)
    BY <1>16, <1>w DEF BodyRecord, Admitted, Locked, Reading, StageLabels, AttemptLabels
  <2> QED
    BY <1>16, <2>1, <1>m DEF BodyRecord, Admitted, Locked, Reading, StageLabels, AttemptLabels
<1>17. CASE BodyDone(p)
  <2>1. WritesOwn(p)
    BY <1>17, <1>w DEF BodyDone, Admitted, Locked, Reading, StageLabels, AttemptLabels
  <2> QED
    BY <1>17, <2>1, <1>m DEF BodyDone, Admitted, Locked, Reading, StageLabels, AttemptLabels
<1>18. CASE BodyFails(p)
  <2>1. WritesOwn(p)
    BY <1>18, <1>w DEF BodyFails, Admitted, Locked, Reading, StageLabels, AttemptLabels
  <2> QED
    BY <1>18, <2>1, <1>m DEF BodyFails, Admitted, Locked, Reading, StageLabels, AttemptLabels
<1>19. CASE BodyNoisy(p)
  BY <1>19, <1>m DEF BodyNoisy, Goto, Admitted, Locked, Reading, StageLabels, AttemptLabels
<1>20. CASE CommitEvidence(p)
  <2>1. WritesOwn(p)
    BY <1>20, <1>w DEF CommitEvidence, Admitted, Locked, Reading, StageLabels, AttemptLabels
  <2> QED
    BY <1>20, <2>1, <1>m DEF CommitEvidence, Admitted, Locked, Reading, StageLabels, AttemptLabels
<1>21. CASE WriteFinal(p)
  <2>1. WritesOwn(p)
    BY <1>21, <1>t, <1>s, <1>o DEF WriteFinal, WritesOwn, Admitted, Locked, Reading, StageLabels, AttemptLabels
  <2> QED
    BY <1>21, <2>1, <1>g DEF WriteFinal, Exit
<1> QED
  BY <1>1, <1>2, <1>3, <1>4, <1>5, <1>6, <1>7, <1>8, <1>9, <1>10, <1>11, <1>12, <1>13, <1>14, <1>15, <1>16, <1>17, <1>18, <1>19, <1>20, <1>21 DEF StageStep

\* Two processes never write for the same stage.
LEMMA Alone ==
  ASSUME Guarded, NEW p \in Procs, NEW q \in Procs, p # q, pc[p] \in Locked, pc[q] \in Locked
  PROVE  cmd[p] # cmd[q]
  BY DEF Guarded

\* A step of a stage keeps the rest of the invariant.
LEMMA StageSafe ==
  ASSUME Safe, NEW p \in Procs, StageStep(p)
  PROVE  Open' /\ Reader' /\ CleanedIsDecided'
<1>a. StageEffect(p) /\ Typed /\ Guarded /\ Open /\ Reader
  BY StageEffects DEF Safe
<1>c. clean # "none" => UNCHANGED <<state, evidence>>
  BY <1>a DEF StageEffect, WritesOwn
<1>1. Open'
  <2>a. \A q \in Procs : pc'[q] = "c_delete" => clean' = "cleaning"
    BY <1>a DEF Open, StageEffect
  <2> SUFFICES ASSUME NEW q \in Procs, pc'[q] \in Admitted
               PROVE  state'[cmd'[q]].status \notin FINAL /\ clean' = "none"
    BY <2>a DEF Open
  <2>1. CASE q = p
    BY <2>1, <1>a DEF StageEffect
  <2>2. CASE q # p
    <3>1. pc[q] \in Admitted /\ cmd'[q] = cmd[q] /\ clean' = clean
      BY <2>2, <1>a DEF StageEffect
    <3>2. pc[q] \in Locked /\ cmd[q] \in Stages
      BY <3>1, <1>a DEF Typed, Control, Admitted, Locked, Reading, StageLabels, AttemptLabels
    <3>3. UNCHANGED state \/ (pc[p] \in Locked /\ state'[cmd[q]] = state[cmd[q]])
      BY <2>2, <3>2, <1>a, Alone DEF StageEffect, WritesOwn
    <3> QED
      BY <3>1, <3>3, <1>a DEF Open
  <2> QED
    BY <2>1, <2>2
<1>2. Reader'
  BY <1>a, <1>c DEF Reader, StageEffect, Before, Reading
<1>3. CleanedIsDecided'
  BY <1>a, <1>c DEF Safe, CleanedIsDecided, StageEffect
<1> QED
  BY <1>1, <1>2, <1>3

\* The order in which decide reads covers every stage.
LEMMA OrderCovers ==
  /\ Len(STAGE_ORDER) = 5
  /\ \A i \in 1..5 : STAGE_ORDER[i] \in Stages
  /\ Stages = {STAGE_ORDER[j] : j \in 1..4} \cup {STAGE_ORDER[5]}
<1>1. /\ Len(STAGE_ORDER) = 5
      /\ STAGE_ORDER[1] = "compile" /\ STAGE_ORDER[2] = "quality"
      /\ STAGE_ORDER[3] = "correctness" /\ STAGE_ORDER[4] = "unit-tests"
      /\ STAGE_ORDER[5] = "cost"
  BY DEF STAGE_ORDER
<1>2. {STAGE_ORDER[j] : j \in 1..4} = {STAGE_ORDER[1], STAGE_ORDER[2], STAGE_ORDER[3], STAGE_ORDER[4]}
  <2>1. 1..4 = {1, 2, 3, 4}
    OBVIOUS
  <2> QED
    BY <2>1
<1>3. \A i \in 1..5 : i = 1 \/ i = 2 \/ i = 3 \/ i = 4 \/ i = 5
  OBVIOUS
<1> QED
  BY <1>1, <1>2, <1>3 DEF Stages

\* A process whose steps touch no state file, clean.json or decision.json, and that neither
\* reads nor starts an attempt, keeps the rest of the invariant.
LEMMA QuietSafe ==
  ASSUME Safe, NEW p \in Procs, UNCHANGED <<state, clean, decision>>,
         \A q \in Procs \ {p} : /\ pc'[q] = pc[q] /\ cmd'[q] = cmd[q]
                               /\ idx'[q] = idx[q] /\ snap'[q] = snap[q],
         pc'[p] \notin Admitted \cup Reading \cup {"d_write", "c_delete"}, idx'[p] = 1
  PROVE  Open' /\ Reader' /\ CleanedIsDecided'
<1>1. Open'
  BY DEF Safe, Open
<1>2. Reader'
  BY DEF Safe, Reader, Before, Reading
<1>3. CleanedIsDecided'
  BY DEF Safe, CleanedIsDecided
<1> QED
  BY <1>1, <1>2, <1>3

\* A process that is gone without writing a file keeps the rest of the invariant.
LEMMA GoneSafe ==
  ASSUME Safe, NEW p \in Procs, Gone(p), UNCHANGED <<state, clean, decision>>
  PROVE  Open' /\ Reader' /\ CleanedIsDecided'
<1>1. \A q \in Procs \ {p} : /\ pc'[q] = pc[q] /\ cmd'[q] = cmd[q]
                            /\ idx'[q] = idx[q] /\ snap'[q] = snap[q]
  BY DEF Gone, Safe, Typed, TypeOK
<1>2. pc'[p] \notin Admitted \cup Reading \cup {"d_write", "c_delete"} /\ idx'[p] = 1
  BY DEF Gone, Safe, Typed, TypeOK, Admitted, Locked, Reading, StageLabels, AttemptLabels
<1> QED
  BY <1>1, <1>2, QuietSafe

\* A step of decide keeps the rest of the invariant: what it has read of a session that is
\* being cleaned cannot change under it.
LEMMA DecideSafe ==
  ASSUME Safe, NEW p \in Procs, DecideStep(p)
  PROVE  Open' /\ Reader' /\ CleanedIsDecided'
<1>t. /\ pc \in [Procs -> Labels] /\ idx \in [Procs -> 1..Len(STAGE_ORDER)]
      /\ snap \in [Procs -> [Stages -> StateFile]] /\ state \in [Stages -> StateFile]
  BY DEF Safe, Typed, TypeOK
<1>a. Open /\ Reader /\ CleanedIsDecided
  BY DEF Safe
<1>i. idx[p] \in 1..5 /\ Len(STAGE_ORDER) = 5 /\ At(p) = STAGE_ORDER[idx[p]] /\ At(p) \in Stages
  BY <1>t, OrderCovers DEF At
<1>q. ASSUME NEW l \in Labels \ (Admitted \cup Reading \cup {"d_write", "c_delete"}), Goto(p, l),
             pc[p] \notin Reading, UNCHANGED <<state, clean, decision, cmd, idx, snap>>
      PROVE  Open' /\ Reader' /\ CleanedIsDecided'
  <2>1. pc'[p] = l /\ idx'[p] = 1 /\ \A q \in Procs \ {p} : pc'[q] = pc[q]
    BY <1>q, <1>a, <1>t DEF Goto, Reader
  <2> QED
    BY <1>q, <2>1, QuietSafe
<1>1. CASE DecideShared(p)
  BY <1>1, <1>q DEF DecideShared, Labels, Admitted, Locked, Reading, StageLabels, AttemptLabels
<1>2. CASE DecideLock(p)
  <2>1. /\ pc' = [pc EXCEPT ![p] = "d_states"] /\ idx[p] = 1
        /\ UNCHANGED <<state, clean, decision, cmd, idx, snap>>
    BY <1>2, <1>a DEF DecideLock, Goto, Reader, Reading
  <2>2. Before(p) = {}
    BY <2>1 DEF Before
  <2>3. Open'
    BY <2>1, <1>a, <1>t DEF Open, Admitted, Locked, Reading, StageLabels, AttemptLabels
  <2>4. Reader'
    BY <2>1, <2>2, <1>a, <1>t DEF Reader, Before, Reading
  <2>5. CleanedIsDecided'
    BY <2>1, <1>a DEF CleanedIsDecided
  <2> QED
    BY <2>3, <2>4, <2>5
<1>3. CASE ReadState(p)
  <2>1. /\ pc[p] = "d_states"
        /\ snap' = [snap EXCEPT ![p][At(p)] = state[At(p)]]
        /\ idx' = [idx EXCEPT ![p] = IF idx[p] = 5 THEN 1 ELSE idx[p] + 1]
        /\ pc' = [pc EXCEPT ![p] = IF idx[p] = 5 THEN "d_evidence" ELSE "d_states"]
        /\ UNCHANGED <<state, clean, decision, cmd>>
    BY <1>3, <1>i DEF ReadState, Advance, Goto
  <2>2. clean # "none" =>
           \A s \in Before(p) \cup {STAGE_ORDER[idx[p]]} : snap'[p][s] = state[s]
    <3>1. Before(p) \subseteq Stages
      <4>1. 1..(idx[p] - 1) \subseteq 1..5
        BY <1>i
      <4> QED
        BY <4>1, OrderCovers DEF Before
    <3>2. \A s \in Stages : snap'[p][s] = IF s = At(p) THEN state[s] ELSE snap[p][s]
      BY <2>1, <1>t, <1>i
    <3>3. clean # "none" => \A s \in Before(p) : snap[p][s] = state[s]
      BY <2>1, <1>a DEF Reader
    <3> QED
      BY <3>1, <3>2, <3>3, <1>i
  <2>3. CASE idx[p] = 5
    <3>1. Before(p) \cup {STAGE_ORDER[idx[p]]} = Stages
      BY <2>3, OrderCovers DEF Before
    <3>2. idx'[p] = 1 /\ pc'[p] = "d_evidence"
      BY <2>1, <2>3, <1>t
    <3>4. \A q \in Procs \ {p} : Before(q)' = Before(q) /\ snap'[q] = snap[q] /\ pc'[q] = pc[q]
      BY <2>1, <1>t DEF Before
    <3>5. Open'
      BY <2>1, <1>a, <1>t DEF Open, Admitted, Locked, Reading, StageLabels, AttemptLabels
    <3>6. Reader'
      BY <2>1, <2>2, <3>1, <3>2, <3>4, <1>a, <1>t DEF Reader, Reading
    <3>7. CleanedIsDecided'
      BY <2>1, <1>a DEF CleanedIsDecided
    <3> QED
      BY <3>5, <3>6, <3>7
  <2>4. CASE idx[p] # 5
    <3>1. idx'[p] = idx[p] + 1 /\ pc'[p] = "d_states"
      BY <2>1, <2>4, <1>t
    <3>2. \A j \in 1..(idx'[p] - 1) : j \in 1..(idx[p] - 1) \/ j = idx[p]
      BY <3>1, <1>i
    <3>3. Before(p)' \subseteq Before(p) \cup {STAGE_ORDER[idx[p]]}
      BY <3>2 DEF Before
    <3>4. \A q \in Procs \ {p} : Before(q)' = Before(q) /\ snap'[q] = snap[q] /\ pc'[q] = pc[q]
      BY <2>1, <1>t DEF Before
    <3>5. Open'
      BY <2>1, <1>a, <1>t DEF Open, Admitted, Locked, Reading, StageLabels, AttemptLabels
    <3>6. Reader'
      BY <2>1, <2>2, <3>1, <3>3, <3>4, <1>a, <1>t DEF Reader, Reading
    <3>7. CleanedIsDecided'
      BY <2>1, <1>a DEF CleanedIsDecided
    <3> QED
      BY <3>5, <3>6, <3>7
  <2> QED
    BY <2>3, <2>4
<1>4. CASE ReadEvidence(p) \/ Rehash(p)
  <2>1. /\ pc[p] \in {"d_evidence", "d_rehash"}
        /\ idx' = [idx EXCEPT ![p] = IF idx[p] = 5 THEN 1 ELSE idx[p] + 1]
        /\ \E l \in {"d_evidence", "d_rehash", "d_write"} :
              /\ pc' = [pc EXCEPT ![p] = l]
              /\ l = "d_write" => idx[p] = 5
        /\ UNCHANGED <<state, clean, decision, cmd, snap>>
    BY <1>4, <1>i DEF ReadEvidence, Rehash, Advance, Goto
  <2>2. Open'
    BY <2>1, <1>a, <1>t DEF Open, Admitted, Locked, Reading, StageLabels, AttemptLabels
  <2>3. Reader'
    BY <2>1, <1>a, <1>t, <1>i DEF Reader, Before, Reading
  <2>4. CleanedIsDecided'
    BY <2>1, <1>a DEF CleanedIsDecided
  <2> QED
    BY <2>2, <2>3, <2>4
<1>5. CASE RehashDiffers(p)
  <2>1. /\ idx' = [idx EXCEPT ![p] = 1]
        /\ pc' = [pc EXCEPT ![p] = "d_states"]
        /\ snap' = [snap EXCEPT ![p] = NoSnap]
        /\ UNCHANGED <<state, clean, decision, cmd>>
    BY <1>5 DEF RehashDiffers, Goto
  <2>2. Before(p)' = {}
    BY <2>1, <1>t DEF Before
  <2>3. \A q \in Procs \ {p} : Before(q)' = Before(q) /\ snap'[q] = snap[q] /\ pc'[q] = pc[q]
    BY <2>1, <1>t DEF Before
  <2>4. Open'
    BY <2>1, <1>a, <1>t DEF Open, Admitted, Locked, Reading, StageLabels, AttemptLabels
  <2>5. Reader'
    BY <2>1, <2>2, <2>3, <1>a, <1>t DEF Reader, Reading
  <2>6. CleanedIsDecided'
    BY <2>1, <1>a DEF CleanedIsDecided
  <2> QED
    BY <2>4, <2>5, <2>6
<1>6. CASE WriteDecision(p)
  <2>1. /\ pc[p] = "d_write"
        /\ decision'.states = snap[p] /\ decision'.verdict \in VERDICTS
        /\ pc' = [pc EXCEPT ![p] = "d_after"]
        /\ snap' = [snap EXCEPT ![p] = NoSnap]
        /\ UNCHANGED <<state, clean, cmd, idx>>
    BY <1>6, SessionVerdictType DEF WriteDecision, Goto
  <2>2. clean # "none" => snap[p] = state
    BY <2>1, <1>a, <1>t DEF Reader
  <2>3. CleanedIsDecided'
    BY <2>1, <2>2, <1>a DEF CleanedIsDecided, VERDICTS
  <2>4. Open'
    BY <2>1, <1>a, <1>t DEF Open, Admitted, Locked, Reading, StageLabels, AttemptLabels
  <2>5. Reader'
    BY <2>1, <1>a, <1>t DEF Reader, Before, Reading
  <2> QED
    BY <2>3, <2>4, <2>5
<1>7. CASE AfterDecide(p)
  <2>1. CASE CleanupBlocked(p)
    BY <1>7, <2>1, GoneSafe DEF AfterDecide, Exit
  <2>2. CASE ~CleanupBlocked(p)
    BY <1>7, <2>2, <1>q DEF AfterDecide, Labels, Admitted, Locked, Reading, StageLabels, AttemptLabels
  <2> QED
    BY <2>1, <2>2
<1> QED
  BY <1>1, <1>2, <1>3, <1>4, <1>5, <1>6, <1>7 DEF DecideStep

\* A step of clean or amend keeps the rest of the invariant: whoever writes clean.json owns
\* the session, so no attempt and no decide is under way.
LEMMA OwnerSafe ==
  ASSUME Safe, NEW p \in Procs, CleanStep(p) \/ AmendStep(p)
  PROVE  Open' /\ Reader' /\ CleanedIsDecided'
<1>t. /\ pc \in [Procs -> Labels] /\ idx \in [Procs -> 1..Len(STAGE_ORDER)]
      /\ snap \in [Procs -> [Stages -> StateFile]] /\ state \in [Stages -> StateFile]
  BY DEF Safe, Typed, TypeOK
<1>a. Open /\ Reader /\ CleanedIsDecided /\ Guarded
  BY DEF Safe
<1>q. ASSUME NEW l \in {"c_check", "a_write"}, Goto(p, l), pc[p] \notin Reading,
             UNCHANGED <<state, clean, decision, cmd, idx, snap>>
      PROVE  Open' /\ Reader' /\ CleanedIsDecided'
  <2>1. pc'[p] = l /\ idx'[p] = 1 /\ \A q \in Procs \ {p} : pc'[q] = pc[q]
    BY <1>q, <1>a, <1>t DEF Goto, Reader
  <2>2. l \notin Admitted \cup Reading \cup {"d_write", "c_delete"}
    BY DEF Admitted, Locked, Reading, StageLabels, AttemptLabels
  <2> QED
    BY <1>q, <2>1, <2>2, QuietSafe
<1>1. ASSUME NEW next \in {"c_check", "a_write"}, pc[p] \notin Reading, LockExclusive(p, next)
      PROVE  Open' /\ Reader' /\ CleanedIsDecided'
  <2>1. CASE sharers = {} /\ exclusive = None
    BY <1>1, <2>1, <1>q DEF LockExclusive
  <2>2. CASE ~(sharers = {} /\ exclusive = None)
    BY <1>1, <2>2, GoneSafe DEF LockExclusive, Exit
  <2> QED
    BY <2>1, <2>2
<1>2. CASE CleanLock(p) \/ AmendLock(p)
  BY <1>1, <1>2 DEF CleanLock, AmendLock, Reading
<1>3. CASE CleanRefused(p) \/ Amend(p)
  BY <1>3, GoneSafe DEF CleanRefused, Amend, Exit
<1>4. CASE CleanPlan(p)
  <2>1. /\ pc[p] = "c_check" /\ pc' = [pc EXCEPT ![p] = "c_delete"]
        /\ UNCHANGED <<state, decision, cmd, idx, snap>>
    BY <1>4 DEF CleanPlan, Goto
  <2>2. CASE clean = "cleaning"
    <3>1. UNCHANGED clean
      BY <1>4, <2>2 DEF CleanPlan
    <3>2. Open'
      BY <2>1, <2>2, <3>1, <1>a, <1>t DEF Open, Admitted, Locked, Reading, StageLabels, AttemptLabels
    <3>3. Reader'
      BY <2>1, <3>1, <1>a, <1>t DEF Reader, Before, Reading
    <3>4. CleanedIsDecided'
      BY <2>1, <3>1, <1>a DEF CleanedIsDecided
    <3> QED
      BY <3>2, <3>3, <3>4
  <2>3. CASE clean = "none"
    <3>1. CleanAllowed /\ clean' = "cleaning"
      BY <1>4, <2>3 DEF CleanPlan
    <3>2. \A q \in Procs : pc[q] \notin Sharing
      BY <2>1, <1>a, NoneAssumption DEF Guarded, Owning
    <3>3. \A q \in Procs : /\ pc'[q] \notin Admitted
                          /\ pc'[q] \notin Reading \cup {"d_write"}
      BY <2>1, <3>2, <1>t DEF Sharing, Admitted, Locked, Reading, StageLabels, AttemptLabels
    <3>4. Open'
      BY <3>1, <3>3 DEF Open
    <3>5. Reader'
      BY <2>1, <3>2, <3>3, <1>a DEF Reader, Reading, Sharing
    <3>6. CleanedIsDecided'
      BY <2>1, <3>1 DEF CleanAllowed, CleanedIsDecided
    <3> QED
      BY <3>4, <3>5, <3>6
  <2> QED
    BY <1>4, <2>2, <2>3 DEF CleanPlan
<1>5. CASE CleanDelete(p)
  BY <1>5, <1>a DEF CleanDelete, Open, Reader, Before, CleanedIsDecided
<1>6. CASE CleanDone(p)
  <2>1. /\ clean = "cleaning" /\ clean' = "complete" /\ Gone(p) /\ pc[p] \in Owning
        /\ UNCHANGED <<state, decision>>
    BY <1>6, <1>a DEF CleanDone, Open, Exit, Owning
  <2>2. \A q \in Procs : pc'[q] # "c_delete"
    <3>1. \A q \in Procs \ {p} : pc[q] \notin Owning
      BY <2>1, <1>a DEF Guarded
    <3> QED
      BY <2>1, <3>1, <1>t DEF Gone, Owning
  <2>3. Open'
    BY <2>1, <2>2, <1>a, <1>t DEF Open, Gone, Admitted, Locked, Reading, StageLabels, AttemptLabels
  <2>4. Reader'
    BY <2>1, <1>a, <1>t DEF Reader, Before, Gone, Reading
  <2>5. CleanedIsDecided'
    BY <2>1, <1>a DEF CleanedIsDecided
  <2> QED
    BY <2>3, <2>4, <2>5
<1> QED
  BY <1>2, <1>3, <1>4, <1>5, <1>6 DEF CleanStep, AmendStep

\* The part of the invariant that is not about types and locks.
Rest == Open /\ Reader /\ CleanedIsDecided

\* Every step of the system keeps the invariant.
LEMMA NextSafe ==
  ASSUME Safe, [Next]_vars
  PROVE  Safe'
<1>1. Typed' /\ Guarded'
  BY NextTyped, NextGuarded DEF Safe
<1>2. ASSUME NEW p \in Procs, Start(p) PROVE Rest'
  <2>1. PICK c \in Commands[p] :
           /\ pc[p] = "idle"
           /\ cmd' = [cmd EXCEPT ![p] = c]
           /\ pc' = [pc EXCEPT ![p] = FirstStep(c)]
           /\ UNCHANGED <<files, idx, snap>>
    BY <1>2 DEF Start, Goto
  <2>2. FirstStep(c) \notin Admitted \cup Reading \cup {"d_write", "c_delete"}
    BY DEF FirstStep, Admitted, Reading, AttemptLabels
  <2>3. pc'[p] = FirstStep(c) /\ idx'[p] = 1
    BY <2>1 DEF Safe, Reader, Reading, Typed, TypeOK
  <2>4. \A q \in Procs \ {p} : /\ pc'[q] = pc[q] /\ cmd'[q] = cmd[q]
                               /\ idx'[q] = idx[q] /\ snap'[q] = snap[q]
    BY <2>1 DEF Safe, Typed, TypeOK
  <2> QED
    BY <2>1, <2>2, <2>3, <2>4, QuietSafe DEF Rest
<1>3. ASSUME NEW p \in Procs, Kill(p) PROVE Rest'
  BY <1>3, GoneSafe DEF Kill, Rest
<1>4. ASSUME NEW p \in Procs, Step(p) PROVE Rest'
  BY <1>4, StageSafe, DecideSafe, OwnerSafe DEF Step, Rest
<1>5. ASSUME UNCHANGED vars PROVE Rest'
  <2>1. Open'
    BY <1>5 DEF Safe, Open
  <2>2. Reader'
    BY <1>5 DEF Safe, Reader, Before
  <2>3. CleanedIsDecided'
    BY <1>5 DEF Safe, CleanedIsDecided
  <2> QED
    BY <2>1, <2>2, <2>3 DEF Rest
<1>6. Rest'
  BY <1>2, <1>3, <1>4, <1>5 DEF Next
<1> QED
  BY <1>1, <1>6 DEF Safe, Rest

\* The empty directory satisfies the invariant.
LEMMA InitSafe == Init => Safe
<1> SUFFICES ASSUME Init PROVE Safe
  OBVIOUS
<1>1. Guarded /\ Open /\ Reader
  BY DEF Init, Guarded, Open, Reader, Locked, Sharing, Owning, Admitted, Reading,
       StageLabels, AttemptLabels
<1>2. CleanedIsDecided
  BY DEF Init, CleanedIsDecided
<1> QED
  BY <1>1, <1>2, InitTyped DEF Safe

\* A step of the system writes no file of a finished stage.
LEMMA NextFinal ==
  ASSUME Safe, [Next]_vars, NEW s \in Stages, state[s].status \in FINAL
  PROVE  state'[s] = state[s] /\ evidence'[s] = evidence[s]
<1>1. CASE UNCHANGED vars
  BY <1>1
<1>2. CASE Next
  <2>1. PICK p \in Procs : Start(p) \/ Step(p) \/ Kill(p)
    BY <1>2 DEF Next
  <2>2. CASE StageStep(p)
    <3>1. StageEffect(p)
      BY <2>2, StageEffects DEF Safe
    <3> QED
      BY <3>1 DEF StageEffect, WritesOwn
  <2>3. CASE Start(p) \/ Kill(p)
    BY <2>3 DEF Start, Kill
  <2>4. CASE DecideStep(p)
    BY <2>4 DEF DecideStep, DecideShared, DecideLock, ReadState, ReadEvidence, Rehash,
         RehashDiffers, WriteDecision, AfterDecide
  <2>5. CASE CleanStep(p) \/ AmendStep(p)
    BY <2>5 DEF CleanStep, AmendStep, CleanLock, AmendLock, LockExclusive, CleanRefused,
         CleanPlan, CleanDelete, CleanDone, Amend
  <2> QED
    BY <2>1, <2>2, <2>3, <2>4, <2>5 DEF Step
<1> QED
  BY <1>1, <1>2

-----------------------------------------------------------------------------
(* The theorems *)

\* Nothing is deleted before the session is decided as it stands: whenever clean.json exists
\* the recorded decision is about the current states and no stage is unfinished, however
\* stages, decides and cleans interleave and wherever they are killed.
THEOREM CleaningIsSafe == Spec => []CleanedIsDecided
<1>1. Safe /\ [Next]_vars => Safe'
  BY NextSafe
<1>2. Safe => CleanedIsDecided
  BY DEF Safe
<1> QED
  BY InitSafe, <1>1, <1>2, PTL DEF Spec

\* A finished stage is never written again, neither its state file nor its evidence, by any
\* command of any process.
THEOREM FinishedIsFinal == Spec => FinalIsForever
<1>1. Safe /\ [Next]_vars => Safe'
  BY NextSafe
<1>2. Safe /\ [Next]_vars =>
        [\A s \in Stages : state[s].status \in FINAL
            => state'[s] = state[s] /\ evidence'[s] = evidence[s]]_vars
  BY NextFinal
<1> QED
  BY InitSafe, <1>1, <1>2, PTL DEF Spec, FinalIsForever
=============================================================================
