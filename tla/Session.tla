------------------------------ MODULE Session -------------------------------
(***************************************************************************)
(* One session directory and the commands that share it: the five stages,  *)
(* decide, clean and the cost amendment, each an operating system process  *)
(* that may be killed between any two of its file operations.              *)
(*                                                                         *)
(* The processes meet only in files.  Every file is replaced atomically    *)
(* (write_json), so a step of the model is one file write, or one file     *)
(* read whose result is used after other processes may have moved.         *)
(* Locks are flocks: a killed process loses its locks and nothing else.    *)
(***************************************************************************)
EXTENDS Naturals, Sequences, Verdicts

CONSTANTS
    Procs,        \* processes, each runs one command at a time
    Commands,     \* Commands[p]: the commands process p is started with
    Harnesses,    \* harness versions installed on the hosts
    Bulk,         \* what clean deletes: evolved build, snapshots, outputs, ...
    Grades,       \* Grades[s]: the sets of records the body of stage s may end with
    SameBuild,    \* both source folders build to the same build id (an A/A session)
    None,         \* no process, no harness
    MaxAttempts,  \* bound: no invocation of stage s starts after MaxAttempts[s] attempts
    MaxKills      \* bound: kills

ASSUME CommandsAssumption ==
    Commands \in [Procs -> SUBSET (Stages \cup {"decide", "clean", "amend"})]
ASSUME GradesAssumption ==
    /\ Grades \in [Stages -> SUBSET SUBSET Record]
    /\ \A s \in Stages : \A g \in Grades[s] : \A r \in g :
          /\ r.id[1] = s /\ r.id[2] # "error"
          \* What verdict() refuses as a HarnessError.
          /\ r.id[2] = "improvement" => r.kind = "improvement"
          /\ r.result = "passed_on_rerun" => r.kind = "cost"
    \* A body either records each of its checks, passed or not, or ends in an exception.
    /\ \A g \in Grades["compile"] : <<"compile", "roundtrip">> \in IdsOf(g)
    /\ \A g \in Grades["quality"] :
          {<<"quality", "audit">>, <<"quality", "guards">>} \subseteq IdsOf(g)
\* Identical builds give identical observations, whose log ratio of 0 is no improvement.
ASSUME SameBuildAssumption ==
    /\ SameBuild \in BOOLEAN
    /\ SameBuild => \A s \in Stages : \A g \in Grades[s] : \A r \in g :
                      r.kind = "improvement" => r.result # "passed"
ASSUME NoneAssumption == None \notin Procs /\ None \notin Harnesses
ASSUME BoundsAssumption == MaxAttempts \in [Stages -> Nat] /\ MaxKills \in Nat

VARIABLES
    dir,        \* the session directory
    state,      \* stages/<stage>/state.json
    evidence,   \* stages/<stage>/evidence.json
    pin,        \* run.json: the harness each stage must run with
    bulk,       \* the bulk that exists
    clean,      \* clean.json: status
    planned,    \* clean.json: planned deletions
    decision,   \* decision.json
    sharers, exclusive, stageLock, decideLock,  \* the flocks
    pc, cmd, harness, records, fate, idx, snap, seen,  \* of each process
    kills

files == <<dir, state, evidence, pin, bulk, clean, planned, decision>>
locks == <<sharers, exclusive, stageLock, decideLock>>
local == <<pc, cmd, harness, records, fate, idx, snap, seen>>
vars == <<files, locks, local, kills>>

-----------------------------------------------------------------------------
(* Stages and their states *)

Statuses == FINAL \cup UNFINISHED \cup {"none", "failed"}
Gates == {"none", "improved", "aa", "closed"}

\* A state file.  Two writes of one file never have the same content (attempts,
\* status, times), so comparing two contents stands for comparing their hashes.
StateFile == [status: Statuses, attempts: Nat, gate: Gates, harness: Harnesses \cup {None}]
NotStarted == [status |-> "none", attempts |-> 0, gate |-> "none", harness |-> None]

\* A record as stored: with the attempt that wrote it.
Row == [id: Ids, kind: KINDS, result: RESULTS, subject: Subjects, by: Nat]
Tag(r, n) == [id |-> r.id, kind |-> r.kind, result |-> r.result, subject |-> r.subject,
              by |-> n]

IsCrash(r) == r.id[2] = "error"

\* Comparison.evidence: a record replaces the one with its id.
Put(rows, new) == {r \in rows : \A n \in new : n.id # r.id} \cup new

\* What a stage has committed, given the state file that was read for it.
committed_evidence(st, rows) ==
    {r \in rows : st.status = "complete" \/ (st.status = "failed" /\ IsCrash(r))}

Committed(s) == committed_evidence(state[s], evidence[s])

cost_due == cost_stage_due(SameBuild, UNION {Committed(s) : s \in {"compile", "quality", "correctness"}})

skip_reason(s) ==
    /\ s \in GATED
    /\ state["quality"].status = "complete"
    /\ \/ state["quality"].gate = "closed"
       \/ s = "cost" /\ state["correctness"].status = "complete" /\ cost_due = "no"

-----------------------------------------------------------------------------
(* Initial state: nothing exists yet. *)

NoSnap == [s \in Stages |-> NotStarted]
NoEvidence == [s \in Stages |-> {}]

Init ==
    /\ dir = "absent"
    /\ state = NoSnap
    /\ evidence = NoEvidence
    /\ pin = [s \in Stages |-> None]
    /\ bulk = {}
    /\ clean = "none"
    /\ planned = {}
    /\ decision = [states |-> NoSnap, evidence |-> NoEvidence, verdict |-> "none"]
    /\ sharers = {}
    /\ exclusive = None
    /\ stageLock = [s \in Stages |-> None]
    /\ decideLock = None
    /\ pc = [p \in Procs |-> "idle"]
    /\ cmd = [p \in Procs |-> "none"]
    /\ harness = [p \in Procs |-> None]
    /\ records = [p \in Procs |-> {}]
    /\ fate = [p \in Procs |-> "none"]
    /\ idx = [p \in Procs |-> 1]
    /\ snap = [p \in Procs |-> NoSnap]
    /\ seen = [p \in Procs |-> NoEvidence]
    /\ kills = 0

(* The process is gone: its locks are released and its memory is lost. *)
Gone(p) ==
    /\ pc' = [pc EXCEPT ![p] = "idle"]
    /\ cmd' = [cmd EXCEPT ![p] = "none"]
    /\ harness' = [harness EXCEPT ![p] = None]
    /\ records' = [records EXCEPT ![p] = {}]
    /\ fate' = [fate EXCEPT ![p] = "none"]
    /\ idx' = [idx EXCEPT ![p] = 1]
    /\ snap' = [snap EXCEPT ![p] = NoSnap]
    /\ seen' = [seen EXCEPT ![p] = NoEvidence]
    /\ sharers' = sharers \ {p}
    /\ exclusive' = IF exclusive = p THEN None ELSE exclusive
    /\ stageLock' = [s \in Stages |-> IF stageLock[s] = p THEN None ELSE stageLock[s]]
    /\ decideLock' = IF decideLock = p THEN None ELSE decideLock

Exit(p) == Gone(p) /\ UNCHANGED kills

Goto(p, label) == pc' = [pc EXCEPT ![p] = label]

FirstStep(c) ==
    IF c = "compile" THEN "dircheck"
    ELSE IF c = "decide" THEN "d_shared"
    ELSE IF c = "clean" THEN "c_lock"
    ELSE IF c = "amend" THEN "a_lock"
    ELSE "lifecycle"

(* A command is started.  Every command but compile needs run.json. *)
Start(p) ==
    \E c \in Commands[p], h \in Harnesses :
        /\ pc[p] = "idle"
        /\ c # "compile" => dir = "session"
        /\ c \in Stages => state[c].attempts < MaxAttempts[c]
        /\ cmd' = [cmd EXCEPT ![p] = c]
        /\ harness' = [harness EXCEPT ![p] = h]
        /\ Goto(p, FirstStep(c))
        /\ UNCHANGED <<files, locks, records, fate, idx, snap, seen, kills>>

(* A kill at any point. *)
Kill(p) ==
    /\ pc[p] # "idle"
    /\ kills < MaxKills
    /\ kills' = kills + 1
    /\ Gone(p)
    /\ UNCHANGED files

-----------------------------------------------------------------------------
(* A stage, up to the decision whether its body runs *)

(* run_compile: a directory that exists without run.json is a usage error. *)
CheckSessionDirectory(p) ==
    /\ pc[p] = "dircheck"
    /\ \/ dir \in {"absent", "session"} /\ Goto(p, "mkdir")
                /\ UNCHANGED <<locks, cmd, harness, records, fate, idx, snap, seen, kills>>
       \/ dir \in {"empty", "files"} /\ Exit(p)
    /\ UNCHANGED files

MakeDirectory(p) ==
    /\ pc[p] = "mkdir"
    /\ dir' = IF dir = "absent" THEN "empty" ELSE dir
    /\ Goto(p, "lifecycle")
    /\ UNCHANGED <<state, evidence, pin, bulk, clean, planned, decision>>
    /\ UNCHANGED <<locks, cmd, harness, records, fate, idx, snap, seen, kills>>

(* session_locks: lifecycle.lock shared, then the stage lock; both give up when busy. *)
LockLifecycle(p) ==
    /\ pc[p] = "lifecycle"
    /\ \/ /\ exclusive = None
          /\ sharers' = sharers \cup {p}
          /\ Goto(p, "stagelock")
          /\ UNCHANGED <<exclusive, stageLock, decideLock>>
          /\ UNCHANGED <<cmd, harness, records, fate, idx, snap, seen, kills>>
       \/ exclusive # None /\ Exit(p)
    /\ UNCHANGED files

\* Mutant: the stage lock is not exclusive.
LockStageShared(p) ==
    /\ pc[p] = "stagelock"
    /\ stageLock' = [stageLock EXCEPT ![cmd[p]] = p]
    /\ Goto(p, "check")
    /\ UNCHANGED <<files, sharers, exclusive, decideLock>>
    /\ UNCHANGED <<cmd, harness, records, fate, idx, snap, seen, kills>>

LockStage(p) ==
    /\ pc[p] = "stagelock"
    /\ \/ /\ stageLock[cmd[p]] = None
          /\ stageLock' = [stageLock EXCEPT ![cmd[p]] = p]
          /\ Goto(p, "check")
          /\ UNCHANGED <<sharers, exclusive, decideLock>>
          /\ UNCHANGED <<cmd, harness, records, fate, idx, snap, seen, kills>>
       \/ stageLock[cmd[p]] # None /\ Exit(p)
    /\ UNCHANGED files

\* Mutants: each leaves out one check.
RefusedButFinished(p) ==
    \/ clean # "none"
    \/ dir = "session" /\ harness[p] # pin[cmd[p]]
    \/ \E n \in PREREQUISITES(cmd[p]) : state[n].status \notin FINAL

RefusedButCleaned(p) ==
    \/ state[cmd[p]].status \in FINAL
    \/ dir = "session" /\ harness[p] # pin[cmd[p]]
    \/ \E n \in PREREQUISITES(cmd[p]) : state[n].status \notin FINAL

RefusedButTooEarly(p) ==
    \/ clean # "none"
    \/ state[cmd[p]].status \in FINAL
    \/ dir = "session" /\ harness[p] # pin[cmd[p]]

(* Why an invocation ends under its locks without touching anything. *)
Refused(p) ==
    \/ cmd[p] = "compile" /\ dir = "files"
    \/ clean # "none"
    \/ state[cmd[p]].status \in FINAL
    \/ dir = "session" /\ harness[p] # pin[cmd[p]]
    \/ \E n \in PREREQUISITES(cmd[p]) : state[n].status \notin FINAL

EndUnstarted(p) ==
    /\ pc[p] = "check"
    /\ Refused(p)
    /\ Exit(p)
    /\ UNCHANGED files

(* The store or its baseline build is missing, this host cannot run the builds, the
   session's cost monitor is not the one of this invocation; or compile was given other
   inputs than those of the session. *)
EnvironmentRefuses(p) ==
    /\ pc[p] = "check"
    /\ dir = "session"
    /\ ~Refused(p)
    /\ Exit(p)
    /\ UNCHANGED files

(* _skip: the gate ends the stage with a final state. *)
Skip(p) ==
    /\ pc[p] = "check"
    /\ ~Refused(p)
    /\ skip_reason(cmd[p])
    /\ state' = [state EXCEPT ![cmd[p]] =
                    [status |-> "skipped", attempts |-> @.attempts, gate |-> "none",
                     harness |-> harness[p]]]
    /\ Exit(p)
    /\ UNCHANGED <<dir, evidence, pin, bulk, clean, planned, decision>>

\* Mutant: the crash record of the last attempt is kept.
AdmitKeepsCrash(p) ==
    /\ pc[p] = "check"
    /\ ~Refused(p)
    /\ ~skip_reason(cmd[p])
    /\ records' = [records EXCEPT ![p] = evidence[cmd[p]]]
    /\ Goto(p, IF dir # "session" THEN "create" ELSE IF cmd[p] = "cost" THEN "prepare" ELSE "start")
    /\ UNCHANGED <<files, locks, cmd, harness, fate, idx, snap, seen, kills>>

(* The attempt is admitted; its records start from the file, without the crash record. *)
Admit(p) ==
    /\ pc[p] = "check"
    /\ ~Refused(p)
    /\ ~skip_reason(cmd[p])
    /\ records' = [records EXCEPT ![p] = {r \in evidence[cmd[p]] : ~IsCrash(r)}]
    /\ Goto(p, IF dir # "session" THEN "create" ELSE IF cmd[p] = "cost" THEN "prepare" ELSE "start")
    /\ UNCHANGED <<files, locks, cmd, harness, fate, idx, snap, seen, kills>>

(* Comparison.create: the archived profile, then run.json. *)
ArchiveProfile(p) ==
    /\ pc[p] = "create"
    /\ dir' = "files"
    /\ Goto(p, "runjson")
    /\ UNCHANGED <<state, evidence, pin, bulk, clean, planned, decision>>
    /\ UNCHANGED <<locks, cmd, harness, records, fate, idx, snap, seen, kills>>

WriteRun(p) ==
    /\ pc[p] = "runjson"
    /\ dir' = "session"
    /\ pin' = [s \in Stages |-> harness[p]]
    /\ Goto(p, "start")
    /\ UNCHANGED <<state, evidence, bulk, clean, planned, decision>>
    /\ UNCHANGED <<locks, cmd, harness, records, fate, idx, snap, seen, kills>>

(* monitor.prepare: a refused allocation leaves the state as it was; a dirty idle probe or
   a crash is carried into the attempt and ends it noisy or failed. *)
PrepareRefuses(p) ==
    /\ pc[p] = "prepare"
    /\ Exit(p)
    /\ UNCHANGED files

Prepare(p) ==
    /\ pc[p] = "prepare"
    /\ \E f \in {"none", "noisy", "failed"} : fate' = [fate EXCEPT ![p] = f]
    /\ Goto(p, "start")
    /\ UNCHANGED <<files, locks, cmd, harness, records, idx, snap, seen, kills>>

-----------------------------------------------------------------------------
(* A stage, its attempt: state "running", evidence, body, evidence, final state *)

WriteRunning(p) ==
    /\ pc[p] = "start"
    /\ state' = [state EXCEPT ![cmd[p]] =
                    [status |-> "running", attempts |-> @.attempts + 1, gate |-> "none",
                     harness |-> harness[p]]]
    /\ Goto(p, "open")
    /\ UNCHANGED <<dir, evidence, pin, bulk, clean, planned, decision>>
    /\ UNCHANGED <<locks, cmd, harness, records, fate, idx, snap, seen, kills>>

(* Store rows in the process's records and in the stage's evidence file. *)
Save(p, rows) ==
    /\ records' = [records EXCEPT ![p] = rows]
    /\ evidence' = [evidence EXCEPT ![cmd[p]] = rows]

OpenEvidence(p) ==
    /\ pc[p] = "open"
    /\ Save(p, records[p])
    /\ Goto(p, IF fate[p] = "none" THEN "body" ELSE "prepared")
    /\ UNCHANGED <<dir, state, pin, bulk, clean, planned, decision>>
    /\ UNCHANGED <<locks, cmd, harness, fate, idx, snap, seen, kills>>

(* The body begins: compile builds, the gated stages forget earlier records. *)
BodyBegin(p) ==
    /\ pc[p] = "body"
    /\ Save(p, IF cmd[p] \in Resets THEN {} ELSE records[p])
    /\ bulk' = IF cmd[p] = "compile" THEN Bulk ELSE bulk
    /\ Goto(p, "work")
    /\ UNCHANGED <<dir, state, pin, clean, planned, decision>>
    /\ UNCHANGED <<locks, cmd, harness, fate, idx, snap, seen, kills>>

Attempt(p) == state[cmd[p]].attempts

Tagged(p, g) == {Tag(r, Attempt(p)) : r \in g}

(* The body saves a first record; then, in BodyDone, all of them. *)
BodyRecord(p) ==
    /\ pc[p] = "work"
    /\ \E g \in Grades[cmd[p]] : \E r \in g : Save(p, Put(records[p], {Tag(r, Attempt(p))}))
    /\ Goto(p, "more")
    /\ UNCHANGED <<dir, state, pin, bulk, clean, planned, decision>>
    /\ UNCHANGED <<locks, cmd, harness, fate, idx, snap, seen, kills>>

BodyDone(p) ==
    /\ pc[p] = "more"
    /\ \E g \in Grades[cmd[p]] :
          /\ {r \in records[p] : r.by = Attempt(p)} \subseteq Tagged(p, g)
          /\ Save(p, Put(records[p], Tagged(p, g)))
    /\ fate' = [fate EXCEPT ![p] = "complete"]
    /\ Goto(p, "commit")
    /\ UNCHANGED <<dir, state, pin, bulk, clean, planned, decision>>
    /\ UNCHANGED <<locks, cmd, harness, idx, snap, seen, kills>>

(* Any exception: the crash record is added, the stage will be failed. *)
BodyFails(p) ==
    /\ \/ pc[p] \in {"body", "work", "more"}
       \/ pc[p] = "prepared" /\ fate[p] = "failed"
    /\ Save(p, Put(records[p], {Tag(Crash(cmd[p]), Attempt(p))}))
    /\ fate' = [fate EXCEPT ![p] = "failed"]
    /\ Goto(p, "commit")
    /\ UNCHANGED <<dir, state, pin, bulk, clean, planned, decision>>
    /\ UNCHANGED <<locks, cmd, harness, idx, snap, seen, kills>>

(* Contaminated: the cost monitor detected interference. *)
BodyNoisy(p) ==
    /\ \/ pc[p] \in {"work", "more"} /\ cmd[p] = "cost"
       \/ pc[p] = "prepared" /\ fate[p] = "noisy"
    /\ fate' = [fate EXCEPT ![p] = "noisy"]
    /\ Goto(p, "commit")
    /\ UNCHANGED <<files, locks, cmd, harness, records, idx, snap, seen, kills>>

CommitEvidence(p) ==
    /\ pc[p] = "commit"
    /\ Save(p, records[p])
    /\ Goto(p, "final")
    /\ UNCHANGED <<dir, state, pin, bulk, clean, planned, decision>>
    /\ UNCHANGED <<locks, cmd, harness, fate, idx, snap, seen, kills>>

\* Mutant: the gate is judged by the records of quality alone.
WriteFinalOwnGate(p) ==
    /\ pc[p] = "final"
    /\ state' = [state EXCEPT ![cmd[p]].status = fate[p],
                   ![cmd[p]].gate =
                     IF cmd[p] = "quality" /\ fate[p] = "complete"
                     THEN gate(SameBuild, records[p], RequiredQuality, ImprovementIds)
                     ELSE "none"]
    /\ Exit(p)
    /\ UNCHANGED <<dir, evidence, pin, bulk, clean, planned, decision>>

(* The final state is the commit marker; quality's carries the gate. *)
WriteFinal(p) ==
    /\ pc[p] = "final"
    /\ state' = [state EXCEPT ![cmd[p]].status = fate[p],
                   ![cmd[p]].gate =
                     IF cmd[p] = "quality" /\ fate[p] = "complete"
                     THEN gate(SameBuild, Committed("compile") \cup records[p],
                               RequiredQuality, ImprovementIds)
                     ELSE "none"]
    /\ Exit(p)
    /\ UNCHANGED <<dir, evidence, pin, bulk, clean, planned, decision>>

-----------------------------------------------------------------------------
(* decide: a snapshot of the stages, the verdict, then cleanup *)

DecideShared(p) ==
    /\ pc[p] = "d_shared"
    /\ exclusive = None
    /\ sharers' = sharers \cup {p}
    /\ Goto(p, "d_lock")
    /\ UNCHANGED <<files, exclusive, stageLock, decideLock>>
    /\ UNCHANGED <<cmd, harness, records, fate, idx, snap, seen, kills>>

DecideLock(p) ==
    /\ pc[p] = "d_lock"
    /\ decideLock = None
    /\ decideLock' = p
    /\ Goto(p, "d_states")
    /\ UNCHANGED <<files, sharers, exclusive, stageLock>>
    /\ UNCHANGED <<cmd, harness, records, fate, idx, snap, seen, kills>>

\* The stage at the reader's position; after the last one the next pass begins.
At(p) == STAGE_ORDER[idx[p]]
\* Mutant: a pass does not end at the last stage.
AdvancePast(p, next) ==
    /\ idx' = [idx EXCEPT ![p] = @ + 1]
    /\ Goto(p, IF idx[p] = Len(STAGE_ORDER) THEN next ELSE pc[p])

Advance(p, next) ==
    /\ idx' = [idx EXCEPT ![p] = IF @ = Len(STAGE_ORDER) THEN 1 ELSE @ + 1]
    /\ Goto(p, IF idx[p] = Len(STAGE_ORDER) THEN next ELSE pc[p])

(* _snapshot: every state, then the evidence those states commit, then every hash again. *)
ReadState(p) ==
    /\ pc[p] = "d_states"
    /\ snap' = [snap EXCEPT ![p][At(p)] = state[At(p)]]
    /\ Advance(p, "d_evidence")
    /\ UNCHANGED <<files, locks, cmd, harness, records, fate, seen, kills>>

\* Mutant: evidence is read whether or not the state commits it.
ReadEvidenceUncommitted(p) ==
    /\ pc[p] = "d_evidence"
    /\ seen' = [seen EXCEPT ![p][At(p)] = evidence[At(p)]]
    /\ Advance(p, "d_rehash")
    /\ UNCHANGED <<files, locks, cmd, harness, records, fate, snap, kills>>

ReadEvidence(p) ==
    /\ pc[p] = "d_evidence"
    /\ seen' = [seen EXCEPT ![p][At(p)] =
                   committed_evidence(snap[p][At(p)], evidence[At(p)])]
    /\ Advance(p, "d_rehash")
    /\ UNCHANGED <<files, locks, cmd, harness, records, fate, snap, kills>>

\* Mutant: the second hash is not compared with the first.
RehashUnchecked(p) ==
    /\ pc[p] = "d_rehash"
    /\ Advance(p, "d_write")
    /\ UNCHANGED <<files, locks, cmd, harness, records, fate, snap, seen, kills>>

Rehash(p) ==
    /\ pc[p] = "d_rehash"
    /\ state[At(p)] = snap[p][At(p)]
    /\ Advance(p, "d_write")
    /\ UNCHANGED <<files, locks, cmd, harness, records, fate, snap, seen, kills>>

\* Mutant: only the hashes are read again, not the states.
RehashDiffersHashesOnly(p) ==
    /\ pc[p] = "d_rehash"
    /\ state[At(p)] # snap[p][At(p)]
    /\ idx' = [idx EXCEPT ![p] = 1]
    /\ UNCHANGED <<files, locks, pc, cmd, harness, records, fate, snap, seen, kills>>

RehashDiffers(p) ==
    /\ pc[p] = "d_rehash"
    /\ state[At(p)] # snap[p][At(p)]
    /\ idx' = [idx EXCEPT ![p] = 1]
    /\ snap' = [snap EXCEPT ![p] = NoSnap]
    /\ seen' = [seen EXCEPT ![p] = NoEvidence]
    /\ Goto(p, "d_states")
    /\ UNCHANGED <<files, locks, cmd, harness, records, fate, kills>>

(* Which stages the verdict needs; whether cost is due is read from the files again. *)
RequiredStages(states) ==
    {"compile", "quality"}
    \cup (IF states["quality"].status = "complete"
             /\ states["quality"].gate \in {"improved", "aa"}
          THEN {"correctness"}
               \cup (IF states["correctness"].status = "complete" /\ cost_due # "no"
                     THEN {"cost"} ELSE {})
          ELSE {})
    \cup (IF states["unit-tests"].status \in {"running", "failed", "complete"}
          THEN {"unit-tests"} ELSE {})

Pending(states) ==
    {s \in RequiredStages(states) : states[s].status \notin FINAL \cup {"failed"}}

RequiredIds(states) ==
    RequiredQuality \cup {<<"correctness", "preflight">>, <<"correctness", "suite">>,
                         <<"cost", "panel">>}
    \cup (IF "unit-tests" \in RequiredStages(states)
          THEN {<<"unit-tests", "upstream">>} ELSE {})

(* A baseline that failed its preflight sets the quality evidence aside. *)
Considered(rows) ==
    LET all == UNION {rows[s] : s \in Stages}
        preflightFailed == \E r \in all : r.id = <<"correctness", "preflight">>
                                         /\ r.result = "failed"
    IN  IF preflightFailed
        THEN {r \in all : r.id[1] \in {"compile", "correctness"} \/ r.kind = "harness"}
        ELSE all

SessionVerdict(states, rows) ==
    LET v == verdict(Considered(rows), RequiredIds(states))
    IN  IF Pending(states) # {} /\ v # "ERROR" THEN "INCONCLUSIVE" ELSE v

(* The decision is written and both locks are released; cleanup_blocker will want to know
   whether a required stage had not started. *)
WriteDecision(p) ==
    /\ pc[p] = "d_write"
    /\ decision' = [states |-> snap[p], evidence |-> seen[p],
                    verdict |-> SessionVerdict(snap[p], seen[p])]
    /\ fate' = [fate EXCEPT ![p] =
                  IF \E s \in RequiredStages(snap[p]) : snap[p][s].status = "none"
                  THEN "blocked" ELSE "none"]
    /\ sharers' = sharers \ {p}
    /\ decideLock' = None
    /\ snap' = [snap EXCEPT ![p] = NoSnap]
    /\ seen' = [seen EXCEPT ![p] = NoEvidence]
    /\ Goto(p, "d_after")
    /\ UNCHANGED <<dir, state, evidence, pin, bulk, clean, planned>>
    /\ UNCHANGED <<exclusive, stageLock, cmd, harness, records, idx, kills>>

(* after_decide: clean in the same process unless a safety check refuses. *)
CleanupBlocked(p) ==
    \/ clean = "complete"
    \/ \E s \in Stages : state[s].status \in UNFINISHED
    \/ fate[p] = "blocked"

AfterDecide(p) ==
    /\ pc[p] = "d_after"
    /\ \/ CleanupBlocked(p) /\ Exit(p)
       \/ /\ ~CleanupBlocked(p)
          /\ Goto(p, "c_lock")
          /\ UNCHANGED <<locks, cmd, harness, records, fate, idx, snap, seen, kills>>
    /\ UNCHANGED files

-----------------------------------------------------------------------------
(* clean and amend: commands that own the session *)

LockExclusive(p, next) ==
    /\ \/ /\ sharers = {}
          /\ exclusive = None
          /\ exclusive' = p
          /\ Goto(p, next)
          /\ UNCHANGED <<sharers, stageLock, decideLock>>
          /\ UNCHANGED <<cmd, harness, records, fate, idx, snap, seen, kills>>
       \/ ~(sharers = {} /\ exclusive = None) /\ Exit(p)
    /\ UNCHANGED files

CleanLock(p) == pc[p] = "c_lock" /\ LockExclusive(p, "c_check")

\* Mutant: any decision will do.
CleanAllowedStale ==
    /\ \A s \in Stages : state[s].status \notin UNFINISHED
    /\ decision.verdict # "none"

CleanAllowed ==
    /\ \A s \in Stages : state[s].status \notin UNFINISHED
    /\ decision.verdict # "none"
    /\ decision.states = state

CleanRefused(p) ==
    /\ pc[p] = "c_check"
    /\ clean = "complete" \/ (clean = "none" /\ ~CleanAllowed)
    /\ Exit(p)
    /\ UNCHANGED files

(* The deletions are recorded before the first one; a killed clean resumes from the list. *)
CleanPlan(p) ==
    /\ pc[p] = "c_check"
    /\ \/ clean = "none" /\ CleanAllowed /\ clean' = "cleaning" /\ planned' = bulk
       \/ clean = "cleaning" /\ UNCHANGED <<clean, planned>>
    /\ Goto(p, "c_delete")
    /\ UNCHANGED <<dir, state, evidence, pin, bulk, decision>>
    /\ UNCHANGED <<locks, cmd, harness, records, fate, idx, snap, seen, kills>>

CleanDelete(p) ==
    /\ pc[p] = "c_delete"
    /\ \E b \in planned \cap bulk : bulk' = bulk \ {b}
    /\ UNCHANGED <<dir, state, evidence, pin, clean, planned, decision>>
    /\ UNCHANGED <<locks, local, kills>>

CleanDone(p) ==
    /\ pc[p] = "c_delete"
    /\ planned \cap bulk = {}
    /\ clean' = "complete"
    /\ Exit(p)
    /\ UNCHANGED <<dir, state, evidence, pin, bulk, planned, decision>>

AmendLock(p) == pc[p] = "a_lock" /\ LockExclusive(p, "a_write")

\* Mutant: a finished cost stage can be re-pinned.
AmendAllowedFinished(p) ==
    /\ clean = "none"
    /\ \A s \in {"compile", "quality", "correctness"} : state[s].status \in FINAL
    /\ state["unit-tests"].status \in FINAL \cup {"none"}
    /\ pin["cost"] # harness[p]

(* amend_cost re-pins the cost stage, and only while every other stage is settled. *)
AmendAllowed(p) ==
    /\ clean = "none"
    /\ \A s \in {"compile", "quality", "correctness"} : state[s].status \in FINAL
    /\ state["unit-tests"].status \in FINAL \cup {"none"}
    /\ state["cost"].status \notin FINAL
    /\ pin["cost"] # harness[p]

Amend(p) ==
    /\ pc[p] = "a_write"
    /\ pin' = IF AmendAllowed(p) THEN [pin EXCEPT !["cost"] = harness[p]] ELSE pin
    /\ Exit(p)
    /\ UNCHANGED <<dir, state, evidence, bulk, clean, planned, decision>>

-----------------------------------------------------------------------------

StageStep(p) ==
    \/ CheckSessionDirectory(p) \/ MakeDirectory(p) \/ LockLifecycle(p) \/ LockStage(p)
    \/ EndUnstarted(p) \/ EnvironmentRefuses(p) \/ Skip(p) \/ Admit(p)
    \/ ArchiveProfile(p) \/ WriteRun(p) \/ PrepareRefuses(p) \/ Prepare(p)
    \/ WriteRunning(p) \/ OpenEvidence(p) \/ BodyBegin(p) \/ BodyRecord(p) \/ BodyDone(p)
    \/ BodyFails(p) \/ BodyNoisy(p) \/ CommitEvidence(p) \/ WriteFinal(p)

DecideStep(p) ==
    \/ DecideShared(p) \/ DecideLock(p) \/ ReadState(p) \/ ReadEvidence(p)
    \/ Rehash(p) \/ RehashDiffers(p) \/ WriteDecision(p) \/ AfterDecide(p)

CleanStep(p) ==
    CleanLock(p) \/ CleanRefused(p) \/ CleanPlan(p) \/ CleanDelete(p) \/ CleanDone(p)

AmendStep(p) == AmendLock(p) \/ Amend(p)

Step(p) == StageStep(p) \/ DecideStep(p) \/ CleanStep(p) \/ AmendStep(p)

Next == \E p \in Procs : Start(p) \/ Step(p) \/ Kill(p)

Spec == Init /\ [][Next]_vars

(* Scheduling: the operating system runs every started command to its end unless it is
   killed, and flock(2) wakes a process that waits for a lock once the lock is released
   again and again; nothing makes an operator start a command. *)
Fairness ==
    \A p \in Procs :
        WF_vars(Step(p)) /\ SF_vars(DecideShared(p)) /\ SF_vars(DecideLock(p))

FairSpec == Spec /\ Fairness

-----------------------------------------------------------------------------
(* Properties *)

AttemptLabels == {"start", "open", "body", "prepared", "work", "more", "commit", "final"}
StageLabels == {"stagelock", "check", "create", "runjson", "prepare"} \cup AttemptLabels
Labels == StageLabels \cup {"idle", "dircheck", "mkdir", "lifecycle", "d_shared", "d_lock",
    "d_states", "d_evidence", "d_rehash", "d_write", "d_after", "c_lock", "c_check", "c_delete",
    "a_lock", "a_write"}

\* Every variable has its type: files of a session, locks, and processes' memory.
TypeOK ==
    /\ dir \in {"absent", "empty", "files", "session"}
    /\ state \in [Stages -> StateFile]
    /\ evidence \in [Stages -> SUBSET Row]
    /\ pin \in [Stages -> Harnesses \cup {None}]
    /\ bulk \subseteq Bulk
    /\ clean \in {"none", "cleaning", "complete"}
    /\ planned \subseteq Bulk
    /\ decision \in [states: [Stages -> StateFile], evidence: [Stages -> SUBSET Row],
                     verdict: VERDICTS \cup {"none"}]
    /\ sharers \subseteq Procs
    /\ exclusive \in Procs \cup {None}
    /\ stageLock \in [Stages -> Procs \cup {None}]
    /\ decideLock \in Procs \cup {None}
    /\ pc \in [Procs -> Labels]
    /\ cmd \in [Procs -> Stages \cup {"decide", "clean", "amend", "none"}]
    /\ harness \in [Procs -> Harnesses \cup {None}]
    /\ records \in [Procs -> SUBSET Row]
    /\ fate \in [Procs -> {"none", "complete", "failed", "noisy", "blocked"}]
    /\ idx \in [Procs -> 1..Len(STAGE_ORDER)]
    /\ snap \in [Procs -> [Stages -> StateFile]]
    /\ seen \in [Procs -> [Stages -> SUBSET Row]]
    /\ kills \in Nat

\* A finished stage never runs again: once its state file says complete or skipped, neither
\* that file nor the evidence it commits is written again, by any command.
FinalIsForever ==
    [][\A s \in Stages : state[s].status \in FINAL
          => state'[s] = state[s] /\ evidence'[s] = evidence[s]]_vars

\* A committed state names whole evidence: behind "complete" lie all records of the attempt
\* that committed, without a crash record and without an earlier attempt's record of the same
\* check (for the stages that reset their evidence, of any check); behind "failed" lies that
\* attempt's crash record.
CommittedIsWhole ==
    \A s \in Stages :
        LET crashes == {r \in evidence[s] : IsCrash(r)}
            graded(g) == {Tag(r, state[s].attempts) : r \in g}
        IN  /\ state[s].status = "complete" =>
                 /\ crashes = {}
                 /\ \E g \in Grades[s] :
                       /\ graded(g) \subseteq evidence[s]
                       /\ \A r \in evidence[s] : r \in graded(g) \/ r.id \notin IdsOf(g)
                       /\ s \in Resets => evidence[s] = graded(g)
            /\ state[s].status = "failed" => crashes = {Tag(Crash(s), state[s].attempts)}

\* The evidence a snapshot of the stages must hold: what the states in it committed.
SnapshotEvidence(states, rows) ==
    \A s \in Stages :
        rows[s] = IF states[s].status = "complete" THEN evidence[s]
                  ELSE IF states[s].status = "failed" THEN {Tag(Crash(s), states[s].attempts)}
                  ELSE {}

\* decide reads the stages one file at a time while they run, and still judges one instant
\* of the session: the states it records include every prerequisite of a started stage in
\* its final state, and the evidence is what exactly those states commit.
DecisionIsASnapshot ==
    decision.verdict # "none" =>
        /\ \A s \in Stages : decision.states[s].status # "none" =>
              \A n \in PREREQUISITES(s) : decision.states[n].status \in FINAL
        /\ SnapshotEvidence(decision.states, decision.evidence)

\* Deciding again without a change of the stages, also during and after a cleanup, gives the
\* same decision.
VerdictRepeats ==
    [][decision.verdict # "none" /\ decision'.states = decision.states
          => decision' = decision]_vars

\* Nothing is deleted before the session is decided as it stands: from the moment clean.json
\* exists, the recorded decision is about the current states, and no stage is unfinished.
CleanedIsDecided ==
    clean # "none" => /\ decision.verdict # "none"
                      /\ decision.states = state
                      /\ \A s \in Stages : state[s].status \notin UNFINISHED

\* No running attempt of a stage loses its build, snapshots or outputs to a clean, an
\* interrupted one included.
AttemptKeepsBulk ==
    \A p \in Procs : pc[p] \in AttemptLabels /\ cmd[p] # "compile" => bulk = Bulk

\* Stages run in order and under the gate: a started stage has final prerequisites, a gated
\* stage ran only with an open gate, cost only where correctness left it due, and a stage was
\* skipped only where the gate is closed or cost is not due.
StagesInOrder ==
    \A s \in Stages : state[s].status # "none" =>
        /\ \A n \in PREREQUISITES(s) : state[n].status \in FINAL
        /\ s \in GATED => /\ state["quality"].status = "complete"
                          /\ (state[s].status = "skipped") = skip_reason(s)

\* A PASS is earned: compile, quality, correctness and cost are complete, the gate opened
\* because of an improvement, and no stage committed a failed or a crash record to it.
PassIsEarned ==
    decision.verdict = "PASS" =>
        /\ \A s \in Stages \ {"unit-tests"} : state[s].status = "complete"
        /\ state["quality"].gate = "improved"
        /\ \A s \in Stages : \A r \in decision.evidence[s] : r.result # "failed"
        /\ decision.states["unit-tests"].status \notin {"running", "failed"}

\* An A/A session measures cost all the same, and it never passes: its cost stage is skipped
\* only after something other than the improvement went wrong.
IdenticalBuilds ==
    SameBuild =>
        /\ decision.verdict # "PASS"
        /\ state["cost"].status = "skipped" =>
             \E s \in {"compile", "quality", "correctness"} : \E r \in evidence[s] :
                 r.kind # "improvement" /\ r.result # "passed"

\* What run.json says measured a stage did measure it: a final state was written by the
\* harness pinned for its stage, and all stages but cost are pinned to one harness.
PinnedHarness ==
    \A s \in Stages :
        /\ state[s].status \in FINAL => state[s].harness = pin[s]
        /\ s # "cost" => pin[s] = pin["compile"]

\* What a reader sees of a stage: how its last attempt ended, if it has, and the records it
\* committed, whoever ran it and however often.
Content(rows) == {record(r.id, r.kind, r.result, r.subject) : r \in rows}
Outcome(s) ==
    [end |-> IF state[s].status \in {"none", "running", "noisy"} THEN "open" ELSE state[s].status,
     records |-> Content(Committed(s))]

\* The session's stages, with their locks, kills, retries and files written one after another,
\* are a SessionContract: each commits in a single step, in order and as the gate over the
\* committed records says.
Contract == INSTANCE SessionContract WITH outcome <- [s \in Stages |-> Outcome(s)]
ImplementsContract == Contract!Spec

\* Every invocation ends: no command waits forever for a lock or for a stable snapshot.
InvocationEnds == \A p \in Procs : pc[p] # "idle" ~> pc[p] = "idle"
=============================================================================
