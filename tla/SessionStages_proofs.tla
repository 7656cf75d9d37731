----------------------- MODULE SessionStages_proofs -----------------------
(***************************************************************************)
(* What a session's stages promise one another, for any number of          *)
(* processes: they run in their order and under the gate, a later attempt  *)
(* finds what compile built, final states were written by the harness that *)
(* run.json names, and behind a committed state lies whole evidence.       *)
(*                                                                         *)
(* And what a decision says of its session: decide reads the stages file   *)
(* by file while they run; it still judges one instant of them, deciding   *)
(* again repeats the decision, a PASS is earned by the stages, and         *)
(* identical builds never get one.                                         *)
(*                                                                         *)
(* Footprint says which action writes which file, Arrivals by which action *)
(* a process reaches which label of an attempt.  With them every invariant *)
(* below is a matter of the few actions that can disturb it.               *)
(*                                                                         *)
(* For the decision: a state file only moves forward (Later), so a hash    *)
(* that is the same twice was the same in between, and what decide read    *)
(* between the two is what that state commits.                             *)
(***************************************************************************)
EXTENDS Session_proofs

USE DEF files, locks, local, vars

-----------------------------------------------------------------------------
(* Who writes what *)

\* A step of process p: the only thing that happens in a step of the system.
Acts(p) == Start(p) \/ Step(p) \/ Kill(p)

Writing == {"open", "body", "work", "more", "prepared", "commit"}

\* Every file is written by the few actions made for it; nobody touches another's memory.
Footprint(p) ==
    /\ \A q \in Procs \ {p} : /\ pc'[q] = pc[q] /\ cmd'[q] = cmd[q]
                              /\ harness'[q] = harness[q] /\ fate'[q] = fate[q]
                              /\ records'[q] = records[q]
    /\ dir' = dir \/ MakeDirectory(p) \/ ArchiveProfile(p) \/ WriteRun(p)
    /\ pin' = pin \/ WriteRun(p) \/ Amend(p)
    /\ bulk' = bulk \/ BodyBegin(p) \/ CleanDelete(p)
    /\ clean' = "none" => clean = "none"
    /\ \A s \in Stages :
          /\ \/ state'[s] = state[s]
             \/ s = cmd[p] /\ (Skip(p) \/ WriteRunning(p) \/ WriteFinal(p))
          /\ \/ evidence'[s] = evidence[s]
             \/ s = cmd[p] /\ pc[p] \in Writing

\* A process keeps its command, and reaches a label of an attempt by the actions before it only.
Arrivals(p) ==
    /\ \/ pc'[p] = "idle" \/ Start(p)
       \/ pc[p] # "idle" /\ cmd'[p] = cmd[p] /\ harness'[p] = harness[p]
    /\ pc'[p] \in Admitted => cmd'[p] = cmd[p] /\ harness'[p] = harness[p]
    /\ pc'[p] = "create" => Admit(p)
    /\ pc'[p] = "runjson" => ArchiveProfile(p)
    /\ pc'[p] = "prepare" => Admit(p)
    /\ pc'[p] = "start" => Admit(p) \/ WriteRun(p) \/ Prepare(p)
    /\ pc'[p] = "open" => WriteRunning(p)
    /\ pc'[p] \in {"body", "prepared"} => OpenEvidence(p)
    /\ pc'[p] = "work" => BodyBegin(p)
    /\ pc'[p] = "more" => BodyRecord(p)
    /\ pc'[p] = "commit" => BodyDone(p) \/ BodyFails(p) \/ BodyNoisy(p)
    /\ pc'[p] = "final" => CommitEvidence(p)

\* A process that is gone has written nothing of the others and is at no label.
LEMMA GoneTraces ==
  ASSUME Typed, NEW p \in Procs, Gone(p)
  PROVE  /\ \A q \in Procs \ {p} : /\ pc'[q] = pc[q] /\ cmd'[q] = cmd[q]
                                   /\ harness'[q] = harness[q] /\ fate'[q] = fate[q]
                                   /\ records'[q] = records[q]
         /\ pc'[p] = "idle"
  BY DEF Typed, TypeOK, Gone

\* The steps of a stage leave these traces.
LEMMA StageTraces ==
  ASSUME Typed, NEW p \in Procs, StageStep(p)
  PROVE  Footprint(p) /\ Arrivals(p)
<1>t. /\ pc \in [Procs -> Labels] /\ state \in [Stages -> StateFile]
      /\ cmd \in [Procs -> Stages \cup {"decide", "clean", "amend", "none"}]
      /\ harness \in [Procs -> Harnesses \cup {None}] /\ records \in [Procs -> SUBSET Row]
      /\ fate \in [Procs -> {"none", "complete", "failed", "noisy", "blocked"}]
      /\ evidence \in [Stages -> SUBSET Row]
  BY DEF Typed, TypeOK
<1>g. ASSUME Gone(p), UNCHANGED <<dir, pin, bulk, clean, evidence>>,
             \A s \in Stages : \/ state'[s] = state[s]
                               \/ s = cmd[p] /\ (Skip(p) \/ WriteFinal(p))
      PROVE  Footprint(p) /\ Arrivals(p)
  <2>1. Footprint(p)
    BY <1>g, GoneTraces DEF Footprint
  <2>2. pc'[p] = "idle"
    BY <1>g, GoneTraces
  <2> QED
    BY <2>1, <2>2 DEF Arrivals, Admitted, AttemptLabels
<1>1. CASE CheckSessionDirectory(p)
  <2>1. CASE dir \in {"absent", "session"}
    BY <1>1, <1>t, <2>1 DEF CheckSessionDirectory, Goto, Footprint, Arrivals, Admitted, AttemptLabels
  <2>2. CASE dir \in {"empty", "files"}
    BY <1>1, <1>g, <2>2 DEF CheckSessionDirectory, Exit
  <2> QED
    BY <1>1, <2>1, <2>2 DEF CheckSessionDirectory
<1>2. CASE MakeDirectory(p)
  BY <1>2, <1>t DEF MakeDirectory, Goto, Footprint, Arrivals, Admitted, AttemptLabels
<1>3. CASE LockLifecycle(p)
  <2>1. CASE exclusive = None
    BY <1>3, <1>t, <2>1 DEF LockLifecycle, Goto, Footprint, Arrivals, Admitted, AttemptLabels
  <2>2. CASE exclusive # None
    BY <1>3, <1>g, <2>2 DEF LockLifecycle, Exit
  <2> QED
    BY <2>1, <2>2
<1>4. CASE LockStage(p)
  <2>1. CASE stageLock[cmd[p]] = None
    BY <1>4, <1>t, <2>1 DEF LockStage, Goto, Footprint, Arrivals, Admitted, AttemptLabels
  <2>2. CASE stageLock[cmd[p]] # None
    BY <1>4, <1>g, <2>2 DEF LockStage, Exit
  <2> QED
    BY <2>1, <2>2
<1>5. CASE EndUnstarted(p)
  BY <1>5, <1>g DEF EndUnstarted, Exit
<1>6. CASE EnvironmentRefuses(p)
  BY <1>6, <1>g DEF EnvironmentRefuses, Exit
<1>7. CASE Skip(p)
  <2>1. \A s \in Stages : state'[s] = state[s] \/ s = cmd[p]
    BY <1>7, <1>t DEF Skip
  <2>2. Gone(p) /\ UNCHANGED <<dir, pin, bulk, clean, evidence>>
    BY <1>7 DEF Skip, Exit
  <2> QED
    BY <1>7, <1>g, <2>1, <2>2
<1>8. CASE Admit(p)
  BY <1>8, <1>t DEF Admit, Goto, Footprint, Arrivals, Admitted, AttemptLabels
<1>9. CASE ArchiveProfile(p)
  BY <1>9, <1>t DEF ArchiveProfile, Goto, Footprint, Arrivals, Admitted, AttemptLabels
<1>10. CASE WriteRun(p)
  BY <1>10, <1>t DEF WriteRun, Goto, Footprint, Arrivals, Admitted, AttemptLabels
<1>11. CASE PrepareRefuses(p)
  BY <1>11, <1>g DEF PrepareRefuses, Exit
<1>12. CASE Prepare(p)
  BY <1>12, <1>t DEF Prepare, Goto, Footprint, Arrivals, Admitted, AttemptLabels
<1>13. CASE WriteRunning(p)
  BY <1>13, <1>t DEF WriteRunning, Goto, Footprint, Arrivals, Admitted, AttemptLabels
<1>14. CASE OpenEvidence(p)
  BY <1>14, <1>t DEF OpenEvidence, Save, Goto, Footprint, Arrivals, Admitted, AttemptLabels, Writing
<1>15. CASE BodyBegin(p)
  BY <1>15, <1>t DEF BodyBegin, Save, Goto, Footprint, Arrivals, Admitted, AttemptLabels, Writing
<1>16. CASE BodyRecord(p)
  BY <1>16, <1>t DEF BodyRecord, Save, Goto, Footprint, Arrivals, Admitted, AttemptLabels, Writing
<1>17. CASE BodyDone(p)
  BY <1>17, <1>t DEF BodyDone, Save, Goto, Footprint, Arrivals, Admitted, AttemptLabels, Writing
<1>18. CASE BodyFails(p)
  BY <1>18, <1>t DEF BodyFails, Save, Goto, Footprint, Arrivals, Admitted, AttemptLabels, Writing
<1>19. CASE BodyNoisy(p)
  BY <1>19, <1>t DEF BodyNoisy, Goto, Footprint, Arrivals, Admitted, AttemptLabels
<1>20. CASE CommitEvidence(p)
  BY <1>20, <1>t DEF CommitEvidence, Save, Goto, Footprint, Arrivals, Admitted, AttemptLabels, Writing
<1>21. CASE WriteFinal(p)
  <2>1. \A s \in Stages : state'[s] = state[s] \/ s = cmd[p]
    BY <1>21, <1>t DEF WriteFinal
  <2>2. Gone(p) /\ UNCHANGED <<dir, pin, bulk, clean, evidence>>
    BY <1>21 DEF WriteFinal, Exit
  <2> QED
    BY <1>21, <1>g, <2>1, <2>2
<1> QED
  BY <1>1, <1>2, <1>3, <1>4, <1>5, <1>6, <1>7, <1>8, <1>9, <1>10, <1>11, <1>12, <1>13, <1>14, <1>15, <1>16, <1>17, <1>18, <1>19, <1>20, <1>21 DEF StageStep

\* So do the steps of the other commands.
LEMMA OtherTraces ==
  ASSUME Typed, NEW p \in Procs, DecideStep(p) \/ CleanStep(p) \/ AmendStep(p)
  PROVE  Footprint(p) /\ Arrivals(p)
<1>t. /\ pc \in [Procs -> Labels]
      /\ cmd \in [Procs -> Stages \cup {"decide", "clean", "amend", "none"}]
      /\ harness \in [Procs -> Harnesses \cup {None}] /\ records \in [Procs -> SUBSET Row]
      /\ fate \in [Procs -> {"none", "complete", "failed", "noisy", "blocked"}]
  BY DEF Typed, TypeOK
<1>g. ASSUME Gone(p), UNCHANGED <<dir, bulk, state, evidence>>, pin' = pin \/ Amend(p),
             clean' = "none" => clean = "none"
      PROVE  Footprint(p) /\ Arrivals(p)
  <2>1. Footprint(p)
    BY <1>g, GoneTraces DEF Footprint
  <2>2. pc'[p] = "idle"
    BY <1>g, GoneTraces
  <2> QED
    BY <2>1, <2>2 DEF Arrivals, Admitted, AttemptLabels
<1>m. ASSUME NEW l \in Labels \ Admitted, Goto(p, l), UNCHANGED <<dir, pin, bulk, state, evidence>>,
             clean' = "none" => clean = "none",
             UNCHANGED <<cmd, harness, records>>, \A q \in Procs \ {p} : fate'[q] = fate[q],
             pc[p] # "idle"
      PROVE  Footprint(p) /\ Arrivals(p)
  BY <1>m, <1>t DEF Goto, Footprint, Arrivals, Admitted, AttemptLabels
<1>l. {"d_lock", "d_states", "d_evidence", "d_rehash", "d_write", "d_after", "c_lock", "c_check",
       "c_delete", "a_write"} \subseteq Labels \ Admitted
  BY DEF Labels, Admitted, StageLabels, AttemptLabels
<1>1. CASE DecideShared(p)
  BY <1>1, <1>m, <1>l DEF DecideShared
<1>2. CASE DecideLock(p)
  BY <1>2, <1>m, <1>l DEF DecideLock
<1>3. CASE ReadState(p)
  BY <1>3, <1>m, <1>l DEF ReadState, Advance
<1>4. CASE ReadEvidence(p)
  BY <1>4, <1>m, <1>l DEF ReadEvidence, Advance
<1>5. CASE Rehash(p)
  BY <1>5, <1>m, <1>l DEF Rehash, Advance
<1>6. CASE RehashDiffers(p)
  BY <1>6, <1>m, <1>l DEF RehashDiffers
<1>7. CASE WriteDecision(p)
  <2>1. \A q \in Procs \ {p} : fate'[q] = fate[q]
    BY <1>7, <1>t DEF WriteDecision
  <2> QED
    BY <1>7, <1>m, <1>l, <2>1 DEF WriteDecision
<1>8. CASE AfterDecide(p)
  <2>1. CASE CleanupBlocked(p)
    BY <1>8, <1>g, <2>1 DEF AfterDecide, Exit
  <2>2. CASE ~CleanupBlocked(p)
    BY <1>8, <1>m, <1>l, <2>2 DEF AfterDecide
  <2> QED
    BY <2>1, <2>2
<1>9. ASSUME NEW next \in {"c_check", "a_write"}, LockExclusive(p, next), pc[p] # "idle"
      PROVE  Footprint(p) /\ Arrivals(p)
  <2>1. CASE sharers = {} /\ exclusive = None
    BY <1>9, <1>m, <1>l, <2>1 DEF LockExclusive
  <2>2. CASE ~(sharers = {} /\ exclusive = None)
    BY <1>9, <1>g, <2>2 DEF LockExclusive, Exit
  <2> QED
    BY <2>1, <2>2
<1>10. CASE CleanLock(p) \/ AmendLock(p)
  BY <1>9, <1>10 DEF CleanLock, AmendLock
<1>11. CASE CleanRefused(p) \/ CleanDone(p)
  BY <1>11, <1>g DEF CleanRefused, CleanDone, Exit
<1>12. CASE CleanPlan(p)
  BY <1>12, <1>m, <1>l DEF CleanPlan
<1>13. CASE CleanDelete(p)
  <2>1. pc[p] = "c_delete" /\ UNCHANGED <<dir, state, pin, clean, evidence, local>>
    BY <1>13 DEF CleanDelete
  <2> QED
    BY <1>13, <2>1 DEF Footprint, Arrivals, Admitted, AttemptLabels
<1>14. CASE Amend(p)
  BY <1>14, <1>g DEF Amend, Exit
<1> QED
  BY <1>1, <1>2, <1>3, <1>4, <1>5, <1>6, <1>7, <1>8, <1>10, <1>11, <1>12, <1>13, <1>14
     DEF DecideStep, CleanStep, AmendStep

\* Every step of a process leaves these traces.
LEMMA Traces ==
  ASSUME Typed, NEW p \in Procs, Acts(p)
  PROVE  Footprint(p) /\ Arrivals(p)
<1>t. pc \in [Procs -> Labels] /\ cmd \in [Procs -> Stages \cup {"decide", "clean", "amend", "none"}]
      /\ harness \in [Procs -> Harnesses \cup {None}]
  BY DEF Typed, TypeOK
<1>1. CASE Start(p)
  <2>1. PICK c \in Commands[p], h \in Harnesses :
           /\ cmd' = [cmd EXCEPT ![p] = c] /\ harness' = [harness EXCEPT ![p] = h]
           /\ pc' = [pc EXCEPT ![p] = FirstStep(c)]
           /\ UNCHANGED <<files, records, fate>>
    BY <1>1 DEF Start, Goto
  <2>2. FirstStep(c) \notin Admitted
    BY DEF FirstStep, Admitted, AttemptLabels
  <2> QED
    BY <1>1, <1>t, <2>1, <2>2 DEF Footprint, Arrivals, Admitted, AttemptLabels
<1>2. CASE Kill(p)
  BY <1>2, GoneTraces DEF Kill, Footprint, Arrivals, Admitted, AttemptLabels
<1> QED
  BY <1>1, <1>2, StageTraces, OtherTraces DEF Acts, Step

-----------------------------------------------------------------------------
(* The invariants *)

\* A stage may run: what it needs is final, and the gate does not skip it.
Due(s) == (\A n \in PREREQUISITES(s) : state[n].status \in FINAL) /\ ~skip_reason(s)

\* StagesInOrder, with an equivalence for its equality of truth values.
InOrder ==
    \A s \in Stages : state[s].status # "none" =>
        /\ \A n \in PREREQUISITES(s) : state[n].status \in FINAL
        /\ s \in GATED => /\ state["quality"].status = "complete"
                          /\ state[s].status = "skipped" <=> skip_reason(s)

\* Stages run in their order, compile and quality always run, and whoever was admitted found
\* its stage due, which it still is.
Ordered ==
    /\ InOrder
    /\ \A s \in Stages \ GATED : state[s].status # "skipped"
    /\ \A p \in Procs : pc[p] \in Admitted => Due(cmd[p])

\* A compile has run its body.
Compiled(p) ==
    /\ cmd[p] = "compile"
    /\ \/ pc[p] \in {"work", "more"}
       \/ pc[p] \in {"commit", "final"} /\ fate[p] = "complete"

\* From the body of a compile that completes until a clean begins, nothing of the bulk is gone.
Built ==
    /\ state["compile"].status = "complete" /\ clean = "none" => bulk = Bulk
    /\ \A p \in Procs : Compiled(p) => bulk = Bulk

\* Before there is a run.json there is nothing but compiles; whoever runs an attempt is the
\* harness that run.json names, and says so in the state.
Pinned ==
    /\ PinnedHarness
    /\ dir # "session" => /\ \A s \in Stages : state[s].status = "none"
                          /\ \A p \in Procs : pc[p] # "idle" => cmd[p] = "compile"
    /\ \A p \in Procs :
          /\ pc[p] \in {"create", "runjson"} => dir # "session"
          /\ pc[p] \in {"prepare"} \cup AttemptLabels =>
                dir = "session" /\ harness[p] = pin[cmd[p]]
          /\ pc[p] \in Writing \cup {"final"} => state[cmd[p]].harness = harness[p]

\* Rows without a crash record, rows that a complete attempt number n of stage s may leave,
\* and rows of a crashed one.
NoCrash(rows) == \A r \in rows : ~IsCrash(r)
Complete(s, n, rows) ==
    /\ NoCrash(rows)
    /\ \E g \in Grades[s] :
          /\ {Tag(r, n) : r \in g} \subseteq rows
          /\ \A r \in rows : r \in {Tag(x, n) : x \in g} \/ r.id \notin IdsOf(g)
          /\ s \in Resets => rows = {Tag(r, n) : r \in g}
Crashed(s, n, rows) == {r \in rows : IsCrash(r)} = {Tag(Crash(s), n)}

\* What a process has in memory is what its attempt may commit at its label, and what is
\* committed is what some attempt had in memory.
Whole ==
    /\ CommittedIsWhole
    /\ \A p \in Procs :
          LET s == cmd[p]
              n == state[s].attempts
          IN /\ pc[p] \in Writing \cup {"final"} => state[s].status = "running"
             /\ pc[p] \in Admitted \ {"commit", "final"} => NoCrash(records[p])
             /\ pc[p] \in {"work", "more"} /\ s \in Resets => \A r \in records[p] : r.by = n
             /\ pc[p] \in {"commit", "final"} =>
                   /\ fate[p] = "complete" => Complete(s, n, records[p])
                   /\ fate[p] = "failed" => Crashed(s, n, records[p])
             /\ pc[p] = "final" => evidence[s] = records[p]

-----------------------------------------------------------------------------
(* Stages run in order and under the gate *)

\* The equivalence is the equality.
LEMMA OrderMeans == InOrder => StagesInOrder
  BY DEF InOrder, StagesInOrder, skip_reason

\* Whose prerequisites are final has compile behind it, a gated stage quality too, and cost
\* correctness.
LEMMA Chain ==
  ASSUME Ordered, NEW s \in Stages, \A n \in PREREQUISITES(s) : state[n].status \in FINAL
  PROVE  /\ s # "compile" => state["compile"].status = "complete"
         /\ s \in GATED => state["quality"].status = "complete"
         /\ s = "cost" => state["correctness"].status \in FINAL
<1>1. /\ PREREQUISITES("quality") = {"compile"} /\ PREREQUISITES("correctness") = {"quality"}
      /\ PREREQUISITES("unit-tests") = {"quality"} /\ PREREQUISITES("cost") = {"correctness"}
  BY DEF PREREQUISITES, Needs, Stages
<1>2. \A n \in {"compile", "quality"} : state[n].status \in FINAL => state[n].status = "complete"
  BY DEF Ordered, Stages, GATED, FINAL
<1>3. \A n \in Stages : state[n].status \in FINAL
         => \A m \in PREREQUISITES(n) : state[m].status \in FINAL
  BY DEF Ordered, InOrder, FINAL
<1>4. state["quality"].status \in FINAL => state["compile"].status \in FINAL
  BY <1>1, <1>3 DEF Stages
<1>5. state["correctness"].status \in FINAL => state["quality"].status \in FINAL
  BY <1>1, <1>3 DEF Stages
<1> QED
  BY <1>1, <1>2, <1>4, <1>5 DEF Stages, GATED

\* Whether a stage with final prerequisites is due does not change while finished stages stay.
LEMMA DueStays ==
  ASSUME Ordered, NEW s \in Stages, \A n \in PREREQUISITES(s) : state[n].status \in FINAL,
         \A n \in Stages : state[n].status \in FINAL =>
             state'[n] = state[n] /\ evidence'[n] = evidence[n]
  PROVE  /\ \A n \in PREREQUISITES(s) : state'[n].status \in FINAL
         /\ skip_reason(s)' <=> skip_reason(s)
<1>1. \A n \in PREREQUISITES(s) : state'[n].status \in FINAL
  BY DEF PREREQUISITES
<1>2. CASE s \notin GATED
  BY <1>1, <1>2 DEF skip_reason
<1>3. CASE s \in GATED
  <2>1. state["quality"].status = "complete" /\ state'["quality"] = state["quality"]
    BY <1>3, Chain DEF Stages, FINAL
  <2>2. CASE s # "cost"
    BY <1>1, <2>1, <2>2 DEF skip_reason
  <2>3. CASE s = "cost"
    <3>1. \A n \in {"compile", "quality", "correctness"} :
             state'[n] = state[n] /\ evidence'[n] = evidence[n]
      BY <2>3, Chain DEF Stages, FINAL, GATED
    <3>2. \A n \in {"compile", "quality", "correctness"} : Committed(n)' = Committed(n)
      BY <3>1 DEF Committed
    <3>3. {Committed(n) : n \in {"compile", "quality", "correctness"}}'
             = {Committed(n) : n \in {"compile", "quality", "correctness"}}
      BY <3>2
    <3>4. cost_due' = cost_due
      BY <3>3 DEF cost_due
    <3> QED
      BY <1>1, <2>1, <3>1, <3>4 DEF skip_reason
  <2> QED
    BY <2>2, <2>3
<1> QED
  BY <1>2, <1>3

\* Every step keeps the order of the stages.
LEMMA NextOrdered ==
  ASSUME Safe, Ordered, [Next]_vars
  PROVE  Ordered'
<1>f. \A n \in Stages : state[n].status \in FINAL =>
         state'[n] = state[n] /\ evidence'[n] = evidence[n]
  BY NextFinal
<1>d. ASSUME NEW s \in Stages, \A n \in PREREQUISITES(s) : state[n].status \in FINAL
      PROVE  /\ \A n \in PREREQUISITES(s) : state'[n].status \in FINAL
             /\ s \in GATED => state'["quality"].status = "complete"
             /\ skip_reason(s)' <=> skip_reason(s)
  <2>1. s \in GATED => state["quality"].status = "complete"
    BY <1>d, Chain
  <2> QED
    BY <1>d, <1>f, <2>1, DueStays DEF Stages, FINAL
<1>t. /\ state \in [Stages -> StateFile] /\ pc \in [Procs -> Labels]
      /\ \A p \in Procs : pc[p] \in Admitted \cup {"check"} => cmd[p] \in Stages
      /\ \A p \in Procs : pc[p] \in {"commit", "final"} => fate[p] \in {"complete", "failed", "noisy"}
  BY DEF Safe, Typed, TypeOK, Control, Admitted, AttemptLabels, StageLabels
<1>1. CASE UNCHANGED vars
  <2>1. InOrder' /\ \A s \in Stages \ GATED : state'[s].status # "skipped"
    BY <1>1, <1>d DEF Ordered, InOrder
  <2>2. \A p \in Procs : pc'[p] \in Admitted => Due(cmd[p])'
    BY <1>1, <1>d, <1>t DEF Ordered, Due
  <2> QED
    BY <1>1, <2>1, <2>2 DEF Ordered
<1>2. CASE Next
  <2>1. PICK p \in Procs : Acts(p)
    BY <1>2 DEF Next, Acts
  <2>2. Footprint(p) /\ Arrivals(p)
    BY <2>1, Traces DEF Safe
  <2>3. ASSUME Skip(p)
        PROVE  /\ \A n \in PREREQUISITES(cmd[p]) : state[n].status \in FINAL
               /\ skip_reason(cmd[p]) /\ cmd[p] \in GATED /\ state'[cmd[p]].status = "skipped"
    <3>1. cmd[p] \in Stages
      BY <1>t, <2>3 DEF Skip
    <3>2. state'[cmd[p]].status = "skipped"
      BY <1>t, <2>3, <3>1 DEF Skip
    <3> QED
      BY <2>3, <3>2 DEF Skip, Refused, skip_reason
  <2>4. ASSUME WriteRunning(p) \/ WriteFinal(p)
        PROVE  Due(cmd[p]) /\ state'[cmd[p]].status # "skipped"
    <3>1. cmd[p] \in Stages /\ pc[p] \in {"start", "final"}
      BY <1>t, <2>4 DEF WriteRunning, WriteFinal, Admitted, AttemptLabels
    <3>2. Due(cmd[p])
      BY <3>1 DEF Ordered, Admitted, AttemptLabels
    <3>3. state'[cmd[p]].status # "skipped"
      BY <1>t, <2>4, <3>1 DEF WriteRunning, WriteFinal, StateFile
    <3> QED
      BY <3>2, <3>3
  <2>5. ASSUME NEW s \in Stages, state'[s] # state[s]
        PROVE  /\ \A n \in PREREQUISITES(s) : state[n].status \in FINAL
               /\ state'[s].status = "skipped" <=> skip_reason(s)
               /\ state'[s].status = "skipped" => s \in GATED
    <3>1. s = cmd[p] /\ (Skip(p) \/ WriteRunning(p) \/ WriteFinal(p))
      BY <2>2, <2>5 DEF Footprint
    <3> QED
      BY <2>3, <2>4, <3>1 DEF Due
  <2>6. InOrder'
    <3> SUFFICES ASSUME NEW s \in Stages, state'[s].status # "none"
                 PROVE  /\ \A n \in PREREQUISITES(s) : state'[n].status \in FINAL
                        /\ s \in GATED => /\ state'["quality"].status = "complete"
                                          /\ state'[s].status = "skipped" <=> skip_reason(s)'
      BY DEF InOrder, PREREQUISITES
    <3>1. \A n \in PREREQUISITES(s) : state[n].status \in FINAL
      BY <2>5 DEF Ordered, InOrder
    <3>2. s \in GATED => (state'[s].status = "skipped" <=> skip_reason(s))
      BY <2>5 DEF Ordered, InOrder
    <3> QED
      BY <1>d, <3>1, <3>2
  <2>7. \A s \in Stages \ GATED : state'[s].status # "skipped"
    BY <2>5 DEF Ordered
  <2>8. ASSUME NEW q \in Procs, pc'[q] \in Admitted
        PROVE  Due(cmd[q])'
    <3>1. cmd'[q] \in Stages /\ Due(cmd'[q])
      <4>1. CASE q # p
        BY <1>t, <2>2, <2>8, <4>1 DEF Footprint, Ordered
      <4>2. CASE q = p /\ Admit(p)
        BY <1>t, <4>2 DEF Admit, Refused, Due
      <4>3. CASE q = p /\ ~Admit(p)
        <5>1. pc[p] \in Admitted /\ cmd'[p] = cmd[p]
          BY <2>2, <2>8, <4>3 DEF Arrivals, Admitted, AttemptLabels, ArchiveProfile, WriteRun,
               Prepare, WriteRunning, OpenEvidence, BodyBegin, BodyRecord, BodyDone, BodyFails,
               BodyNoisy, CommitEvidence
        <5> QED
          BY <1>t, <4>3, <5>1 DEF Ordered
      <4> QED
        BY <4>1, <4>2, <4>3
    <3> QED
      BY <1>d, <3>1 DEF Due
  <2> QED
    BY <2>6, <2>7, <2>8 DEF Ordered
<1> QED
  BY <1>1, <1>2

-----------------------------------------------------------------------------
(* What compile built stays *)

\* Every step keeps what compile built.
LEMMA NextBuilt ==
  ASSUME Safe, Ordered, Built, [Next]_vars
  PROVE  Built'
<1>t. /\ state \in [Stages -> StateFile]
      /\ fate \in [Procs -> {"none", "complete", "failed", "noisy", "blocked"}]
  BY DEF Safe, Typed, TypeOK
<1>1. CASE UNCHANGED vars
  BY <1>1 DEF Built, Compiled
<1>2. CASE Next
  <2>1. PICK p \in Procs : Acts(p)
    BY <1>2 DEF Next, Acts
  <2>2. Footprint(p) /\ Arrivals(p)
    BY <2>1, Traces DEF Safe
  <2>3. ASSUME clean = "none", bulk = Bulk
        PROVE  bulk' = Bulk
    <3>1. ~CleanDelete(p)
      BY <2>3 DEF CleanDelete, Safe, Open
    <3>2. BodyBegin(p) => bulk' \in {bulk, Bulk}
      BY DEF BodyBegin
    <3> QED
      BY <2>2, <2>3, <3>1, <3>2 DEF Footprint
  <2>4. ASSUME NEW q \in Procs, Compiled(q)
        PROVE  bulk' = Bulk
    <3>1. clean = "none" /\ bulk = Bulk
      BY <2>4 DEF Compiled, Built, Safe, Open, Admitted, AttemptLabels
    <3> QED
      BY <2>3, <3>1
  <2>5. ASSUME NEW q \in Procs, Compiled(q)'
        PROVE  bulk' = Bulk
    <3>1. CASE q # p
      BY <2>2, <2>4, <2>5, <3>1 DEF Footprint, Compiled
    <3>2. CASE q = p
      <4>1. pc'[p] \in Admitted /\ cmd[p] = "compile"
        BY <2>2, <2>5, <3>2 DEF Compiled, Arrivals, Admitted, AttemptLabels
      <4>2. CASE pc'[p] = "work"
        BY <2>2, <4>1, <4>2 DEF Arrivals, BodyBegin
      <4>3. CASE pc'[p] = "more"
        BY <2>2, <2>4, <4>1, <4>3 DEF Arrivals, BodyRecord, Compiled
      <4>4. CASE pc'[p] = "commit" /\ fate'[p] = "complete"
        BY <1>t, <2>2, <2>4, <4>1, <4>4 DEF Arrivals, BodyDone, BodyFails, BodyNoisy, Compiled
      <4>5. CASE pc'[p] = "final" /\ fate'[p] = "complete"
        BY <2>2, <2>4, <4>1, <4>5 DEF Arrivals, CommitEvidence, Compiled
      <4> QED
        BY <2>5, <3>2, <4>2, <4>3, <4>4, <4>5 DEF Compiled
    <3> QED
      BY <3>1, <3>2
  <2>6. ASSUME state'["compile"].status = "complete", clean' = "none"
        PROVE  bulk' = Bulk
    <3>1. clean = "none"
      BY <2>2, <2>6 DEF Footprint
    <3>2. CASE state'["compile"] = state["compile"]
      BY <2>3, <2>6, <3>1, <3>2 DEF Built
    <3>3. CASE state'["compile"] # state["compile"]
      <4>1. cmd[p] = "compile" /\ (Skip(p) \/ WriteRunning(p) \/ WriteFinal(p))
        BY <2>2, <3>3 DEF Footprint, Stages
      <4>2. WriteFinal(p) /\ fate[p] = "complete"
        BY <1>t, <2>6, <4>1 DEF Skip, WriteRunning, WriteFinal, Stages, StateFile
      <4> QED
        BY <2>4, <4>1, <4>2 DEF WriteFinal, Compiled
    <3> QED
      BY <3>2, <3>3
  <2> QED
    BY <2>5, <2>6 DEF Built
<1> QED
  BY <1>1, <1>2

\* An attempt of a later stage therefore finds all of it.
LEMMA KeepsBulk == Safe /\ Ordered /\ Built => AttemptKeepsBulk
<1> SUFFICES ASSUME Safe, Ordered, Built, NEW p \in Procs, pc[p] \in AttemptLabels, cmd[p] # "compile"
             PROVE  bulk = Bulk
  BY DEF AttemptKeepsBulk
<1>1. cmd[p] \in Stages /\ clean = "none" /\ Due(cmd[p])
  BY DEF Safe, Typed, Control, StageLabels, Open, Ordered, Admitted
<1>2. state["compile"].status = "complete"
  BY <1>1, Chain DEF Due
<1> QED
  BY <1>1, <1>2 DEF Built

-----------------------------------------------------------------------------
(* The harness that run.json names *)

\* Who owns the session has it for itself.
LEMMA OwnerAlone ==
  ASSUME Guarded, NEW p \in Procs, pc[p] \in Owning, NEW q \in Procs, pc[q] \in Admitted
  PROVE  FALSE
  BY NoneAssumption DEF Guarded, Owning, Sharing, Admitted, StageLabels

\* Every step keeps to the pinned harness.
LEMMA NextPinned ==
  ASSUME Safe, Ordered, Pinned, [Next]_vars
  PROVE  Pinned'
<1>t. /\ state \in [Stages -> StateFile] /\ pin \in [Stages -> Harnesses \cup {None}]
      /\ pc \in [Procs -> Labels] /\ Guarded
      /\ \A p \in Procs : pc[p] \in Admitted \cup {"check"} => cmd[p] \in Stages
  BY DEF Safe, Typed, TypeOK, Control, Admitted, AttemptLabels, StageLabels
<1>1. CASE UNCHANGED vars
  BY <1>1 DEF Pinned, PinnedHarness
<1>2. CASE Next
  <2>1. PICK p \in Procs : Acts(p)
    BY <1>2 DEF Next, Acts
  <2>2. Footprint(p) /\ Arrivals(p)
    BY <2>1, Traces DEF Safe
  <2>p. PinnedHarness
    BY DEF Pinned
  <2>3. ASSUME WriteRun(p)
        PROVE  /\ dir # "session" /\ dir' = "session" /\ cmd[p] = "compile"
               /\ \A s \in Stages : state'[s] = state[s] /\ state[s].status = "none"
               /\ \A s \in Stages : pin'[s] = harness[p]
               /\ \A q \in Procs \ {p} : pc[q] \notin Admitted
               /\ pc'[p] = "start"
    <3>1. dir # "session" /\ cmd[p] = "compile" /\ \A s \in Stages : state[s].status = "none"
      BY <2>3 DEF WriteRun, Pinned
    <3>2. \A q \in Procs \ {p} : pc[q] \notin Admitted
      BY <1>t, <2>3, <3>1, Alone DEF WriteRun, Pinned, Admitted, AttemptLabels, Locked,
           StageLabels, Labels
    <3> QED
      BY <1>t, <2>3, <3>1, <3>2 DEF WriteRun, Goto
  <2>4. ASSUME Amend(p)
        PROVE  /\ \A q \in Procs : pc[q] \notin Admitted
               /\ \A s \in Stages \ {"cost"} : pin'[s] = pin[s]
               /\ state["cost"].status \in FINAL => pin'["cost"] = pin["cost"]
               /\ state' = state
    BY <1>t, <2>4, OwnerAlone DEF Amend, AmendAllowed, Owning
  <2>5. dir = "session" => dir' = "session"
    BY <2>2 DEF Footprint, MakeDirectory, ArchiveProfile, WriteRun, Pinned
  <2>6. dir' # "session" => dir # "session" /\ ~WriteRun(p)
    BY <2>3, <2>5
  <2>7. ASSUME dir' # "session"
        PROVE  /\ \A s \in Stages : state'[s].status = "none"
               /\ \A q \in Procs : pc'[q] # "idle" => cmd'[q] = "compile"
    <3>1. dir # "session" /\ ~Skip(p) /\ ~WriteRunning(p) /\ ~WriteFinal(p)
      BY <2>6, <2>7 DEF Pinned, Skip, WriteRunning, WriteFinal, skip_reason, GATED, AttemptLabels
    <3>2. \A s \in Stages : state'[s].status = "none"
      BY <2>2, <3>1 DEF Footprint, Pinned
    <3>3. ASSUME pc'[p] # "idle" PROVE cmd'[p] = "compile"
      <4>1. CASE Start(p)
        <5>1. PICK c \in Commands[p] : (c # "compile" => dir = "session") /\ cmd' = [cmd EXCEPT ![p] = c]
          BY <4>1 DEF Start
        <5> QED
          BY <3>1, <5>1 DEF Safe, Typed, TypeOK
      <4>2. CASE ~Start(p)
        BY <2>2, <3>1, <3>3, <4>2 DEF Arrivals, Pinned
      <4> QED
        BY <4>1, <4>2
    <3> QED
      BY <2>2, <3>1, <3>2, <3>3 DEF Footprint, Pinned
  <2>8. ASSUME NEW q \in Procs \ {p}, pc'[q] \in Admitted
        PROVE  /\ pc'[q] = pc[q] /\ cmd'[q] = cmd[q] /\ harness'[q] = harness[q]
               /\ cmd[q] \in Stages /\ pin' = pin
               /\ dir' = "session" <=> dir = "session"
               /\ pc[q] \in AttemptLabels => state'[cmd[q]] = state[cmd[q]]
    <3>1. pc'[q] = pc[q] /\ cmd'[q] = cmd[q] /\ harness'[q] = harness[q]
      BY <2>2 DEF Footprint
    <3>2. cmd[q] \in Stages /\ pc[q] \in Locked
      BY <1>t, <2>8, <3>1 DEF Locked, StageLabels, AttemptLabels, Admitted
    <3>3. ~WriteRun(p) /\ ~Amend(p)
      BY <2>3, <2>4, <2>8, <3>1
    <3>4. dir' = "session" <=> dir = "session"
      BY <2>2, <3>3 DEF Footprint, MakeDirectory, ArchiveProfile, Pinned
    <3>5. cmd[q] = cmd[p] => ~Skip(p) /\ ~WriteRunning(p) /\ ~WriteFinal(p)
      BY <1>t, <3>2, Alone DEF Skip, WriteRunning, WriteFinal, Locked, StageLabels, AttemptLabels
    <3>6. state'[cmd[q]] = state[cmd[q]]
      BY <2>2, <3>2, <3>5 DEF Footprint
    <3> QED
      BY <2>2, <3>1, <3>2, <3>3, <3>4, <3>6 DEF Footprint
  <2>9. ASSUME pc'[p] \in {"create", "runjson"}
        PROVE  dir' # "session"
    <3>1. (Admit(p) /\ pc'[p] = "create") \/ ArchiveProfile(p)
      BY <2>2, <2>9 DEF Arrivals
    <3> QED
      BY <1>t, <3>1 DEF Admit, Goto, ArchiveProfile
  <2>10. ASSUME pc'[p] \in {"prepare"} \cup AttemptLabels
         PROVE  dir' = "session" /\ harness'[p] = pin'[cmd'[p]]
    <3>1. cmd'[p] = cmd[p] /\ harness'[p] = harness[p]
      BY <2>2, <2>10 DEF Arrivals, Admitted
    <3>2. CASE WriteRun(p)
      <4>1. cmd[p] \in Stages
        BY <1>t, <3>2 DEF WriteRun, Admitted
      <4> QED
        BY <2>3, <3>1, <3>2, <4>1
    <3>3. CASE ~WriteRun(p)
      <4>1. dir = "session" /\ harness[p] = pin[cmd[p]] /\ ~Amend(p)
        <5>1. CASE Admit(p)
          BY <1>t, <2>10, <5>1 DEF Admit, Refused, Goto, AttemptLabels, Amend
        <5>2. CASE ~Admit(p)
          <6>1. pc[p] \in {"prepare"} \cup AttemptLabels
            BY <2>2, <2>10, <3>3, <5>2 DEF Arrivals, AttemptLabels, Prepare, WriteRunning,
                 OpenEvidence, BodyBegin, BodyRecord, BodyDone, BodyFails, BodyNoisy, CommitEvidence
          <6> QED
            BY <6>1 DEF Pinned, Amend, AttemptLabels
        <5> QED
          BY <5>1, <5>2
      <4>2. pin' = pin
        BY <2>2, <3>3, <4>1 DEF Footprint
      <4> QED
        BY <2>5, <3>1, <4>1, <4>2
    <3> QED
      BY <3>2, <3>3
  <2>11. ASSUME pc'[p] \in Writing \cup {"final"}
         PROVE  state'[cmd'[p]].harness = harness'[p]
    <3>1. cmd'[p] = cmd[p] /\ harness'[p] = harness[p]
      BY <2>2, <2>11 DEF Arrivals, Admitted, AttemptLabels, Writing
    <3>2. CASE WriteRunning(p)
      BY <1>t, <3>1, <3>2 DEF WriteRunning, Admitted, AttemptLabels
    <3>3. CASE ~WriteRunning(p)
      <4>1. pc[p] \in Writing
        BY <2>2, <2>11, <3>3 DEF Arrivals, Writing, OpenEvidence, BodyBegin, BodyRecord,
             BodyDone, BodyFails, BodyNoisy, CommitEvidence
      <4>2. cmd[p] \in Stages /\ ~Skip(p) /\ ~WriteFinal(p)
        BY <1>t, <4>1 DEF Writing, Skip, WriteFinal, Admitted, AttemptLabels
      <4>3. state'[cmd[p]] = state[cmd[p]]
        BY <2>2, <3>3, <4>2 DEF Footprint
      <4> QED
        BY <3>1, <4>1, <4>3 DEF Pinned
    <3> QED
      BY <3>2, <3>3
  <2>12. PinnedHarness'
    <3> SUFFICES ASSUME NEW s \in Stages
                 PROVE  /\ state'[s].status \in FINAL => state'[s].harness = pin'[s]
                        /\ s # "cost" => pin'[s] = pin'["compile"]
      BY DEF PinnedHarness
    <3>1. s # "cost" => pin'[s] = pin'["compile"]
      BY <2>2, <2>3, <2>4, <2>p DEF Footprint, PinnedHarness, Stages
    <3>2. CASE WriteRun(p)
      BY <2>3, <3>1, <3>2 DEF FINAL
    <3>3. CASE state'[s] = state[s] /\ ~WriteRun(p)
      BY <2>2, <2>4, <2>p, <3>1, <3>3 DEF Footprint, PinnedHarness
    <3>4. CASE state'[s] # state[s] /\ ~WriteRun(p)
      <4>1. s = cmd[p] /\ (Skip(p) \/ WriteRunning(p) \/ WriteFinal(p))
        BY <2>2, <3>4 DEF Footprint
      <4>2. pin' = pin
        BY <2>2, <3>4, <4>1 DEF Footprint, Skip, WriteRunning, WriteFinal
      <4>3. CASE Skip(p)
        <5>1. dir = "session"
          BY <4>3 DEF Skip, skip_reason, Pinned, Stages
        <5> QED
          BY <1>t, <3>1, <4>1, <4>2, <4>3, <5>1 DEF Skip, Refused
      <4>4. CASE WriteRunning(p)
        BY <1>t, <3>1, <4>1, <4>4 DEF WriteRunning, FINAL
      <4>5. CASE WriteFinal(p)
        <5>1. state[s].harness = pin[s]
          BY <4>1, <4>5 DEF WriteFinal, Pinned, AttemptLabels
        <5>2. state'[s].harness = state[s].harness
          BY <1>t, <4>1, <4>5 DEF WriteFinal, StateFile
        <5> QED
          BY <3>1, <4>2, <5>1, <5>2
      <4> QED
        BY <4>1, <4>3, <4>4, <4>5
    <3> QED
      BY <3>2, <3>3, <3>4
  <2>13. ASSUME NEW q \in Procs \ {p}
         PROVE  /\ pc'[q] \in {"create", "runjson"} => dir' # "session"
                /\ pc'[q] \in {"prepare"} \cup AttemptLabels =>
                      dir' = "session" /\ harness'[q] = pin'[cmd'[q]]
                /\ pc'[q] \in Writing \cup {"final"} => state'[cmd'[q]].harness = harness'[q]
    BY <2>8 DEF Pinned, Admitted, AttemptLabels, Writing
  <2> QED
    BY <2>7, <2>9, <2>10, <2>11, <2>12, <2>13 DEF Pinned
<1> QED
  BY <1>1, <1>2

-----------------------------------------------------------------------------
(* Whole evidence behind a committed state *)

\* A record of a grade is no crash record, and carries its attempt when it is stored.
LEMMA GradedTag ==
  \A s \in Stages : \A g \in Grades[s] : \A r \in g :
    \A n : ~IsCrash(Tag(r, n)) /\ Tag(r, n).by = n
  BY GradesAssumption DEF Tag, IsCrash

\* Rows without a crash record take in others without one.
LEMMA PutGraded ==
  ASSUME NEW rows, NEW new, NoCrash(rows), NoCrash(new)
  PROVE  NoCrash(Put(rows, new)) /\ new \subseteq Put(rows, new)
  BY DEF Put, NoCrash

\* A crash adds its record and no other.
LEMMA PutCrash ==
  ASSUME NEW s \in Stages, NEW n, NEW rows, NoCrash(rows)
  PROVE  Crashed(s, n, Put(rows, {Tag(Crash(s), n)}))
<1>1. IsCrash(Tag(Crash(s), n))
  BY DEF IsCrash, Tag, Crash, record
<1> QED
  BY <1>1 DEF Crashed, Put, NoCrash

\* Every step keeps whole evidence behind the committed states.
LEMMA NextWhole ==
  ASSUME Safe, Whole, [Next]_vars
  PROVE  Whole'
<1>t. /\ state \in [Stages -> StateFile] /\ evidence \in [Stages -> SUBSET Row]
      /\ records \in [Procs -> SUBSET Row]
      /\ fate \in [Procs -> {"none", "complete", "failed", "noisy", "blocked"}]
      /\ pc \in [Procs -> Labels] /\ Guarded
      /\ \A p \in Procs : pc[p] \in Admitted \cup {"check"} => cmd[p] \in Stages
  BY DEF Safe, Typed, TypeOK, Control, Admitted, AttemptLabels, StageLabels
<1>w. CommittedIsWhole
  BY DEF Whole
<1>1. CASE UNCHANGED vars
  <2>1. CommittedIsWhole'
    BY <1>1, <1>w DEF CommittedIsWhole
  <2> QED
    BY <1>1, <2>1 DEF Whole, NoCrash, Complete, Crashed
<1>2. CASE Next
  <2>1. PICK p \in Procs : Acts(p)
    BY <1>2 DEF Next, Acts
  <2>2. Footprint(p) /\ Arrivals(p)
    BY <2>1, Traces DEF Safe
  <2>3. CommittedIsWhole'
    <3> SUFFICES ASSUME NEW s \in Stages, state'[s].status \in {"complete", "failed"}
                 PROVE  /\ state'[s].status = "complete" =>
                              Complete(s, state'[s].attempts, evidence'[s])
                        /\ state'[s].status = "failed" =>
                              Crashed(s, state'[s].attempts, evidence'[s])
      BY DEF CommittedIsWhole, Complete, Crashed, NoCrash
    <3>1. CASE state'[s] = state[s] /\ evidence'[s] = evidence[s]
      BY <1>w, <3>1 DEF CommittedIsWhole, Complete, Crashed, NoCrash
    <3>2. CASE evidence'[s] # evidence[s]
      <4>1. s = cmd[p] /\ pc[p] \in Writing /\ state[s].status = "running"
        BY <2>2, <3>2 DEF Footprint, Whole
      <4>2. state'[s] = state[s]
        BY <2>2, <4>1 DEF Footprint, Writing, Skip, WriteRunning, WriteFinal
      <4> QED
        BY <4>1, <4>2
    <3>3. CASE state'[s] # state[s]
      <4>1. s = cmd[p] /\ (Skip(p) \/ WriteRunning(p) \/ WriteFinal(p))
        BY <2>2, <3>3 DEF Footprint
      <4>2. WriteFinal(p)
        BY <1>t, <4>1 DEF Skip, WriteRunning
      <4>3. /\ state'[s].status = fate[p] /\ state'[s].attempts = state[s].attempts
            /\ evidence'[s] = evidence[s] /\ pc[p] = "final"
        BY <1>t, <4>1, <4>2 DEF WriteFinal, StateFile
      <4> QED
        BY <4>1, <4>3 DEF Whole
    <3> QED
      BY <3>1, <3>2, <3>3
  <2>4. ASSUME NEW q \in Procs \ {p}, pc'[q] \in Admitted
        PROVE  /\ pc'[q] = pc[q] /\ cmd'[q] = cmd[q] /\ fate'[q] = fate[q]
               /\ records'[q] = records[q]
               /\ state'[cmd[q]] = state[cmd[q]] /\ evidence'[cmd[q]] = evidence[cmd[q]]
    <3>1. pc'[q] = pc[q] /\ cmd'[q] = cmd[q] /\ fate'[q] = fate[q] /\ records'[q] = records[q]
      BY <2>2 DEF Footprint
    <3>2. cmd[q] \in Stages /\ pc[q] \in Locked
      BY <1>t, <2>4, <3>1 DEF Locked, StageLabels, AttemptLabels, Admitted
    <3>3. cmd[q] = cmd[p] => pc[p] \notin Writing \cup {"check", "start", "final"}
      BY <1>t, <3>2, Alone DEF Locked, StageLabels, AttemptLabels, Writing
    <3>4. state'[cmd[q]] = state[cmd[q]] /\ evidence'[cmd[q]] = evidence[cmd[q]]
      BY <2>2, <3>2, <3>3 DEF Footprint, Skip, WriteRunning, WriteFinal
    <3> QED
      BY <3>1, <3>4
  <2> DEFINE s == cmd[p]
             n == state[s].attempts
  <2>5. ASSUME pc'[p] \in Admitted
        PROVE  cmd'[p] = s /\ s \in Stages
    <3>1. cmd'[p] = s /\ pc[p] \in Admitted \cup {"check"}
      BY <2>2, <2>5 DEF Arrivals, Admitted, AttemptLabels, Admit, ArchiveProfile, WriteRun, Prepare,
           WriteRunning, OpenEvidence, BodyBegin, BodyRecord, BodyDone, BodyFails, BodyNoisy,
           CommitEvidence
    <3> QED
      BY <1>t, <3>1
  <2>6. ASSUME pc'[p] \in Writing \cup {"final"}
        PROVE  /\ state'[s].status = "running"
               /\ ~WriteRunning(p) => pc[p] \in Writing /\ state'[s] = state[s]
    <3>1. s \in Stages
      BY <2>5, <2>6 DEF Admitted, AttemptLabels, Writing
    <3>2. CASE WriteRunning(p)
      BY <1>t, <3>1, <3>2 DEF WriteRunning
    <3>3. CASE ~WriteRunning(p)
      <4>1. pc[p] \in Writing
        BY <2>2, <2>6, <3>3 DEF Arrivals, Writing, OpenEvidence, BodyBegin, BodyRecord,
             BodyDone, BodyFails, BodyNoisy, CommitEvidence
      <4>2. state'[s] = state[s]
        BY <2>2, <3>1, <3>3, <4>1 DEF Footprint, Writing, Skip, WriteFinal
      <4> QED
        BY <4>1, <4>2 DEF Whole
    <3> QED
      BY <3>2, <3>3
  <2>7. ASSUME pc'[p] \in Admitted \ {"commit", "final"}
        PROVE  NoCrash(records'[p])
    <3>1. CASE Admit(p)
      BY <1>t, <3>1 DEF Admit, NoCrash
    <3>2. CASE ArchiveProfile(p) \/ WriteRun(p) \/ Prepare(p) \/ WriteRunning(p)
      BY <3>2 DEF ArchiveProfile, WriteRun, Prepare, WriteRunning, Whole, Admitted, AttemptLabels
    <3>3. CASE OpenEvidence(p)
      BY <1>t, <3>3 DEF OpenEvidence, Save, Whole, Admitted, AttemptLabels
    <3>4. CASE BodyBegin(p)
      <4>1. NoCrash(records[p]) /\ NoCrash({})
        BY <3>4 DEF BodyBegin, Whole, Admitted, AttemptLabels, NoCrash
      <4> QED
        BY <1>t, <3>4, <4>1 DEF BodyBegin, Save
    <3>5. CASE BodyRecord(p)
      <4>1. PICK g \in Grades[s] : \E r \in g : records'[p] = Put(records[p], {Tag(r, n)})
        BY <1>t, <3>5 DEF BodyRecord, Save, Attempt
      <4>2. PICK r \in g : records'[p] = Put(records[p], {Tag(r, n)})
        BY <4>1
      <4>3. NoCrash(records[p]) /\ s \in Stages
        BY <1>t, <3>5 DEF BodyRecord, Whole, Admitted, AttemptLabels
      <4>4. NoCrash({Tag(r, n)}) /\ \A x \in {Tag(r, n)} : x.by = n
        BY <4>3, GradedTag DEF NoCrash
      <4> QED
        BY <4>2, <4>3, <4>4, PutGraded
    <3> QED
      BY <2>2, <2>7, <3>1, <3>2, <3>3, <3>4, <3>5 DEF Arrivals, Admitted, AttemptLabels
  <2>8. ASSUME pc'[p] \in {"work", "more"}, s \in Resets
        PROVE  \A r \in records'[p] : r.by = n
    <3>1. CASE BodyBegin(p)
      BY <1>t, <2>8, <3>1 DEF BodyBegin, Save
    <3>2. CASE BodyRecord(p)
      <4>1. PICK g \in Grades[s] : \E r \in g : records'[p] = Put(records[p], {Tag(r, n)})
        BY <1>t, <3>2 DEF BodyRecord, Save, Attempt
      <4>2. PICK r \in g : records'[p] = Put(records[p], {Tag(r, n)})
        BY <4>1
      <4>3. NoCrash(records[p]) /\ s \in Stages /\ \A r1 \in records[p] : r1.by = n
        BY <1>t, <2>8, <3>2 DEF BodyRecord, Whole, Admitted, AttemptLabels
      <4> DEFINE new == {Tag(r, n)}
      <4>4. NoCrash(new) /\ \A x \in new : x.by = n
        BY <4>3, GradedTag DEF NoCrash
      <4>5. records'[p] = Put(records[p], new)
        BY <4>2
      <4> HIDE DEF new, n
      <4> QED
        BY <4>3, <4>4, <4>5 DEF Put
    <3> QED
      BY <2>2, <2>8, <3>1, <3>2 DEF Arrivals
  <2>9. ASSUME pc'[p] \in {"commit", "final"}
        PROVE  /\ fate'[p] = "complete" => Complete(s, n, records'[p])
               /\ fate'[p] = "failed" => Crashed(s, n, records'[p])
    <3>s. s \in Stages
      BY <2>5, <2>9 DEF Admitted, AttemptLabels
    <3>1. CASE BodyDone(p)
      <4>1. PICK g \in Grades[s] :
               /\ {r \in records[p] : r.by = n} \subseteq {Tag(r, n) : r \in g}
               /\ records'[p] = Put(records[p], {Tag(r, n) : r \in g})
        BY <1>t, <3>1 DEF BodyDone, Save, Attempt, Tagged
      <4> DEFINE new == {Tag(r, n) : r \in g}
      <4>2. /\ NoCrash(records[p]) /\ fate'[p] = "complete"
            /\ s \in Resets => \A r \in records[p] : r.by = n
        BY <1>t, <3>1 DEF BodyDone, Whole, Admitted, AttemptLabels
      <4>3. records'[p] = Put(records[p], new) /\ (s \in Resets => records[p] \subseteq new)
        BY <4>1, <4>2
      <4>4. NoCrash(new) /\ \A x \in new : x.by = n
        BY <3>s, GradedTag DEF NoCrash
      <4>d. \A r \in g : Tag(r, n) \in new /\ Tag(r, n).id = r.id
        BY DEF Tag
      <4>5. /\ NoCrash(records'[p]) /\ new \subseteq records'[p]
            /\ \A r \in records'[p] : r \in new \/ r.id \notin IdsOf(g)
            /\ s \in Resets => records'[p] = new
        <5> HIDE DEF new, n
        <5>1. NoCrash(Put(records[p], new)) /\ new \subseteq Put(records[p], new)
          BY <4>2, <4>4, PutGraded
        <5>2. s \in Resets => Put(records[p], new) = new
          BY <4>3 DEF Put
        <5>3. \A r \in Put(records[p], new) : r \in new \/ r.id \notin IdsOf(g)
          BY <4>d DEF Put, IdsOf
        <5> QED
          BY <4>3, <5>1, <5>2, <5>3
      <4> QED
        BY <4>2, <4>5 DEF Complete
    <3>2. CASE BodyFails(p)
      <4>1. records'[p] = Put(records[p], {Tag(Crash(s), n)}) /\ fate'[p] = "failed"
        BY <1>t, <3>2 DEF BodyFails, Save, Attempt
      <4>2. NoCrash(records[p])
        BY <3>2 DEF BodyFails, Whole, Admitted, AttemptLabels
      <4> QED
        BY <3>s, <4>1, <4>2, PutCrash
    <3>3. CASE BodyNoisy(p)
      BY <1>t, <3>3 DEF BodyNoisy
    <3>4. CASE CommitEvidence(p)
      BY <1>t, <3>4 DEF CommitEvidence, Save, Whole
    <3> QED
      BY <2>2, <2>9, <3>1, <3>2, <3>3, <3>4 DEF Arrivals
  <2>10. ASSUME pc'[p] = "final"
         PROVE  evidence'[s] = records'[p]
    <3>1. CommitEvidence(p) /\ s \in Stages
      BY <2>2, <2>5, <2>10 DEF Arrivals, Admitted, AttemptLabels
    <3> QED
      BY <1>t, <3>1 DEF CommitEvidence, Save
  <2>11. ASSUME pc'[p] \in {"work", "more", "commit", "final"}
         PROVE  state'[s].attempts = n
    BY <2>2, <2>6, <2>11 DEF Arrivals, Writing, WriteRunning, BodyBegin, BodyRecord, BodyDone,
       BodyFails, BodyNoisy, CommitEvidence
  <2>12. ASSUME NEW q \in Procs
         PROVE  LET t == cmd'[q]
                    m == state'[t].attempts
                IN /\ pc'[q] \in Writing \cup {"final"} => state'[t].status = "running"
                   /\ pc'[q] \in Admitted \ {"commit", "final"} => NoCrash(records'[q])
                   /\ pc'[q] \in {"work", "more"} /\ t \in Resets =>
                         \A r \in records'[q] : r.by = m
                   /\ pc'[q] \in {"commit", "final"} =>
                         /\ fate'[q] = "complete" => Complete(t, m, records'[q])
                         /\ fate'[q] = "failed" => Crashed(t, m, records'[q])
                   /\ pc'[q] = "final" => evidence'[t] = records'[q]
    <3>1. CASE pc'[q] \notin Admitted
      BY <3>1 DEF Admitted, AttemptLabels, Writing
    <3>2. CASE q # p /\ pc'[q] \in Admitted
      BY <2>4, <3>2 DEF Whole
    <3>3. CASE q = p /\ pc'[q] \in Admitted
      BY <2>5, <2>6, <2>7, <2>8, <2>9, <2>10, <2>11, <3>3
    <3> QED
      BY <3>1, <3>2, <3>3
  <2> QED
    BY <2>3, <2>12 DEF Whole, NoCrash, Complete, Crashed
<1> QED
  BY <1>1, <1>2

-----------------------------------------------------------------------------
(* The theorems *)

\* The whole invariant.
Sound == Safe /\ Ordered /\ Built /\ Pinned /\ Whole

\* The empty directory satisfies it.
LEMMA InitSound == Init => Sound
<1> SUFFICES ASSUME Init PROVE Sound
  OBVIOUS
<1>1. Safe
  BY InitSafe
<1>2. /\ \A s \in Stages : state[s].status = "none" /\ pin[s] = None
      /\ \A p \in Procs : pc[p] = "idle"
  BY DEF Init, NoSnap, NotStarted
<1>3. Ordered
  BY <1>2 DEF Ordered, InOrder, Admitted, AttemptLabels
<1>4. Built
  BY <1>2 DEF Built, Compiled, Stages
<1>5. Pinned
  BY <1>2 DEF Pinned, PinnedHarness, Admitted, AttemptLabels, Writing, FINAL, Stages
<1>6. CommittedIsWhole
  BY <1>2 DEF CommittedIsWhole
<1>7. Whole
  BY <1>2, <1>6 DEF Whole, Admitted, AttemptLabels, Writing
<1> QED
  BY <1>1, <1>3, <1>4, <1>5, <1>7 DEF Sound

\* Every step keeps it.
LEMMA NextSound == Sound /\ [Next]_vars => Sound'
  BY NextSafe, NextOrdered, NextBuilt, NextPinned, NextWhole DEF Sound

\* Stages run in their order and under the gate, whatever is killed and restarted: a started
\* stage has final prerequisites, a gated stage ran only with an open gate, and a stage was
\* skipped only where the gate is closed or cost is not due.
THEOREM StagesKeepOrder == Spec => []StagesInOrder
<1>1. Sound => StagesInOrder
  BY OrderMeans DEF Sound, Ordered
<1> QED
  BY InitSound, NextSound, <1>1, PTL DEF Spec

\* No attempt of a later stage loses its build, snapshots or outputs to a clean, an interrupted
\* one included.
THEOREM AttemptsKeepBulk == Spec => []AttemptKeepsBulk
<1>1. Sound => AttemptKeepsBulk
  BY KeepsBulk DEF Sound
<1> QED
  BY InitSound, NextSound, <1>1, PTL DEF Spec

\* A final state was written by the harness that run.json names for its stage, also after a cost
\* amendment, and all stages but cost are pinned to one harness.
THEOREM HarnessIsPinned == Spec => []PinnedHarness
<1>1. Sound => PinnedHarness
  BY DEF Sound, Pinned
<1> QED
  BY InitSound, NextSound, <1>1, PTL DEF Spec

\* Behind a committed state lies whole evidence of the attempt that committed, wherever earlier
\* attempts were killed.
THEOREM CommitsAreWhole == Spec => []CommittedIsWhole
<1>1. Sound => CommittedIsWhole
  BY DEF Sound, Whole
<1> QED
  BY InitSound, NextSound, <1>1, PTL DEF Spec

-----------------------------------------------------------------------------
(* The invariants *)

Snapping == {"d_states", "d_evidence", "d_rehash", "d_write"}

\* The stages whose state decide has read, whose evidence, and whose hash again.
StatesRead(p) ==
    IF pc[p] = "d_states" THEN Before(p)
    ELSE IF pc[p] \in {"d_evidence", "d_rehash", "d_write"} THEN Stages ELSE {}
EvidenceRead(p) ==
    IF pc[p] = "d_evidence" THEN Before(p)
    ELSE IF pc[p] \in {"d_rehash", "d_write"} THEN Stages ELSE {}
Rehashed(p) ==
    IF pc[p] = "d_rehash" THEN Before(p) ELSE IF pc[p] = "d_write" THEN Stages ELSE {}

\* A state file only moves forward: to the next attempt, from running to its end, and from
\* there to skipped.
Phase(st) ==
    IF st.status \in {"none", "running"} THEN 0 ELSE IF st.status = "skipped" THEN 2 ELSE 1
Later(st, now) ==
    \/ now.attempts > st.attempts
    \/ now.attempts = st.attempts /\ Phase(now) > Phase(st)

\* The evidence that the state st of stage s commits.
What(st, s) ==
    IF st.status = "complete" THEN evidence[s]
    ELSE IF st.status = "failed" THEN {Tag(Crash(s), st.attempts)}
    ELSE {}

\* A state that was read of stage s is behind the file or equal to it, equal if it is final,
\* and if the stage had started, what it needs is final by now.
ReadBefore(st, s) ==
    /\ st = state[s] \/ Later(st, state[s])
    /\ st.status \in FINAL => st = state[s]
    /\ st.status # "none" => \A n \in PREREQUISITES(s) : state[n].status \in FINAL

\* Final in the snapshot, if a stage that needs it has started there.
Supports(states, s) ==
    (\E t \in Stages : s \in PREREQUISITES(t) /\ states[t].status # "none")
        => states[s].status \in FINAL

\* What a decide on its way has read: evidence of a state that has not moved on is what this
\* state commits; after the second hash it is so in any case.
Reads(p) ==
    /\ \A s \in StatesRead(p) : ReadBefore(snap[p][s], s)
    /\ \A s \in EvidenceRead(p) :
          snap[p][s] = state[s] => seen[p][s] = What(snap[p][s], s)
    /\ \A s \in Rehashed(p) : seen[p][s] = What(snap[p][s], s) /\ Supports(snap[p], s)
Snapshots == \A p \in Procs : Reads(p)

\* SessionVerdict as a function of what decide reads besides the snapshot: whether cost is due.
RequiredGiven(states, due) ==
    {"compile", "quality"}
    \cup (IF states["quality"].status = "complete"
             /\ states["quality"].gate \in {"improved", "aa"}
          THEN {"correctness"}
               \cup (IF states["correctness"].status = "complete" /\ due # "no"
                     THEN {"cost"} ELSE {})
          ELSE {})
    \cup (IF states["unit-tests"].status \in {"running", "failed", "complete"}
          THEN {"unit-tests"} ELSE {})
PendingGiven(states, due) ==
    {s \in RequiredGiven(states, due) : states[s].status \notin FINAL \cup {"failed"}}
IdsGiven(states) ==
    RequiredQuality \cup {<<"correctness", "preflight">>, <<"correctness", "suite">>,
                         <<"cost", "panel">>}
    \cup (IF states["unit-tests"].status \in {"running", "failed", "complete"}
          THEN {<<"unit-tests", "upstream">>} ELSE {})
VerdictGiven(states, rows, due) ==
    LET v == verdict(Considered(rows), IdsGiven(states))
    IN  IF PendingGiven(states, due) # {} /\ v # "ERROR" THEN "INCONCLUSIVE" ELSE v

\* What the recorded decision says, and that its verdict is the one of its states and evidence.
Decided ==
    decision.verdict # "none" =>
        /\ \A s \in Stages : /\ ReadBefore(decision.states[s], s)
                             /\ decision.evidence[s] = What(decision.states[s], s)
                             /\ Supports(decision.states, s)
        /\ decision.verdict = VerdictGiven(decision.states, decision.evidence, cost_due)

\* What is true of every record a stage may leave: it is its own, what verdict() would refuse
\* is not there, identical builds have not improved, and if it is not of a crash a body gave it.
Proper(s, r) ==
    /\ r.id[1] = s
    /\ r.id[2] = "improvement" => r.kind = "improvement"
    /\ r.result = "passed_on_rerun" => r.kind = "cost"
    /\ (SameBuild /\ r.kind = "improvement") => r.result # "passed"
    /\ IsCrash(r) \/ record(r.id, r.kind, r.result, r.subject) \in UNION Grades[s]

\* All records are proper, and quality's gate is the judgement of the evidence it committed.
Graded ==
    /\ \A s \in Stages : \A r \in evidence[s] : Proper(s, r)
    /\ \A p \in Procs : pc[p] \in Admitted => \A r \in records[p] : Proper(cmd[p], r)
    /\ state["quality"].status = "complete" =>
          state["quality"].gate = gate(SameBuild, Committed("compile") \cup evidence["quality"],
                                       RequiredQuality, ImprovementIds)

-----------------------------------------------------------------------------
(* Who reads *)

\* Nobody touches what another process has read, and decide alone reads and decides.
Traced(p) ==
    /\ \A q \in Procs \ {p} : /\ pc'[q] = pc[q] /\ idx'[q] = idx[q]
                              /\ snap'[q] = snap[q] /\ seen'[q] = seen[q]
    /\ decision' = decision \/ WriteDecision(p)
    /\ pc'[p] \in Snapping => \/ DecideLock(p) \/ ReadState(p) \/ ReadEvidence(p)
                              \/ Rehash(p) \/ RehashDiffers(p)

\* A process that is gone takes only its own reading with it.
LEMMA GoneTraced ==
  ASSUME Typed, NEW p \in Procs, Gone(p), UNCHANGED decision
  PROVE  Traced(p)
<1>1. \A q \in Procs \ {p} : /\ pc'[q] = pc[q] /\ idx'[q] = idx[q]
                            /\ snap'[q] = snap[q] /\ seen'[q] = seen[q]
  BY DEF Typed, TypeOK, Gone
<1>2. pc'[p] = "idle"
  BY DEF Typed, TypeOK, Gone
<1> QED
  BY <1>1, <1>2 DEF Traced, Snapping

\* A stage reads for no decision.
LEMMA StageTraced ==
  ASSUME Typed, Open, Reader, NEW p \in Procs, StageStep(p)
  PROVE  Traced(p)
<1>1. StageEffect(p)
  BY StageEffects
<1>2. UNCHANGED seen \/ Gone(p)
  <2>1. CASE \/ CheckSessionDirectory(p) \/ MakeDirectory(p) \/ LockLifecycle(p) \/ LockStage(p)
             \/ EndUnstarted(p) \/ EnvironmentRefuses(p) \/ Skip(p) \/ Admit(p)
             \/ ArchiveProfile(p) \/ WriteRun(p) \/ PrepareRefuses(p) \/ Prepare(p)
    BY <2>1 DEF CheckSessionDirectory, MakeDirectory, LockLifecycle, LockStage, EndUnstarted,
       EnvironmentRefuses, Skip, Admit, ArchiveProfile, WriteRun, PrepareRefuses, Prepare, Exit
  <2>2. CASE \/ WriteRunning(p) \/ OpenEvidence(p) \/ BodyBegin(p) \/ BodyRecord(p) \/ BodyDone(p)
             \/ BodyFails(p) \/ BodyNoisy(p) \/ CommitEvidence(p) \/ WriteFinal(p)
    BY <2>2 DEF WriteRunning, OpenEvidence, BodyBegin, BodyRecord, BodyDone, BodyFails, BodyNoisy,
       CommitEvidence, WriteFinal, Exit
  <2> QED
    BY <2>1, <2>2 DEF StageStep
<1>3. \A q \in Procs \ {p} : seen'[q] = seen[q]
  BY <1>2 DEF Typed, TypeOK, Gone
<1> QED
  BY <1>1, <1>3 DEF StageEffect, Traced, Reading, Snapping

\* Every step of a process leaves these traces.
LEMMA AllTraced ==
  ASSUME Safe, NEW p \in Procs, Acts(p)
  PROVE  Traced(p)
<1>t. /\ pc \in [Procs -> Labels] /\ idx \in [Procs -> 1..Len(STAGE_ORDER)]
      /\ snap \in [Procs -> [Stages -> StateFile]] /\ seen \in [Procs -> [Stages -> SUBSET Row]]
      /\ Typed
  BY DEF Safe, Typed, TypeOK
<1>m. ASSUME NEW l, Goto(p, l), l \notin Snapping, UNCHANGED <<idx, snap, seen, decision>>
      PROVE  Traced(p)
  BY <1>t, <1>m DEF Goto, Traced
<1>1. CASE Start(p)
  <2>1. PICK c \in Commands[p] :
           Goto(p, FirstStep(c)) /\ UNCHANGED <<idx, snap, seen, decision>>
    BY <1>1 DEF Start
  <2>2. FirstStep(c) \notin Snapping
    BY DEF FirstStep, Snapping
  <2> QED
    BY <1>m, <2>1, <2>2
<1>2. CASE Kill(p)
  BY <1>t, <1>2, GoneTraced DEF Kill
<1>3. CASE StageStep(p)
  BY <1>3, StageTraced DEF Safe
<1>4. CASE DecideShared(p)
  BY <1>4, <1>m DEF DecideShared, Snapping
<1>5. CASE DecideLock(p)
  BY <1>5, <1>t DEF DecideLock, Goto, Traced
<1>6. CASE ReadState(p)
  BY <1>6, <1>t DEF ReadState, Advance, Goto, Traced
<1>7. CASE ReadEvidence(p)
  BY <1>7, <1>t DEF ReadEvidence, Advance, Goto, Traced
<1>8. CASE Rehash(p) \/ RehashDiffers(p)
  BY <1>8, <1>t DEF Rehash, RehashDiffers, Advance, Goto, Traced
<1>9. CASE WriteDecision(p)
  BY <1>9, <1>t DEF WriteDecision, Goto, Traced, Snapping
<1>10. CASE AfterDecide(p)
  <2>1. CASE CleanupBlocked(p)
    BY <1>10, <1>t, <2>1, GoneTraced DEF AfterDecide, Exit
  <2>2. CASE ~CleanupBlocked(p)
    BY <1>10, <1>m, <2>2 DEF AfterDecide, Snapping
  <2> QED
    BY <2>1, <2>2
<1>11. ASSUME NEW next \in {"c_check", "a_write"}, LockExclusive(p, next)
       PROVE  Traced(p)
  <2>1. CASE sharers = {} /\ exclusive = None
    BY <1>m, <1>11, <2>1 DEF LockExclusive, Snapping
  <2>2. CASE ~(sharers = {} /\ exclusive = None)
    BY <1>t, <1>11, <2>2, GoneTraced DEF LockExclusive, Exit
  <2> QED
    BY <2>1, <2>2
<1>12. CASE CleanLock(p) \/ AmendLock(p)
  BY <1>11, <1>12 DEF CleanLock, AmendLock
<1>13. CASE CleanRefused(p) \/ CleanDone(p) \/ Amend(p)
  BY <1>13, <1>t, GoneTraced DEF CleanRefused, CleanDone, Amend, Exit
<1>14. CASE CleanPlan(p)
  BY <1>14, <1>m DEF CleanPlan, Snapping
<1>15. CASE CleanDelete(p)
  BY <1>15 DEF CleanDelete, Traced, Snapping
<1> QED
  BY <1>1, <1>2, <1>3, <1>4, <1>5, <1>6, <1>7, <1>8, <1>9, <1>10, <1>12, <1>13, <1>14, <1>15
     DEF Acts, Step, DecideStep, CleanStep, AmendStep

-----------------------------------------------------------------------------
(* States move forward *)

\* Whatever happens, a state file stays or moves forward.
LEMMA Climb ==
  ASSUME Sound, [Next]_vars, NEW s \in Stages
  PROVE  state'[s] = state[s] \/ Later(state[s], state'[s])
<1>t. /\ state \in [Stages -> StateFile] /\ harness \in [Procs -> Harnesses \cup {None}]
      /\ state[s].attempts \in Nat
      /\ \A p \in Procs : pc[p] \in {"commit", "final"} => fate[p] \in {"complete", "failed", "noisy"}
  BY DEF Sound, Safe, Typed, TypeOK, Control, StateFile
<1>1. CASE UNCHANGED vars
  BY <1>1
<1>2. CASE Next
  <2>1. PICK p \in Procs : Acts(p)
    BY <1>2 DEF Next, Acts
  <2>2. \/ state'[s] = state[s]
        \/ s = cmd[p] /\ (Skip(p) \/ WriteRunning(p) \/ WriteFinal(p))
    BY <2>1, Traces DEF Sound, Safe, Footprint
  <2>3. CASE s = cmd[p] /\ Skip(p)
    <3>1. state'[s].status = "skipped" /\ state'[s].attempts = state[s].attempts
      BY <1>t, <2>3 DEF Skip
    <3>2. state[s].status \notin FINAL
      BY <2>3 DEF Skip, Refused
    <3> QED
      BY <1>t, <3>1, <3>2 DEF Later, Phase, FINAL
  <2>4. CASE s = cmd[p] /\ WriteRunning(p)
    <3>1. state'[s].attempts = state[s].attempts + 1
      BY <1>t, <2>4 DEF WriteRunning
    <3> QED
      BY <1>t, <3>1 DEF Later
  <2>5. CASE s = cmd[p] /\ WriteFinal(p)
    <3>1. pc[p] = "final" /\ state[s].status = "running" /\ fate[p] \in {"complete", "failed", "noisy"}
      BY <1>t, <2>5 DEF WriteFinal, Sound, Whole
    <3>2. state'[s].status = fate[p] /\ state'[s].attempts = state[s].attempts
      BY <1>t, <2>5 DEF WriteFinal, StateFile
    <3> QED
      BY <1>t, <3>1, <3>2 DEF Later, Phase
  <2> QED
    BY <2>2, <2>3, <2>4, <2>5
<1> QED
  BY <1>1, <1>2

\* What was read of a stage stays behind the file, and its evidence stays.
Keeps(st, s) ==
    /\ st = state'[s] \/ Later(st, state'[s])
    /\ st.status \in FINAL => st = state'[s]
    /\ st.status # "none" => \A n \in PREREQUISITES(s) : state'[n].status \in FINAL
    /\ st = state'[s] => st = state[s]
    /\ st.status = "complete" => evidence'[s] = evidence[s]

\* Every step does that.
LEMMA ReadKeeps ==
  ASSUME Sound, [Next]_vars
  PROVE  \A s \in Stages : \A st \in StateFile : ReadBefore(st, s) => Keeps(st, s)
<1> SUFFICES ASSUME NEW s \in Stages, NEW st \in StateFile, ReadBefore(st, s)
             PROVE  Keeps(st, s)
  OBVIOUS
<1>f. \A n \in Stages : state[n].status \in FINAL =>
         state'[n] = state[n] /\ evidence'[n] = evidence[n]
  BY NextFinal DEF Sound
<1>t. /\ state[s] \in StateFile /\ state'[s] \in StateFile
  <2>1. Typed'
    BY NextSound DEF Sound, Safe
  <2> QED
    BY <2>1 DEF Sound, Safe, Typed, TypeOK
<1>n. /\ st.attempts \in Nat /\ state[s].attempts \in Nat /\ state'[s].attempts \in Nat
      /\ Phase(st) \in Nat /\ Phase(state[s]) \in Nat /\ Phase(state'[s]) \in Nat
  BY <1>t DEF StateFile, Phase
<1>1. state'[s] = state[s] \/ Later(state[s], state'[s])
  BY Climb
<1>2. st = state[s] \/ Later(st, state[s])
  BY DEF ReadBefore
<1>3. Later(st, state[s]) /\ Later(state[s], state'[s]) => Later(st, state'[s])
  BY <1>n DEF Later
<1>4. st = state'[s] \/ Later(st, state'[s])
  BY <1>1, <1>2, <1>3
<1>5. st = state'[s] => st = state[s]
  <2>1. ~Later(st, st)
    BY <1>n DEF Later
  <2> QED
    BY <1>1, <1>2, <1>3, <2>1
<1>6. st.status \in FINAL => st = state'[s] /\ evidence'[s] = evidence[s]
  BY <1>f DEF ReadBefore
<1>7. st.status # "none" => \A n \in PREREQUISITES(s) : state'[n].status \in FINAL
  BY <1>f DEF ReadBefore, PREREQUISITES
<1> QED
  BY <1>4, <1>5, <1>6, <1>7 DEF Keeps, FINAL

\* Whether cost is due matters only once compile, quality and correctness are final, and from
\* then on it stays as it is: the verdict of a snapshot does not depend on when it is taken.
LEMMA VerdictStays ==
  ASSUME Sound, [Next]_vars, NEW states, NEW rows,
         \A s \in Stages : ReadBefore(states[s], s) /\ Supports(states, s)
  PROVE  VerdictGiven(states, rows, cost_due') = VerdictGiven(states, rows, cost_due)
<1>f. \A n \in Stages : state[n].status \in FINAL =>
         state'[n] = state[n] /\ evidence'[n] = evidence[n]
  BY NextFinal DEF Sound
<1>1. CASE states["quality"].status = "complete" /\ states["correctness"].status = "complete"
  <2>1. states["compile"].status \in FINAL
    <3>1. "compile" \in PREREQUISITES("quality")
      BY DEF PREREQUISITES, Needs, Stages
    <3> QED
      BY <1>1, <3>1 DEF Supports, Stages
  <2>2. \A n \in {"compile", "quality", "correctness"} :
           state'[n] = state[n] /\ evidence'[n] = evidence[n]
    BY <1>1, <1>f, <2>1 DEF ReadBefore, Stages, FINAL
  <2>3. \A n \in {"compile", "quality", "correctness"} : Committed(n)' = Committed(n)
    BY <2>2 DEF Committed
  <2>4. {Committed(n) : n \in {"compile", "quality", "correctness"}}'
           = {Committed(n) : n \in {"compile", "quality", "correctness"}}
    BY <2>3
  <2> QED
    BY <2>4 DEF cost_due
<1>2. CASE ~(states["quality"].status = "complete" /\ states["correctness"].status = "complete")
  <2>1. RequiredGiven(states, cost_due') = RequiredGiven(states, cost_due)
    BY <1>2 DEF RequiredGiven
  <2> QED
    BY <2>1 DEF VerdictGiven, PendingGiven
<1> QED
  BY <1>1, <1>2

\* The verdict that decide writes is this function of its snapshot.
LEMMA VerdictMeans ==
  \A states, rows : SessionVerdict(states, rows) = VerdictGiven(states, rows, cost_due)
<1> SUFFICES ASSUME NEW states, NEW rows
             PROVE  SessionVerdict(states, rows) = VerdictGiven(states, rows, cost_due)
  OBVIOUS
<1>1. RequiredStages(states) = RequiredGiven(states, cost_due)
  BY DEF RequiredStages, RequiredGiven
<1>2. Pending(states) = PendingGiven(states, cost_due)
  BY <1>1 DEF Pending, PendingGiven
<1>3. "unit-tests" \in RequiredStages(states)
         <=> states["unit-tests"].status \in {"running", "failed", "complete"}
  BY DEF RequiredStages
<1>4. RequiredIds(states) = IdsGiven(states)
  BY <1>3 DEF RequiredIds, IdsGiven
<1> QED
  BY <1>2, <1>4 DEF SessionVerdict, VerdictGiven

-----------------------------------------------------------------------------
(* A decide on its way *)

\* The stages before a position are stages.
LEMMA BeforeStages == Typed => \A p \in Procs : Before(p) \subseteq Stages
<1> SUFFICES ASSUME Typed, NEW p \in Procs PROVE Before(p) \subseteq Stages
  OBVIOUS
<1>1. idx[p] \in 1..5
  BY OrderCovers DEF Typed, TypeOK
<1>2. 1..(idx[p] - 1) \subseteq 1..5
  BY <1>1
<1> QED
  BY <1>2, OrderCovers DEF Before

\* A reader goes from stage to stage, and after the last one begins its next pass.
LEMMA Advances ==
  ASSUME Typed, NEW p \in Procs, NEW next, Advance(p, next)
  PROVE  /\ At(p) \in Stages
         /\ \/ pc'[p] = pc[p] /\ Before(p)' = Before(p) \cup {At(p)}
            \/ pc'[p] = next /\ Before(p)' = {} /\ Before(p) \cup {At(p)} = Stages
<1>t. pc \in [Procs -> Labels] /\ idx \in [Procs -> 1..5] /\ idx[p] \in 1..5
  BY OrderCovers DEF Typed, TypeOK
<1>1. /\ idx' = [idx EXCEPT ![p] = IF idx[p] = 5 THEN 1 ELSE idx[p] + 1]
      /\ pc' = [pc EXCEPT ![p] = IF idx[p] = 5 THEN next ELSE pc[p]]
      /\ At(p) = STAGE_ORDER[idx[p]]
  BY OrderCovers DEF Advance, Goto, At
<1>2. CASE idx[p] = 5
  <2>1. idx'[p] = 1 /\ pc'[p] = next
    BY <1>t, <1>1, <1>2
  <2>2. Before(p)' = {}
    BY <2>1 DEF Before
  <2> QED
    BY <1>1, <1>2, <2>1, <2>2, OrderCovers DEF Before
<1>3. CASE idx[p] # 5
  <2>1. idx'[p] = idx[p] + 1 /\ pc'[p] = pc[p]
    BY <1>t, <1>1, <1>3
  <2>2. 1..(idx'[p] - 1) = 1..(idx[p] - 1) \cup {idx[p]}
    BY <1>t, <2>1
  <2>3. Before(p)' = Before(p) \cup {At(p)}
    BY <1>1, <2>2 DEF Before
  <2> QED
    BY <1>t, <2>1, <2>3, <1>1, OrderCovers
<1> QED
  BY <1>2, <1>3

\* Who does not move keeps what it has read, whatever the others do.
LEMMA ReaderKeeps ==
  ASSUME Sound, [Next]_vars, NEW p \in Procs, Reads(p),
         pc'[p] = pc[p], idx'[p] = idx[p], snap'[p] = snap[p], seen'[p] = seen[p]
  PROVE  Reads(p)'
<1>1. /\ StatesRead(p)' = StatesRead(p) /\ EvidenceRead(p)' = EvidenceRead(p)
      /\ Rehashed(p)' = Rehashed(p)
  BY DEF StatesRead, EvidenceRead, Rehashed, Before
<1>2. Before(p) \subseteq Stages /\ snap[p] \in [Stages -> StateFile]
  BY BeforeStages DEF Sound, Safe, Typed, TypeOK
<1>3. /\ StatesRead(p) \subseteq Stages /\ EvidenceRead(p) \subseteq StatesRead(p)
      /\ Rehashed(p) \subseteq StatesRead(p)
  BY <1>2 DEF StatesRead, EvidenceRead, Rehashed
<1>4. \A s \in StatesRead(p) : Keeps(snap[p][s], s)
  BY <1>2, <1>3, ReadKeeps DEF Reads
<1>5. \A s \in StatesRead(p) : ReadBefore(snap[p][s], s)'
  BY <1>4 DEF Keeps, ReadBefore
<1>6. \A s \in StatesRead(p) : What(snap[p][s], s)' = What(snap[p][s], s)
  BY <1>4 DEF Keeps, What
<1>7. \A s \in EvidenceRead(p) : snap'[p][s] = state'[s] => seen'[p][s] = What(snap[p][s], s)'
  BY <1>3, <1>4, <1>6 DEF Keeps, Reads
<1>8. \A s \in Rehashed(p) : seen'[p][s] = What(snap[p][s], s)' /\ Supports(snap[p], s)'
  BY <1>3, <1>6 DEF Reads, Supports
<1> QED
  BY <1>1, <1>5, <1>7, <1>8 DEF Reads

\* What is committed for a state is what decide takes for it.
LEMMA CommittedWhat ==
  ASSUME Sound, NEW s \in Stages
  PROVE  committed_evidence(state[s], evidence[s]) = What(state[s], s)
  BY DEF Sound, Whole, CommittedIsWhole, committed_evidence, What

\* A pass of decide keeps what the readings mean.
LEMMA PassKeeps ==
  ASSUME Sound, NEW p \in Procs, Reads(p), ReadState(p) \/ ReadEvidence(p) \/ Rehash(p)
  PROVE  Reads(p)'
<1>t. /\ snap \in [Procs -> [Stages -> StateFile]] /\ seen \in [Procs -> [Stages -> SUBSET Row]]
      /\ Typed /\ Before(p) \subseteq Stages
  BY BeforeStages DEF Sound, Safe, Typed, TypeOK
<1>o. \A s \in Stages : ReadBefore(state[s], s)
  BY DEF Sound, Ordered, InOrder, ReadBefore
<1>1. CASE ReadState(p)
  <2>1. /\ pc[p] = "d_states" /\ UNCHANGED <<state, evidence, seen>> /\ Advance(p, "d_evidence")
        /\ snap' = [snap EXCEPT ![p][At(p)] = state[At(p)]]
    BY <1>1 DEF ReadState
  <2>2. /\ At(p) \in Stages
        /\ \/ pc'[p] = "d_states" /\ Before(p)' = Before(p) \cup {At(p)}
           \/ pc'[p] = "d_evidence" /\ Before(p)' = {} /\ Before(p) \cup {At(p)} = Stages
    BY <1>t, <2>1, Advances
  <2>3. \A s \in Stages : snap'[p][s] = IF s = At(p) THEN state[s] ELSE snap[p][s]
    BY <1>t, <2>1, <2>2
  <2>4. \A s \in Before(p) \cup {At(p)} : ReadBefore(snap'[p][s], s)
    BY <1>t, <1>o, <2>1, <2>2, <2>3 DEF Reads, StatesRead
  <2>5. /\ StatesRead(p)' \subseteq Before(p) \cup {At(p)}
        /\ EvidenceRead(p)' = {} /\ Rehashed(p)' = {}
    BY <2>2 DEF StatesRead, EvidenceRead, Rehashed
  <2>6. \A s \in StatesRead(p)' : ReadBefore(snap[p][s], s)'
    BY <2>1, <2>4, <2>5 DEF ReadBefore, Later, Phase
  <2> QED
    BY <2>5, <2>6 DEF Reads
<1>2. CASE ReadEvidence(p)
  <2>1. /\ pc[p] = "d_evidence" /\ UNCHANGED <<state, evidence, snap>> /\ Advance(p, "d_rehash")
        /\ seen' = [seen EXCEPT ![p][At(p)] =
                        committed_evidence(snap[p][At(p)], evidence[At(p)])]
    BY <1>2 DEF ReadEvidence
  <2>2. /\ At(p) \in Stages
        /\ \/ pc'[p] = "d_evidence" /\ Before(p)' = Before(p) \cup {At(p)}
           \/ pc'[p] = "d_rehash" /\ Before(p)' = {} /\ Before(p) \cup {At(p)} = Stages
    BY <1>t, <2>1, Advances
  <2>3. \A s \in Stages : seen'[p][s] =
           IF s = At(p) THEN committed_evidence(snap[p][s], evidence[s]) ELSE seen[p][s]
    BY <1>t, <2>1, <2>2
  <2>4. \A s \in Before(p) \cup {At(p)} :
           snap[p][s] = state[s] => seen'[p][s] = What(snap[p][s], s)
    BY <1>t, <2>1, <2>2, <2>3, CommittedWhat DEF Reads, EvidenceRead
  <2>5. /\ StatesRead(p)' = Stages /\ StatesRead(p) = Stages
        /\ EvidenceRead(p)' \subseteq Before(p) \cup {At(p)} /\ Rehashed(p)' = {}
    BY <2>1, <2>2 DEF StatesRead, EvidenceRead, Rehashed
  <2>6. \A s \in Stages : ReadBefore(snap[p][s], s)'
    BY <2>1, <2>5 DEF Reads, ReadBefore
  <2>7. \A s \in EvidenceRead(p)' : (snap[p][s] = state[s] => seen[p][s] = What(snap[p][s], s))'
    BY <2>1, <2>4, <2>5 DEF What
  <2> QED
    BY <2>5, <2>6, <2>7 DEF Reads
<1>3. CASE Rehash(p)
  <2>1. /\ pc[p] = "d_rehash" /\ UNCHANGED <<state, evidence, snap, seen>> /\ Advance(p, "d_write")
        /\ state[At(p)] = snap[p][At(p)]
    BY <1>3 DEF Rehash
  <2>2. /\ At(p) \in Stages
        /\ \/ pc'[p] = "d_rehash" /\ Before(p)' = Before(p) \cup {At(p)}
           \/ pc'[p] = "d_write" /\ Before(p)' = {} /\ Before(p) \cup {At(p)} = Stages
    BY <1>t, <2>1, Advances
  <2>3. /\ StatesRead(p)' = Stages /\ StatesRead(p) = Stages
        /\ EvidenceRead(p)' = Stages /\ EvidenceRead(p) = Stages
        /\ Rehashed(p)' \subseteq Before(p) \cup {At(p)} /\ Rehashed(p) = Before(p)
    BY <2>1, <2>2 DEF StatesRead, EvidenceRead, Rehashed
  <2>4. seen[p][At(p)] = What(snap[p][At(p)], At(p))
    BY <2>1, <2>2, <2>3 DEF Reads
  <2>5. Supports(snap[p], At(p))
    BY <2>1, <2>3 DEF Reads, ReadBefore, Supports
  <2>6. \A s \in Stages : ReadBefore(snap[p][s], s)'
    BY <2>1, <2>3 DEF Reads, ReadBefore
  <2>7. \A s \in Stages : (snap[p][s] = state[s] => seen[p][s] = What(snap[p][s], s))'
    BY <2>1, <2>3 DEF Reads, What
  <2>8. \A s \in Rehashed(p)' : (seen[p][s] = What(snap[p][s], s) /\ Supports(snap[p], s))'
    BY <2>1, <2>3, <2>4, <2>5 DEF Reads, What, Supports
  <2> QED
    BY <2>3, <2>6, <2>7, <2>8 DEF Reads
<1> QED
  BY <1>1, <1>2, <1>3

\* Every step keeps what every decide on its way has read.
LEMMA NextSnapshots ==
  ASSUME Sound, Snapshots, [Next]_vars
  PROVE  Snapshots'
<1>1. CASE UNCHANGED vars
  BY <1>1, ReaderKeeps DEF Snapshots
<1>2. CASE Next
  <2>1. PICK p \in Procs : Acts(p)
    BY <1>2 DEF Next, Acts
  <2>2. Traced(p)
    BY <2>1, AllTraced DEF Sound
  <2>3. \A q \in Procs \ {p} : Reads(q)'
    BY <2>2, ReaderKeeps DEF Traced, Snapshots
  <2>4. CASE pc'[p] \notin Snapping
    <3>1. StatesRead(p)' = {} /\ EvidenceRead(p)' = {} /\ Rehashed(p)' = {}
      BY <2>4 DEF StatesRead, EvidenceRead, Rehashed, Snapping
    <3> QED
      BY <2>3, <3>1 DEF Snapshots, Reads
  <2>5. CASE DecideLock(p) \/ RehashDiffers(p)
    <3>1. pc'[p] = "d_states" /\ idx'[p] = 1
      BY <2>5 DEF DecideLock, RehashDiffers, Goto, Sound, Safe, Reader, Reading, Typed, TypeOK
    <3>2. Before(p)' = {}
      BY <3>1 DEF Before
    <3>3. StatesRead(p)' = {} /\ EvidenceRead(p)' = {} /\ Rehashed(p)' = {}
      BY <3>1, <3>2 DEF StatesRead, EvidenceRead, Rehashed
    <3> QED
      BY <2>3, <3>3 DEF Snapshots, Reads
  <2>6. CASE ReadState(p) \/ ReadEvidence(p) \/ Rehash(p)
    BY <2>3, <2>6, PassKeeps DEF Snapshots
  <2> QED
    BY <2>2, <2>4, <2>5, <2>6 DEF Traced
<1> QED
  BY <1>1, <1>2

-----------------------------------------------------------------------------
(* The decision *)

\* A decide that writes has read one instant of the stages.
LEMMA Snapshot ==
  ASSUME Sound, Snapshots, NEW p \in Procs, WriteDecision(p)
  PROVE  /\ UNCHANGED <<state, evidence>>
         /\ decision' = [states |-> snap[p], evidence |-> seen[p],
                         verdict |-> VerdictGiven(snap[p], seen[p], cost_due)]
         /\ decision'.verdict # "none"
         /\ \A s \in Stages : /\ ReadBefore(snap[p][s], s)
                              /\ seen[p][s] = What(snap[p][s], s)
                              /\ Supports(snap[p], s)
<1>1. pc[p] = "d_write" /\ UNCHANGED <<state, evidence>>
  BY DEF WriteDecision
<1>2. decision' = [states |-> snap[p], evidence |-> seen[p],
                   verdict |-> SessionVerdict(snap[p], seen[p])]
  BY DEF WriteDecision
<1>3. SessionVerdict(snap[p], seen[p]) # "none"
  BY SessionVerdictType DEF VERDICTS
<1>4. StatesRead(p) = Stages /\ Rehashed(p) = Stages
  BY <1>1 DEF StatesRead, Rehashed
<1> QED
  BY <1>1, <1>2, <1>3, <1>4, VerdictMeans DEF Snapshots, Reads

\* Every step keeps what the decision means.
LEMMA NextDecided ==
  ASSUME Sound, Snapshots, Decided, [Next]_vars
  PROVE  Decided'
<1>t. decision.states \in [Stages -> StateFile]
  BY DEF Sound, Safe, Typed, TypeOK
<1>1. ASSUME UNCHANGED decision, decision.verdict # "none"
      PROVE  Decided'
  <2>1. \A s \in Stages : /\ ReadBefore(decision.states[s], s)
                          /\ decision.evidence[s] = What(decision.states[s], s)
                          /\ Supports(decision.states, s)
    BY <1>1 DEF Decided
  <2>2. \A s \in Stages : Keeps(decision.states[s], s)
    BY <1>t, <2>1, ReadKeeps
  <2>3. \A s \in Stages : ReadBefore(decision.states[s], s)'
    BY <1>1, <2>2 DEF Keeps, ReadBefore
  <2>4. \A s \in Stages : (decision.evidence[s] = What(decision.states[s], s))'
    BY <1>1, <2>1, <2>2 DEF Keeps, What
  <2>5. \A s \in Stages : Supports(decision.states, s)'
    BY <1>1, <2>1 DEF Supports
  <2>6. VerdictGiven(decision.states, decision.evidence, cost_due')
           = VerdictGiven(decision.states, decision.evidence, cost_due)
    BY <2>1, VerdictStays
  <2>7. decision.verdict = VerdictGiven(decision.states, decision.evidence, cost_due)
    BY <1>1 DEF Decided
  <2>8. decision'.verdict = VerdictGiven(decision'.states, decision'.evidence, cost_due')
    BY <1>1, <2>6, <2>7
  <2> QED
    BY <2>3, <2>4, <2>5, <2>8 DEF Decided
<1>2. ASSUME NEW p \in Procs, WriteDecision(p)
      PROVE  Decided'
  <2>1. /\ UNCHANGED <<state, evidence>>
        /\ decision' = [states |-> snap[p], evidence |-> seen[p],
                        verdict |-> VerdictGiven(snap[p], seen[p], cost_due)]
        /\ \A s \in Stages : /\ ReadBefore(snap[p][s], s)
                             /\ seen[p][s] = What(snap[p][s], s)
                             /\ Supports(snap[p], s)
    BY <1>2, Snapshot
  <2>2. /\ decision'.states = snap[p] /\ decision'.evidence = seen[p]
        /\ decision'.verdict = VerdictGiven(snap[p], seen[p], cost_due)
    BY <2>1
  <2>3. cost_due' = cost_due
    BY <2>1 DEF cost_due, Committed
  <2>4. \A s \in Stages : /\ ReadBefore(decision.states[s], s)'
                          /\ (decision.evidence[s] = What(decision.states[s], s))'
                          /\ Supports(decision.states, s)'
    BY <2>1, <2>2 DEF ReadBefore, What, Supports
  <2>5. decision'.verdict = VerdictGiven(decision'.states, decision'.evidence, cost_due')
    BY <2>2, <2>3
  <2> QED
    BY <2>4, <2>5 DEF Decided
<1>3. ASSUME UNCHANGED decision PROVE Decided'
  <2>1. CASE decision.verdict = "none"
    BY <1>3, <2>1 DEF Decided
  <2> QED
    BY <1>1, <1>3, <2>1
<1>4. CASE UNCHANGED vars
  BY <1>3, <1>4
<1>5. CASE Next
  <2>1. PICK p \in Procs : Acts(p)
    BY <1>5 DEF Next, Acts
  <2>2. Traced(p)
    BY <2>1, AllTraced DEF Sound
  <2> QED
    BY <1>2, <1>3, <2>2 DEF Traced
<1> QED
  BY <1>4, <1>5

\* Deciding again writes what is written, if no state differs.
LEMMA NextRepeats ==
  ASSUME Sound, Snapshots, Decided, [Next]_vars,
         decision.verdict # "none", decision'.states = decision.states
  PROVE  decision' = decision
<1>t. /\ decision \in [states: [Stages -> StateFile], evidence: [Stages -> SUBSET Row],
                       verdict: VERDICTS \cup {"none"}]
      /\ \A p \in Procs : seen[p] \in [Stages -> SUBSET Row]
  BY DEF Sound, Safe, Typed, TypeOK
<1>1. ASSUME NEW p \in Procs, WriteDecision(p)
      PROVE  decision' = decision
  <2>1. /\ decision' = [states |-> snap[p], evidence |-> seen[p],
                        verdict |-> VerdictGiven(snap[p], seen[p], cost_due)]
        /\ \A s \in Stages : seen[p][s] = What(snap[p][s], s)
    BY <1>1, Snapshot
  <2>2. snap[p] = decision.states
    BY <2>1
  <2>3. \A s \in Stages : seen[p][s] = decision.evidence[s]
    BY <2>1, <2>2 DEF Decided
  <2>4. seen[p] = decision.evidence
    BY <1>t, <2>3
  <2>5. decision.verdict = VerdictGiven(decision.states, decision.evidence, cost_due)
    BY DEF Decided
  <2>6. decision = [states |-> decision.states, evidence |-> decision.evidence,
                    verdict |-> decision.verdict]
    BY <1>t
  <2> QED
    BY <2>1, <2>2, <2>4, <2>5, <2>6
<1>2. CASE UNCHANGED vars
  BY <1>2
<1>3. CASE Next
  <2>1. PICK p \in Procs : Acts(p)
    BY <1>3 DEF Next, Acts
  <2>2. Traced(p)
    BY <2>1, AllTraced DEF Sound
  <2> QED
    BY <1>1, <2>2 DEF Traced
<1> QED
  BY <1>2, <1>3

-----------------------------------------------------------------------------
(* What stands in the evidence *)

\* A stored record is a record, with its attempt.
LEMMA ContentTag ==
  ASSUME NEW g \in SUBSET Record, NEW n
  PROVE  Content({Tag(r, n) : r \in g}) = g
<1>1. \A r \in Record : record(Tag(r, n).id, Tag(r, n).kind, Tag(r, n).result, Tag(r, n).subject) = r
  BY DEF Record, record, Tag
<1> QED
  BY <1>1 DEF Content

\* The records of a body and of a crash are proper when they are stored.
LEMMA ProperTag ==
  ASSUME NEW s \in Stages
  PROVE  /\ \A g \in Grades[s] : \A r \in g : \A n : Proper(s, Tag(r, n))
         /\ \A n : Proper(s, Tag(Crash(s), n))
<1>1. ASSUME NEW g \in Grades[s], NEW r \in g, NEW n
      PROVE  Proper(s, Tag(r, n))
  <2>1. r \in Record
    BY GradesAssumption
  <2>2. record(Tag(r, n).id, Tag(r, n).kind, Tag(r, n).result, Tag(r, n).subject) = r
    BY <2>1 DEF Record, record, Tag
  <2>3. r \in UNION Grades[s]
    OBVIOUS
  <2> QED
    BY <2>2, <2>3, GradesAssumption, SameBuildAssumption DEF Proper, Tag
<1>2. \A n : Proper(s, Tag(Crash(s), n))
  BY DEF Proper, Tag, Crash, record, IsCrash
<1> QED
  BY <1>1, <1>2

\* Evidence is written by Save only, in the middle of an attempt.
LEMMA Saves ==
  ASSUME Typed, NEW p \in Procs, Acts(p)
  PROVE  UNCHANGED evidence \/ (pc'[p] \in Admitted /\ \E rows : Save(p, rows))
<1>t. pc \in [Procs -> Labels]
  BY DEF Typed, TypeOK
<1>1. CASE Start(p) \/ Kill(p)
  BY <1>1 DEF Start, Kill
<1>2. CASE \/ CheckSessionDirectory(p) \/ MakeDirectory(p) \/ LockLifecycle(p) \/ LockStage(p)
           \/ EndUnstarted(p) \/ EnvironmentRefuses(p) \/ Skip(p) \/ Admit(p)
           \/ ArchiveProfile(p) \/ WriteRun(p) \/ PrepareRefuses(p) \/ Prepare(p)
           \/ WriteRunning(p) \/ BodyNoisy(p) \/ WriteFinal(p)
  BY <1>2 DEF CheckSessionDirectory, MakeDirectory, LockLifecycle, LockStage, EndUnstarted,
     EnvironmentRefuses, Skip, Admit, ArchiveProfile, WriteRun, PrepareRefuses, Prepare,
     WriteRunning, BodyNoisy, WriteFinal
<1>3. CASE \/ OpenEvidence(p) \/ BodyBegin(p) \/ BodyRecord(p) \/ BodyDone(p) \/ BodyFails(p)
           \/ CommitEvidence(p)
  <2>1. \E rows : Save(p, rows)
    BY <1>3 DEF OpenEvidence, BodyBegin, BodyRecord, BodyDone, BodyFails, CommitEvidence
  <2>2. pc'[p] \in Admitted
    BY <1>t, <1>3 DEF OpenEvidence, BodyBegin, BodyRecord, BodyDone, BodyFails, CommitEvidence,
       Goto, Admitted, AttemptLabels
  <2> QED
    BY <2>1, <2>2
<1>4. CASE DecideStep(p)
  BY <1>4 DEF DecideStep, DecideShared, DecideLock, ReadState, ReadEvidence, Rehash, RehashDiffers,
     WriteDecision, AfterDecide
<1>5. CASE CleanStep(p) \/ AmendStep(p)
  BY <1>5 DEF CleanStep, AmendStep, CleanLock, CleanRefused, CleanPlan, CleanDelete, CleanDone,
     AmendLock, Amend, LockExclusive
<1> QED
  BY <1>1, <1>2, <1>3, <1>4, <1>5 DEF Acts, Step, StageStep

\* The records in the memory of an attempt stay proper.
LEMMA RecordsProper ==
  ASSUME Sound, Graded, NEW p \in Procs, Acts(p), pc'[p] \in Admitted
  PROVE  cmd'[p] = cmd[p] /\ cmd[p] \in Stages /\ \A r \in records'[p] : Proper(cmd[p], r)
<1>t. /\ records \in [Procs -> SUBSET Row] /\ evidence \in [Stages -> SUBSET Row]
      /\ \A q \in Procs : pc[q] \in Admitted \cup {"check"} => cmd[q] \in Stages
  BY DEF Sound, Safe, Typed, TypeOK, Control, Admitted, AttemptLabels, StageLabels
<1>a. Arrivals(p)
  BY Traces DEF Sound, Safe
<1>1. cmd'[p] = cmd[p]
  BY <1>a DEF Arrivals
<1>2. CASE Admit(p)
  <2>1. cmd[p] \in Stages /\ records'[p] \subseteq evidence[cmd[p]]
    BY <1>t, <1>2 DEF Admit
  <2> QED
    BY <1>1, <2>1 DEF Graded
<1>3. ASSUME pc[p] \in Admitted
      PROVE  cmd[p] \in Stages /\ \A r \in records[p] : Proper(cmd[p], r)
  BY <1>t, <1>3 DEF Graded
<1>4. CASE \/ ArchiveProfile(p) \/ WriteRun(p) \/ Prepare(p) \/ WriteRunning(p) \/ BodyNoisy(p)
           \/ OpenEvidence(p) \/ CommitEvidence(p) \/ BodyBegin(p)
  <2>1. pc[p] \in Admitted /\ records'[p] \subseteq records[p]
    BY <1>t, <1>4 DEF ArchiveProfile, WriteRun, Prepare, WriteRunning, BodyNoisy, OpenEvidence,
       CommitEvidence, BodyBegin, Save, Admitted, AttemptLabels
  <2> QED
    BY <1>1, <1>3, <2>1
<1>5. CASE BodyRecord(p) \/ BodyDone(p) \/ BodyFails(p)
  <2>0. pc[p] \in Admitted
    BY <1>5 DEF BodyRecord, BodyDone, BodyFails, Admitted, AttemptLabels
  <2> DEFINE Added(new) == /\ records'[p] = Put(records[p], new)
                           /\ \A r \in new : Proper(cmd[p], r)
  <2>1. CASE BodyRecord(p)
    <3>1. PICK g \in Grades[cmd[p]] : \E r \in g : records'[p] = Put(records[p], {Tag(r, Attempt(p))})
      BY <1>t, <2>1 DEF BodyRecord, Save
    <3>2. PICK r \in g : records'[p] = Put(records[p], {Tag(r, Attempt(p))})
      BY <3>1
    <3>3. Added({Tag(r, Attempt(p))})
      BY <1>3, <2>0, <3>2, ProperTag
    <3> QED
      BY <1>1, <1>3, <2>0, <3>3 DEF Put
  <2>2. CASE BodyDone(p)
    <3>1. PICK g \in Grades[cmd[p]] : records'[p] = Put(records[p], Tagged(p, g))
      BY <1>t, <2>2 DEF BodyDone, Save
    <3>2. Added(Tagged(p, g))
      BY <1>3, <2>0, <3>1, ProperTag DEF Tagged
    <3> QED
      BY <1>1, <1>3, <2>0, <3>2 DEF Put
  <2>3. CASE BodyFails(p)
    <3>1. records'[p] = Put(records[p], {Tag(Crash(cmd[p]), Attempt(p))})
      BY <1>t, <2>3 DEF BodyFails, Save
    <3>2. Added({Tag(Crash(cmd[p]), Attempt(p))})
      BY <1>3, <2>0, <3>1, ProperTag
    <3> QED
      BY <1>1, <1>3, <2>0, <3>2 DEF Put
  <2> QED
    BY <1>5, <2>1, <2>2, <2>3
<1> QED
  BY <1>a, <1>2, <1>4, <1>5 DEF Arrivals, Admitted, AttemptLabels

\* Every step keeps all records proper and the gate true.
LEMMA NextGraded ==
  ASSUME Sound, Graded, [Next]_vars
  PROVE  Graded'
<1>t. /\ records \in [Procs -> SUBSET Row] /\ evidence \in [Stages -> SUBSET Row]
      /\ state \in [Stages -> StateFile] /\ Typed
      /\ \A q \in Procs : pc[q] \in Admitted \cup {"check"} => cmd[q] \in Stages
  BY DEF Sound, Safe, Typed, TypeOK, Control, Admitted, AttemptLabels, StageLabels
<1>f. \A n \in Stages : state[n].status \in FINAL =>
         state'[n] = state[n] /\ evidence'[n] = evidence[n]
  BY NextFinal DEF Sound
<1>g. \A s \in Stages : \A r \in evidence[s] : Proper(s, r)
  BY DEF Graded
<1>q. state["quality"].status = "complete" =>
         state["quality"].gate = gate(SameBuild, Committed("compile") \cup evidence["quality"],
                                      RequiredQuality, ImprovementIds)
  BY DEF Graded
<1>c. state["quality"].status # "none" => state["compile"].status \in FINAL
  <2>1. "compile" \in PREREQUISITES("quality")
    BY DEF PREREQUISITES, Needs, Stages
  <2> QED
    BY <2>1 DEF Sound, Ordered, InOrder, Stages
<1>1. CASE UNCHANGED vars
  <2>1. Committed("compile")' = Committed("compile")
    BY <1>1 DEF Committed
  <2> QED
    BY <1>1, <1>g, <1>q, <2>1 DEF Graded
<1>2. CASE Next
  <2>1. PICK p \in Procs : Acts(p)
    BY <1>2 DEF Next, Acts
  <2>2. Footprint(p) /\ Arrivals(p)
    BY <2>1, Traces DEF Sound, Safe
  <2>3. ASSUME NEW s \in Stages
        PROVE  \A r \in evidence'[s] : Proper(s, r)
    <3>1. CASE evidence'[s] = evidence[s]
      BY <1>g, <3>1
    <3>2. CASE evidence'[s] # evidence[s]
      <4>1. s = cmd[p] /\ pc'[p] \in Admitted
        BY <1>t, <2>1, <2>2, <3>2, Saves DEF Footprint
      <4>2. PICK rows : Save(p, rows)
        BY <1>t, <2>1, <3>2, Saves
      <4>3. evidence'[s] = records'[p]
        BY <1>t, <4>1, <4>2 DEF Save
      <4> QED
        BY <2>1, <4>1, <4>3, RecordsProper
    <3> QED
      BY <3>1, <3>2
  <2>4. ASSUME NEW q \in Procs, pc'[q] \in Admitted
        PROVE  \A r \in records'[q] : Proper(cmd'[q], r)
    <3>1. CASE q = p
      BY <2>1, <2>4, <3>1, RecordsProper
    <3>2. CASE q # p
      BY <2>2, <2>4, <3>2 DEF Footprint, Graded
    <3> QED
      BY <3>1, <3>2
  <2>5. ASSUME state'["quality"].status = "complete"
        PROVE  state'["quality"].gate =
                  gate(SameBuild, Committed("compile")' \cup evidence'["quality"],
                       RequiredQuality, ImprovementIds)
    <3>1. CASE state'["quality"] = state["quality"]
      <4>1. /\ state'["compile"] = state["compile"] /\ evidence'["compile"] = evidence["compile"]
            /\ evidence'["quality"] = evidence["quality"]
        BY <1>c, <1>f, <2>5, <3>1 DEF Stages, FINAL
      <4>2. Committed("compile")' = Committed("compile")
        BY <4>1 DEF Committed
      <4> QED
        BY <1>q, <2>5, <3>1, <4>1, <4>2
    <3>2. CASE state'["quality"] # state["quality"]
      <4>1. cmd[p] = "quality" /\ (Skip(p) \/ WriteRunning(p) \/ WriteFinal(p))
        BY <2>2, <3>2 DEF Footprint, Stages
      <4>2. WriteFinal(p) /\ pc[p] = "final"
        BY <1>t, <2>5, <4>1 DEF Skip, WriteRunning, WriteFinal, Stages
      <4>3. fate[p] = "complete" /\ UNCHANGED evidence
        BY <1>t, <2>5, <4>1, <4>2 DEF WriteFinal, StateFile, Stages
      <4>4. evidence["quality"] = records[p]
        BY <4>1, <4>2 DEF Sound, Whole
      <4>5. state'["quality"].gate =
               gate(SameBuild, Committed("compile") \cup records[p], RequiredQuality, ImprovementIds)
        BY <1>t, <4>1, <4>2, <4>3 DEF WriteFinal, StateFile, Stages
      <4>6. state'["compile"] = state["compile"]
        BY <2>2, <4>1 DEF Footprint, Stages
      <4>7. Committed("compile")' = Committed("compile")
        BY <4>3, <4>6 DEF Committed
      <4> QED
        BY <4>3, <4>4, <4>5, <4>7
    <3> QED
      BY <3>1, <3>2
  <2> QED
    BY <2>3, <2>4, <2>5 DEF Graded
<1> QED
  BY <1>1, <1>2

-----------------------------------------------------------------------------
(* What a PASS and identical builds mean *)

\* A verdict of PASS leaves no failed record, and one that passed for every required id.
LEMMA PassMeans ==
  ASSUME NEW recs, NEW required, verdict(recs, required) = "PASS",
         \A r \in recs : r.subject \in Subjects
  PROVE  (\A r \in recs : r.result # "failed") /\ AllPassed(recs, required)
<1>1. \A r \in Failed(recs) : r \in recs /\ r.result = "failed"
  BY DEF Failed
<1>2. ~\E r \in Failed(recs) : r.subject = "evolved" /\ r.kind # "improvement"
  BY DEF verdict
<1>3. ~\E r \in Failed(recs) : r.subject = "reference"
  BY DEF verdict
<1>4. ~\E r \in Failed(recs) : r.kind = "improvement"
  BY DEF verdict
<1>5. Failed(recs) = {}
  BY <1>1, <1>2, <1>3, <1>4 DEF Subjects
<1> QED
  BY <1>5 DEF verdict, Failed

\* The evidence a decision holds is proper too.
LEMMA DecidedProper ==
  ASSUME Sound, Decided, Graded, decision.verdict # "none", NEW s \in Stages
  PROVE  \A r \in decision.evidence[s] : Proper(s, r) /\ r.subject \in Subjects
<1>1. decision.evidence[s] = What(decision.states[s], s)
  BY DEF Decided
<1>2. evidence[s] \subseteq Row /\ decision.states[s].attempts \in Nat
  BY DEF Sound, Safe, Typed, TypeOK, StateFile
<1>3. \A n : Tag(Crash(s), n).subject \in Subjects
  BY DEF Tag, Crash, record, Subjects
<1>4. CASE decision.states[s].status = "complete"
  BY <1>1, <1>2, <1>4 DEF What, Graded, Row
<1>5. CASE decision.states[s].status # "complete"
  BY <1>1, <1>3, <1>5, ProperTag DEF What
<1> QED
  BY <1>4, <1>5

\* The records a decision of PASS rests on: none failed, and every required one is there in
\* the evidence of the stage that writes it, which is complete.
LEMMA PassRests ==
  ASSUME Sound, Decided, Graded, decision.verdict = "PASS"
  PROVE  /\ \A s \in Stages : \A r \in decision.evidence[s] : r.result # "failed"
         /\ PendingGiven(decision.states, cost_due) = {}
         /\ \A i \in IdsGiven(decision.states) :
               \E s \in Stages : \E r \in decision.evidence[s] :
                  r.id = i /\ r.result \in {"passed", "passed_on_rerun"}
<1> DEFINE rows == decision.evidence
           all == UNION {rows[s] : s \in Stages}
<1>1. decision.verdict = VerdictGiven(decision.states, rows, cost_due)
  BY DEF Decided
<1>2. /\ verdict(Considered(rows), IdsGiven(decision.states)) = "PASS"
      /\ PendingGiven(decision.states, cost_due) = {}
  BY <1>1 DEF VerdictGiven
<1>3. \A s \in Stages : \A r \in rows[s] : Proper(s, r) /\ r.subject \in Subjects
  BY DecidedProper
<1>4. Considered(rows) \subseteq all
  BY DEF Considered
<1>5. \A r \in Considered(rows) : r.subject \in Subjects
  BY <1>3, <1>4
<1>6. /\ \A r \in Considered(rows) : r.result # "failed"
      /\ AllPassed(Considered(rows), IdsGiven(decision.states))
  BY <1>2, <1>5, PassMeans
<1>7. Considered(rows) = all
  <2>1. \A r \in all : r.id = <<"correctness", "preflight">> => r.id[1] \in {"compile", "correctness"}
    OBVIOUS
  <2>2. ~\E r \in all : r.id = <<"correctness", "preflight">> /\ r.result = "failed"
    BY <1>6, <2>1 DEF Considered
  <2> QED
    BY <2>2 DEF Considered
<1>8. \A s \in Stages : \A r \in rows[s] : r.result # "failed"
  BY <1>6, <1>7
<1>9. ASSUME NEW i \in IdsGiven(decision.states)
      PROVE  \E s \in Stages : \E r \in rows[s] :
                r.id = i /\ r.result \in {"passed", "passed_on_rerun"}
  BY <1>6, <1>7, <1>9 DEF AllPassed
<1> QED
  BY <1>2, <1>8, <1>9

\* So each of the stages that have a required record is complete, and still is.
LEMMA PassComplete ==
  ASSUME Sound, Decided, Graded, decision.verdict = "PASS", NEW i \in IdsGiven(decision.states)
  PROVE  /\ i[1] \in Stages /\ state[i[1]] = decision.states[i[1]] /\ state[i[1]].status = "complete"
         /\ \E r \in evidence[i[1]] : r.id = i /\ r.result \in {"passed", "passed_on_rerun"}
<1>1. PICK s \in Stages : \E r \in decision.evidence[s] :
               r.id = i /\ r.result \in {"passed", "passed_on_rerun"}
  BY PassRests
<1>2. PICK r \in decision.evidence[s] : r.id = i /\ r.result \in {"passed", "passed_on_rerun"}
  BY <1>1
<1>3. i[1] = s
  BY <1>2, DecidedProper DEF Proper
<1>4. decision.evidence[s] = What(decision.states[s], s)
  BY DEF Decided
<1>5. decision.states[s].status # "failed"
  <2>1. Tag(Crash(s), decision.states[s].attempts).result = "failed"
    BY DEF Tag, Crash, record
  <2> QED
    BY <1>4, <2>1, PassRests DEF What
<1>6. decision.states[s].status = "complete" /\ decision.evidence[s] = evidence[s]
  BY <1>2, <1>4, <1>5 DEF What
<1>7. decision.states[s] = state[s]
  BY <1>6 DEF Decided, ReadBefore, FINAL
<1> QED
  BY <1>2, <1>3, <1>6, <1>7

\* Identical builds do not pass.
LEMMA SameNeverPasses ==
  ASSUME Sound, Decided, Graded, decision.verdict = "PASS"
  PROVE  ~SameBuild
<1>1. <<"quality", "improvement">> \in IdsGiven(decision.states)
  BY DEF IdsGiven, RequiredQuality
<1>2. PICK r \in evidence["quality"] :
         r.id = <<"quality", "improvement">> /\ r.result \in {"passed", "passed_on_rerun"}
  BY <1>1, PassComplete
<1>3. Proper("quality", r)
  BY DEF Graded, Stages
<1> QED
  BY <1>2, <1>3 DEF Proper

\* A PASS is earned.
LEMMA Earned ==
  ASSUME Sound, Decided, Graded
  PROVE  PassIsEarned
<1> SUFFICES ASSUME decision.verdict = "PASS"
             PROVE  /\ \A s \in Stages \ {"unit-tests"} : state[s].status = "complete"
                    /\ state["quality"].gate = "improved"
                    /\ \A s \in Stages : \A r \in decision.evidence[s] : r.result # "failed"
                    /\ decision.states["unit-tests"].status \notin {"running", "failed"}
  BY DEF PassIsEarned
<1>1. ASSUME NEW s \in Stages \ {"unit-tests"}
      PROVE  state[s].status = "complete"
  <2>1. \E i \in IdsGiven(decision.states) : i[1] = s
    <3>1. /\ <<"compile", "roundtrip">> \in IdsGiven(decision.states)
          /\ <<"quality", "audit">> \in IdsGiven(decision.states)
          /\ <<"correctness", "suite">> \in IdsGiven(decision.states)
          /\ <<"cost", "panel">> \in IdsGiven(decision.states)
      BY DEF IdsGiven, RequiredQuality
    <3>2. /\ <<"compile", "roundtrip">>[1] = "compile" /\ <<"quality", "audit">>[1] = "quality"
          /\ <<"correctness", "suite">>[1] = "correctness" /\ <<"cost", "panel">>[1] = "cost"
      OBVIOUS
    <3>3. s \in {"compile", "quality", "correctness", "cost"}
      BY DEF Stages
    <3> QED
      BY <3>1, <3>2, <3>3
  <2> QED
    BY <2>1, PassComplete
<1>2. state["quality"].gate = "improved"
  <2>1. state["quality"].status = "complete" /\ state["cost"].status = "complete"
    BY <1>1 DEF Stages
  <2>2. ~skip_reason("cost")
    BY <2>1 DEF Sound, Ordered, InOrder, Stages, GATED
  <2>3. state["quality"].gate # "closed"
    BY <2>1, <2>2 DEF skip_reason, GATED
  <2>4. ~SameBuild
    BY SameNeverPasses
  <2> QED
    BY <2>1, <2>3, <2>4 DEF Graded, gate
<1>3. decision.states["unit-tests"].status # "running"
  <2>1. ASSUME decision.states["unit-tests"].status = "running"
        PROVE  "unit-tests" \in PendingGiven(decision.states, cost_due)
    BY <2>1 DEF PendingGiven, RequiredGiven, FINAL
  <2> QED
    BY <2>1, PassRests
<1>4. decision.states["unit-tests"].status # "failed"
  <2>1. ASSUME decision.states["unit-tests"].status = "failed"
        PROVE  \E r \in decision.evidence["unit-tests"] : r.result = "failed"
    <3>1. decision.evidence["unit-tests"] = What(decision.states["unit-tests"], "unit-tests")
      BY DEF Decided, Stages
    <3>2. \A n : Tag(Crash("unit-tests"), n).result = "failed"
      BY DEF Tag, Crash, record
    <3> QED
      BY <2>1, <3>1, <3>2 DEF What
  <2> QED
    BY <2>1, PassRests DEF Stages
<1> QED
  BY <1>1, <1>2, <1>3, <1>4, PassRests

\* Identical builds are measured unless something is wrong with them.
LEMMA Identical ==
  ASSUME Sound, Decided, Graded
  PROVE  IdenticalBuilds
<1> SUFFICES ASSUME SameBuild, state["cost"].status = "skipped"
             PROVE  \E s \in {"compile", "quality", "correctness"} : \E r \in evidence[s] :
                       r.kind # "improvement" /\ r.result # "passed"
  BY SameNeverPasses DEF IdenticalBuilds
<1>1. skip_reason("cost") /\ state["quality"].status = "complete"
  BY DEF Sound, Ordered, InOrder, Stages, GATED
<1>2. \A s \in Stages : Committed(s) \subseteq evidence[s]
  BY DEF Committed, committed_evidence
<1>3. CASE state["quality"].gate = "closed"
  <2> DEFINE records0 == Committed("compile") \cup evidence["quality"]
  <2>1. Blocking(records0, RequiredQuality, ImprovementIds)
    BY <1>1, <1>3 DEF Graded, gate
  <2>2. state["compile"].status = "complete"
    <3>1. "compile" \in PREREQUISITES("quality")
      BY DEF PREREQUISITES, Needs, Stages
    <3> QED
      BY <1>1, <3>1 DEF Sound, Ordered, InOrder, Stages, GATED, FINAL
  <2>3. Committed("compile") = evidence["compile"]
    BY <2>2 DEF Committed, committed_evidence
  <2>4. <<"compile", "roundtrip">> \in IdsOf(evidence["compile"])
    <3>1. PICK g \in Grades["compile"] :
             {Tag(r, state["compile"].attempts) : r \in g} \subseteq evidence["compile"]
      BY <2>2 DEF Sound, Whole, CommittedIsWhole, Stages
    <3>2. PICK r \in g : r.id = <<"compile", "roundtrip">>
      BY GradesAssumption DEF IdsOf
    <3>3. Tag(r, state["compile"].attempts) \in evidence["compile"]
      BY <3>1
    <3>4. Tag(r, state["compile"].attempts).id = r.id
      BY DEF Tag
    <3> QED
      BY <3>2, <3>3, <3>4 DEF IdsOf
  <2>5. {<<"quality", "audit">>, <<"quality", "guards">>} \subseteq IdsOf(evidence["quality"])
    <3>1. PICK g \in Grades["quality"] :
             {Tag(r, state["quality"].attempts) : r \in g} \subseteq evidence["quality"]
      BY <1>1 DEF Sound, Whole, CommittedIsWhole, Stages
    <3>2. \A r \in g : Tag(r, state["quality"].attempts).id = r.id
      BY DEF Tag
    <3>3. {<<"quality", "audit">>, <<"quality", "guards">>} \subseteq IdsOf(g)
      BY GradesAssumption
    <3>4. IdsOf(g) \subseteq IdsOf(evidence["quality"])
      <4> SUFFICES ASSUME NEW r \in g PROVE r.id \in IdsOf(evidence["quality"])
        BY DEF IdsOf
      <4>1. Tag(r, state["quality"].attempts) \in evidence["quality"]
        BY <3>1
      <4> QED
        BY <3>2, <4>1 DEF IdsOf
    <3> QED
      BY <3>3, <3>4
  <2>6. RequiredQuality \ ImprovementIds \subseteq IdsOf(records0)
    BY <2>3, <2>4, <2>5 DEF RequiredQuality, ImprovementIds, IdsOf
  <2>7. <<"compile", "roundtrip">> \in RequiredQuality
    BY DEF RequiredQuality
  <2>8. \E r \in records0 : r.kind # "improvement" /\ r.result # "passed"
    BY <2>1, <2>6, <2>7 DEF Blocking
  <2> QED
    BY <2>3, <2>8
<1>4. CASE state["quality"].gate # "closed"
  <2>1. cost_due = "no"
    BY <1>1, <1>4 DEF skip_reason
  <2>2. \E r \in UNION {Committed(s) : s \in {"compile", "quality", "correctness"}} :
           r.result = "failed" /\ r.kind # "improvement"
    BY <2>1 DEF cost_due, cost_stage_due
  <2> QED
    BY <1>2, <2>2 DEF Stages
<1> QED
  BY <1>3, <1>4

-----------------------------------------------------------------------------
(* The theorems *)

Judged == Sound /\ Snapshots /\ Decided /\ Graded

\* The empty directory satisfies the whole invariant.
LEMMA InitJudged == Init => Judged
<1> SUFFICES ASSUME Init PROVE Judged
  OBVIOUS
<1>1. Sound
  BY InitSound
<1>2. Snapshots
  BY DEF Init, Snapshots, Reads, StatesRead, EvidenceRead, Rehashed
<1>3. Decided
  BY DEF Init, Decided
<1>4. Graded
  BY DEF Init, Graded, NoEvidence, NoSnap, NotStarted, Admitted, AttemptLabels, Stages
<1> QED
  BY <1>1, <1>2, <1>3, <1>4 DEF Judged

\* Every step keeps it.
LEMMA NextJudged == Judged /\ [Next]_vars => Judged'
  BY NextSound, NextSnapshots, NextDecided, NextGraded DEF Judged

\* decide reads the stages one file at a time while they run, and still judges one instant of
\* the session, with the evidence that exactly its states commit.
THEOREM DecisionsAreSnapshots == Spec => []DecisionIsASnapshot
<1>1. Judged => DecisionIsASnapshot
  BY DEF Judged, Decided, Supports, What, DecisionIsASnapshot, SnapshotEvidence, PREREQUISITES
<1> QED
  BY InitJudged, NextJudged, <1>1, PTL DEF Spec

\* Deciding again without a change of the stages, also during and after a cleanup, gives the
\* same decision.
THEOREM DecisionsRepeat == Spec => VerdictRepeats
<1>1. Judged /\ [Next]_vars =>
         [decision.verdict # "none" /\ decision'.states = decision.states
             => decision' = decision]_vars
  BY NextRepeats DEF Judged
<1> QED
  BY InitJudged, NextJudged, <1>1, PTL DEF Spec, VerdictRepeats

\* A PASS means that compile, quality, correctness and cost are complete, that the gate opened
\* because of an improvement, and that no stage committed a failed or a crash record to it.
THEOREM PassesAreEarned == Spec => []PassIsEarned
<1>1. Judged => PassIsEarned
  BY Earned DEF Judged
<1> QED
  BY InitJudged, NextJudged, <1>1, PTL DEF Spec

\* An A/A session never passes, and its cost stage is skipped only after something other than
\* the improvement went wrong.
THEOREM IdenticalBuildsAreMeasured == Spec => []IdenticalBuilds
<1>1. Judged => IdenticalBuilds
  BY Identical DEF Judged
<1> QED
  BY InitJudged, NextJudged, <1>1, PTL DEF Spec

-----------------------------------------------------------------------------
(* The stages keep their contract *)

\* The contract speaks of stages, records and judgements in the same words.
LEMMA SameWords ==
  /\ Contract!Stages = Stages /\ Contract!GATED = GATED /\ Contract!FINAL = FINAL
  /\ Contract!Resets = Resets
  /\ \A s : /\ Contract!PREREQUISITES(s) = PREREQUISITES(s)
            /\ Contract!Crash(s) = Crash(s)
  /\ \A rows : Contract!IdsOf(rows) = IdsOf(rows)
  /\ \A b, rows : /\ Contract!gate(b, rows, Contract!RequiredQuality, Contract!ImprovementIds)
                        = gate(b, rows, RequiredQuality, ImprovementIds)
                  /\ Contract!cost_stage_due(b, rows) = cost_stage_due(b, rows)
<1>1. Contract!Stages = Stages /\ Contract!GATED = GATED /\ Contract!FINAL = FINAL
      /\ Contract!Resets = Resets
  BY DEF Contract!Stages, Stages, Contract!GATED, GATED, Contract!FINAL, FINAL, Contract!Resets, Resets
<1>2. \A s : Contract!PREREQUISITES(s) = PREREQUISITES(s)
  BY <1>1 DEF Contract!PREREQUISITES, PREREQUISITES, Contract!Needs, Needs
<1>3. \A s : Contract!Crash(s) = Crash(s)
  BY DEF Contract!Crash, Contract!record, Crash, record
<1>4. \A rows : Contract!IdsOf(rows) = IdsOf(rows)
  BY DEF Contract!IdsOf, IdsOf
<1>5. /\ Contract!RequiredQuality = RequiredQuality
      /\ Contract!ImprovementIds = ImprovementIds
  BY DEF Contract!RequiredQuality, RequiredQuality, Contract!ImprovementIds, ImprovementIds
<1>6. \A b, rows, q, i : Contract!gate(b, rows, q, i) = gate(b, rows, q, i)
  BY <1>4 DEF Contract!gate, gate, Contract!Blocking, Blocking, Contract!AllImproved, AllImproved
<1>7. \A b, rows : Contract!cost_stage_due(b, rows) = cost_stage_due(b, rows)
  BY DEF Contract!cost_stage_due, cost_stage_due
<1> QED
  BY <1>1, <1>2, <1>3, <1>4, <1>5, <1>6, <1>7

\* The gate and the cost decision look at what records say, not at the attempt that wrote them.
LEMMA ContentJudged ==
  ASSUME NEW b \in BOOLEAN, NEW rows, NEW required, NEW improvements
  PROVE  /\ gate(b, Content(rows), required, improvements) = gate(b, rows, required, improvements)
         /\ cost_stage_due(b, Content(rows)) = cost_stage_due(b, rows)
<1>1. /\ \A r \in rows : \E c \in Content(rows) :
            c.id = r.id /\ c.kind = r.kind /\ c.result = r.result /\ c.subject = r.subject
      /\ \A c \in Content(rows) : \E r \in rows :
            c.id = r.id /\ c.kind = r.kind /\ c.result = r.result /\ c.subject = r.subject
  <2>1. \A r \in rows : record(r.id, r.kind, r.result, r.subject) \in Content(rows)
    BY DEF Content
  <2>2. \A c \in Content(rows) : \E r \in rows : c = record(r.id, r.kind, r.result, r.subject)
    BY DEF Content
  <2>3. \A i, k, v, u : LET c == record(i, k, v, u)
                       IN  c.id = i /\ c.kind = k /\ c.result = v /\ c.subject = u
    BY DEF record
  <2> QED
    BY <2>1, <2>2, <2>3
<1>2. IdsOf(Content(rows)) = IdsOf(rows)
  BY <1>1 DEF IdsOf
<1> DEFINE C == Content(rows)
<1> HIDE DEF C
<1>3. Blocking(C, required, improvements) <=> Blocking(rows, required, improvements)
  BY <1>1, <1>2 DEF Blocking, C
<1>4. AllImproved(C, improvements) <=> AllImproved(rows, improvements)
  BY <1>1 DEF AllImproved, C
<1>5. gate(b, C, required, improvements) = gate(b, rows, required, improvements)
  BY <1>3, <1>4 DEF gate
<1>6. /\ {r \in C : r.result = "failed"} = {} <=> {r \in rows : r.result = "failed"} = {}
      /\ (\E r \in C : r.kind = "improvement" /\ r.result = "passed")
            <=> \E r \in rows : r.kind = "improvement" /\ r.result = "passed"
      /\ (\A r \in {x \in C : x.result = "failed"} : r.kind = "improvement")
            <=> \A r \in {x \in rows : x.result = "failed"} : r.kind = "improvement"
  BY <1>1 DEF C
<1>7. cost_stage_due(b, C) = cost_stage_due(b, rows)
  BY <1>6 DEF cost_stage_due
<1> QED
  BY <1>5, <1>7 DEF C

\* The view of a stage: open until it has an end, and then with what it committed.
LEMMA OutcomeIs ==
  ASSUME Sound, NEW s \in Stages
  PROVE  /\ Outcome(s) = IF state[s].status \in {"none", "running", "noisy"} THEN Contract!Open
                         ELSE [end |-> state[s].status, records |-> Content(What(state[s], s))]
         /\ Outcome(s).end \in FINAL <=> state[s].status \in FINAL
         /\ Outcome(s).records = Content(Committed(s))
         /\ Outcome(s).end = "failed" <=> state[s].status = "failed"
         /\ Outcome(s).end = "complete" <=> state[s].status = "complete"
<1>1. Committed(s) = What(state[s], s)
  BY CommittedWhat DEF Committed
<1>2. state[s].status \in {"none", "running", "noisy"} => Content(What(state[s], s)) = {}
  BY DEF What, Content
<1> QED
  BY <1>1, <1>2 DEF Outcome, Contract!Open, FINAL

\* The contract skips what the code skips.
LEMMA SkippedIs ==
  ASSUME Judged, NEW s \in Stages, \A n \in PREREQUISITES(s) : state[n].status \in FINAL
  PROVE  Contract!Skipped(s) <=> skip_reason(s)
<1> DEFINE view == [t \in Stages |-> Outcome(t)]
<1>1. Sound /\ Ordered
  BY DEF Judged, Sound
<1>2. \A t \in Stages : view[t].records = Content(Committed(t))
  BY <1>1, OutcomeIs
<1>3. CASE s \notin GATED
  BY <1>3, SameWords DEF Contract!Skipped, skip_reason
<1>4. CASE s \in GATED
  <2>1. /\ state["quality"].status = "complete"
        /\ {"compile", "quality", "correctness"} \subseteq Stages
    BY <1>1, <1>4, Chain DEF Stages, GATED
  <2>2. Committed("quality") = evidence["quality"]
    BY <1>1, <2>1, CommittedWhat DEF Committed, What
  <2>3. Contract!Gate = state["quality"].gate
    <3>1. view["compile"].records \cup view["quality"].records
            = Content(Committed("compile") \cup evidence["quality"])
      BY <1>2, <2>1, <2>2 DEF Content
    <3>2. state["quality"].gate = gate(SameBuild, Committed("compile") \cup evidence["quality"],
                                       RequiredQuality, ImprovementIds)
      BY <2>1 DEF Judged, Graded
    <3>3. gate(SameBuild, Content(Committed("compile") \cup evidence["quality"]),
               RequiredQuality, ImprovementIds)
            = gate(SameBuild, Committed("compile") \cup evidence["quality"],
                   RequiredQuality, ImprovementIds)
      BY ContentJudged, SameBuildAssumption
    <3> HIDE DEF view
    <3>4. gate(SameBuild, view["compile"].records \cup view["quality"].records,
               RequiredQuality, ImprovementIds) = state["quality"].gate
      BY <3>1, <3>2, <3>3
    <3> QED
      BY <3>4, SameWords DEF Contract!Gate, view
  <2>4. Contract!CostDue = cost_due
    <3> DEFINE early == {"compile", "quality", "correctness"}
    <3>1. UNION {view[t].records : t \in early} = Content(UNION {Committed(t) : t \in early})
      <4>1. \A t \in early : view[t].records = Content(Committed(t))
        BY <1>2, <2>1
      <4> HIDE DEF view
      <4> QED
        BY <4>1 DEF Content
    <3>2. cost_stage_due(SameBuild, Content(UNION {Committed(t) : t \in early}))
            = cost_stage_due(SameBuild, UNION {Committed(t) : t \in early})
      BY ContentJudged, SameBuildAssumption
    <3> QED
      BY <3>1, <3>2, SameWords DEF Contract!CostDue, cost_due
  <2>5. view["correctness"].end = "complete" <=> state["correctness"].status = "complete"
    BY <1>1, <2>1, OutcomeIs
  <2> QED
    BY <1>4, <2>1, <2>3, <2>4, <2>5, SameWords DEF Contract!Skipped, skip_reason
<1> QED
  BY <1>3, <1>4

\* A stage whose state file is not written looks the same.
LEMMA OutcomeStays ==
  ASSUME Judged, NEW p \in Procs, Acts(p), NEW s \in Stages, state'[s] = state[s]
  PROVE  Outcome(s)' = Outcome(s)
<1>1. evidence'[s] = evidence[s] \/ state[s].status = "running"
  BY Traces DEF Judged, Sound, Safe, Footprint, Whole
<1>2. CASE evidence'[s] = evidence[s]
  BY <1>2 DEF Outcome, Committed
<1>3. CASE state[s].status = "running"
  <2>1. Committed(s) = {} /\ Committed(s)' = {}
    BY <1>3 DEF Committed, committed_evidence
  <2> QED
    BY <2>1 DEF Outcome, Content
<1> QED
  BY <1>1, <1>2, <1>3

\* What an attempt commits is one of its grades and records of other checks.
LEMMA CompleteIs ==
  ASSUME Judged, NEW s \in Stages, NEW n, Complete(s, n, evidence[s])
  PROVE  \E g \in Grades[s], kept \in SUBSET UNION Grades[s] :
            /\ \A r \in kept : r.id \notin IdsOf(g)
            /\ s \in Resets => kept = {}
            /\ Content(evidence[s]) = g \cup kept
<1>1. PICK g \in Grades[s] :
         /\ {Tag(r, n) : r \in g} \subseteq evidence[s]
         /\ \A r \in evidence[s] : r \in {Tag(x, n) : x \in g} \/ r.id \notin IdsOf(g)
         /\ s \in Resets => evidence[s] = {Tag(r, n) : r \in g}
  BY DEF Complete
<1> DEFINE new == {Tag(r, n) : r \in g}
           kept == Content(evidence[s] \ new)
<1>2. Content(new) = g
  BY GradesAssumption, ContentTag
<1>3. Content(evidence[s]) = g \cup kept
  <2>1. evidence[s] = new \cup (evidence[s] \ new)
    BY <1>1
  <2>2. \A A, B : Content(A \cup B) = Content(A) \cup Content(B)
    BY DEF Content
  <2> HIDE DEF new
  <2> QED
    BY <1>2, <2>1, <2>2
<1>4. ASSUME NEW r \in kept
      PROVE  r \in UNION Grades[s] /\ r.id \notin IdsOf(g)
  <2>1. PICK x \in evidence[s] \ new : r = record(x.id, x.kind, x.result, x.subject)
    BY DEF Content
  <2>2. ~IsCrash(x) /\ Proper(s, x)
    BY DEF Complete, NoCrash, Judged, Graded
  <2>3. r \in UNION Grades[s]
    BY <2>1, <2>2 DEF Proper
  <2>4. r.id = x.id /\ x.id \notin IdsOf(g)
    BY <1>1, <2>1 DEF record
  <2> QED
    BY <2>3, <2>4
<1>5. s \in Resets => kept = {}
  BY <1>1 DEF Content
<1>6. kept \in SUBSET UNION Grades[s] /\ \A r \in kept : r.id \notin IdsOf(g)
  BY <1>4
<1> HIDE DEF kept
<1> QED
  BY <1>3, <1>5, <1>6

\* Every step of a process is a step of the contract, or none.
LEMMA NextContract ==
  ASSUME Judged, [Next]_vars
  PROVE  [Contract!Next]_[s \in Stages |-> Outcome(s)]
<1> DEFINE view == [s \in Stages |-> Outcome(s)]
<1>t. /\ state \in [Stages -> StateFile] /\ evidence \in [Stages -> SUBSET Row]
      /\ \A q \in Procs : pc[q] \in Admitted \cup {"check"} => cmd[q] \in Stages
      /\ \A q \in Procs : pc[q] = "final" => fate[q] \in {"complete", "failed", "noisy"}
      /\ Sound /\ Ordered /\ Whole /\ Open /\ CommittedIsWhole
  BY DEF Judged, Sound, Safe, Typed, TypeOK, Control, Whole, Admitted, AttemptLabels, StageLabels
<1>1. CASE UNCHANGED vars
  <2>1. \A s \in Stages : Outcome(s)' = Outcome(s)
    BY <1>1 DEF Outcome, Committed
  <2> QED
    BY <2>1
<1>2. CASE Next
  <2>1. PICK p \in Procs : Acts(p)
    BY <1>2 DEF Next, Acts
  <2>2. \A s \in Stages : state'[s] = state[s] => Outcome(s)' = Outcome(s)
    BY <2>1, OutcomeStays
  <2>3. CASE \A s \in Stages : state'[s] = state[s]
    <3>1. \A s \in Stages : Outcome(s)' = Outcome(s)
      BY <2>2, <2>3
    <3> QED
      BY <3>1
  <2>4. CASE ~ \A s \in Stages : state'[s] = state[s]
    <3>1. PICK c \in Stages : c = cmd[p] /\ (Skip(p) \/ WriteRunning(p) \/ WriteFinal(p))
      BY <2>1, <2>4, Traces DEF Footprint, Judged, Sound, Safe
    <3> DEFINE end == Outcome(c)'
    <3>2. \A s \in Stages \ {c} : state'[s] = state[s]
      BY <2>1, <3>1, Traces DEF Footprint, Judged, Sound, Safe
    <3>3. view' = [view EXCEPT ![c] = end]
      BY <2>2, <3>1, <3>2
    <3>4. evidence'[c] = evidence[c]
      BY <3>1 DEF Skip, WriteRunning, WriteFinal
    <3>5. (\A n \in PREREQUISITES(c) : state[n].status \in FINAL) =>
              \A n \in Contract!PREREQUISITES(c) : view[n].end \in Contract!FINAL
      <4>1. \A n \in PREREQUISITES(c) : n \in Stages
        BY DEF PREREQUISITES
      <4> QED
        BY <1>t, <4>1, OutcomeIs, SameWords
    <3>6. CASE Skip(p)
      <4>1. /\ \A n \in PREREQUISITES(c) : state[n].status \in FINAL
            /\ skip_reason(c) /\ state[c].status \notin FINAL
            /\ state'[c].status = "skipped"
        BY <1>t, <3>1, <3>6 DEF Skip, Refused
      <4>2. state[c].status = "none"
        BY <1>t, <3>1, <4>1 DEF Ordered, InOrder, skip_reason, FINAL
      <4>3. view[c] = Contract!Open
        BY <1>t, <3>1, <4>2, OutcomeIs
      <4>4. end = [end |-> "skipped", records |-> {}]
        BY <4>1 DEF Outcome, Committed, committed_evidence, Content
      <4>5. Contract!Skipped(c)
        BY <3>1, <4>1, SkippedIs
      <4>6. Contract!Ends(c, "skipped")
        BY <3>1, <3>3, <3>5, <4>1, <4>3, <4>4 DEF Contract!Ends
      <4>7. Contract!Skip(c)
        BY <3>3, <4>4, <4>5, <4>6 DEF Contract!Skip, Contract!Commit
      <4> QED
        BY <3>1, <4>7, SameWords DEF Contract!Next
    <3>7. CASE WriteRunning(p)
      <4>1. state'[c].status = "running" /\ state[c].status \notin FINAL
        BY <1>t, <3>1, <3>7 DEF WriteRunning, Open, Admitted, AttemptLabels
      <4>2. end = Contract!Open
        BY <4>1 DEF Outcome, Committed, committed_evidence, Content, Contract!Open
      <4>3. CASE state[c].status = "failed"
        <5>1. Contract!Withdraw(c)
          BY <1>t, <3>1, <3>3, <4>2, <4>3, OutcomeIs DEF Contract!Withdraw
        <5> QED
          BY <3>1, <5>1, SameWords DEF Contract!Next
      <4>4. CASE state[c].status # "failed"
        <5>1. state[c].status \in {"none", "running", "noisy"}
          BY <1>t, <3>1, <4>1, <4>4 DEF StateFile, Statuses, FINAL, UNFINISHED
        <5>2. Outcome(c) = Contract!Open
          BY <1>t, <3>1, <5>1, OutcomeIs
        <5> QED
          BY <3>1, <3>3, <4>2, <5>2
      <4> QED
        BY <4>3, <4>4
    <3>8. CASE WriteFinal(p)
      <4>1. /\ pc[p] = "final" /\ pc[p] \in Admitted
            /\ state'[c].status = fate[p] /\ state'[c].attempts = state[c].attempts
        BY <1>t, <3>1, <3>8 DEF WriteFinal, StateFile, Admitted, AttemptLabels
      <4>2. /\ state[c].status = "running" /\ evidence[c] = records[p]
            /\ fate[p] = "complete" => Complete(c, state[c].attempts, evidence[c])
            /\ fate[p] = "failed" => Crashed(c, state[c].attempts, evidence[c])
        BY <1>t, <3>1, <4>1 DEF Whole, Writing
      <4>3. Due(c)
        BY <1>t, <3>1, <4>1 DEF Ordered
      <4>4. view[c] = Contract!Open
        BY <1>t, <3>1, <4>2, OutcomeIs
      <4>5. ~Contract!Skipped(c)
        BY <3>1, <4>3, SkippedIs DEF Due
      <4>6. ASSUME NEW e, end.end = e
            PROVE  Contract!Ends(c, e)
        BY <3>1, <3>3, <3>5, <4>3, <4>4, <4>6 DEF Contract!Ends, Due
      <4>7. CASE fate[p] = "complete"
        <5>1. end = [end |-> "complete", records |-> Content(evidence[c])]
          BY <3>4, <4>1, <4>7 DEF Outcome, Committed, committed_evidence
        <5>2. PICK g \in Grades[c], kept \in SUBSET UNION Grades[c] :
                 /\ \A r \in kept : r.id \notin IdsOf(g)
                 /\ c \in Resets => kept = {}
                 /\ Content(evidence[c]) = g \cup kept
          BY <3>1, <4>2, <4>7, CompleteIs
        <5>3. Contract!Commit(c, "complete", g \cup kept)
          BY <3>3, <5>1, <5>2 DEF Contract!Commit
        <5>4. Contract!Ends(c, "complete")
          BY <4>6, <5>1
        <5>5. Contract!Complete(c)
          <6> HIDE DEF view, end
          <6> QED
            BY <4>5, <5>2, <5>3, <5>4, SameWords DEF Contract!Complete
        <5> QED
          BY <3>1, <5>5, SameWords DEF Contract!Next
      <4>8. CASE fate[p] = "failed"
        <5>1. end = [end |-> "failed", records |-> {Crash(c)}]
          <6>1. Committed(c)' = {r \in evidence[c] : IsCrash(r)}
            BY <3>4, <4>1, <4>8 DEF Committed, committed_evidence
          <6>2. Committed(c)' = {Tag(Crash(c), state[c].attempts)}
            BY <4>2, <4>8, <6>1 DEF Crashed
          <6>3. Crash(c) \in Record
            BY <3>1 DEF Crash, record, Record, Ids, Names, KINDS, RESULTS, Subjects
          <6>4. Content(Committed(c)') = {Crash(c)}
            <7>1. {Tag(r, state[c].attempts) : r \in {Crash(c)}} = Committed(c)'
              BY <6>2
            <7>2. {Crash(c)} \in SUBSET Record
              BY <6>3
            <7> QED
              BY <7>1, <7>2, ContentTag
          <6> QED
            BY <4>1, <4>8, <6>4 DEF Outcome, Content
        <5>2. Contract!Ends(c, "failed")
          BY <4>6, <5>1
        <5>3. Contract!Fail(c)
          BY <3>3, <4>5, <5>1, <5>2, SameWords DEF Contract!Fail, Contract!Commit
        <5> QED
          BY <3>1, <5>3, SameWords DEF Contract!Next
      <4>9. CASE fate[p] = "noisy"
        <5>1. end = Contract!Open
          BY <4>1, <4>9 DEF Outcome, Committed, committed_evidence, Content, Contract!Open
        <5> QED
          BY <3>1, <3>3, <4>4, <5>1
      <4> QED
        BY <1>t, <4>1, <4>7, <4>8, <4>9
    <3> QED
      BY <3>1, <3>6, <3>7, <3>8
  <2> QED
    BY <2>3, <2>4
<1> QED
  BY <1>1, <1>2

\* With all their locks, kills and retries, and files written one after another, the stages of
\* a session implement SessionContract: each commits in one step, in order and as the gate over
\* the committed records says.
THEOREM StagesKeepTheContract == Spec => ImplementsContract
<1>1. Init => Contract!Init
  <2> SUFFICES ASSUME Init PROVE Contract!Init
    OBVIOUS
  <2>1. \A s \in Stages : Outcome(s) = Contract!Open
    BY InitJudged, OutcomeIs DEF Judged, Init, NoSnap, NotStarted
  <2> QED
    BY <2>1, SameWords DEF Contract!Init
<1> QED
  BY InitJudged, NextJudged, NextContract, <1>1, PTL DEF Spec, ImplementsContract, Contract!Spec
=============================================================================
