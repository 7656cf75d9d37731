--------------------------- MODULE Manager_proofs ---------------------------
(***************************************************************************)
(* Proofs about Manager, for any bounds, answers of LSF and ends of jobs:  *)
(* the ledger covers every job, no stage has two, retries are for noise    *)
(* only, outcomes are true and settled entries are history.                *)
(*                                                                         *)
(* The invariant has four parts: what the process that holds the lock      *)
(* knows (Process) and has reached (Progress), what an entry says of its   *)
(* job and of the other entries (Entries), and what a job has left behind  *)
(* (Evidence).  A step edits one entry that is not settled (Edits), reserves   *)
(* one (Reserves) or leaves the ledger as it is.                           *)
(***************************************************************************)
EXTENDS Manager, FiniteSetTheorems, WellFoundedInduction, SequenceTheorems, TLAPS

Settled == {"terminal", "rejected"}
\* Between the reservation of an entry and the record of bsub's answer.
Submitting == {"bsub", "answered"}
Members(q) == {q[i] : i \in DOMAIN q}

Process ==
    /\ \A k \in todo \cup waiting : ledger[k].status \in Unsettled
    /\ pc \in Submitting => /\ cur = count /\ cur \in Keys /\ cur \notin waiting
                            /\ ledger[cur].status = "reserved"
    /\ pc = "bsub" \/ (pc = "answered" /\ answer = "rejected") => lsf[cur] = "none"
    /\ pc = "answered" => answer # "none"
    /\ pc \in {"off", "reconcile", "resume"} => waiting = {}
    /\ pc = "cancel" => todo \cap waiting = {}
    /\ pc \notin {"reconcile", "resume", "cancel"} => todo = {}
    /\ pc = "resume" => owned \subseteq todo
    /\ pc = "decide" => owned = {}
    /\ holder = "free" => pc = "off"
    /\ me # 0 => me \in 1 .. count /\ ~IsJob(me)

\* The stages before a step are final, and unit-tests has settled before cost.
Progress ==
    /\ pc \in {"off", "launch", "resume", "reconcile"} => step = 1 /\ queue = <<>>
    /\ step \in 2 .. 4 => Finished("compile")
    /\ step \in 3 .. 4 => Finished("quality")
    /\ step = 4 => Finished("correctness")
    /\ pc = "stages" => step <= 3
    /\ pc = "cost" => step = 4
    /\ step <= 3 => Members(queue) \subseteq Members(Group(step))
    /\ pc = "wait" /\ step <= 3 => queue = <<>>
    /\ pc \in {"stages", "wait"} \cup Submitting /\ step = 3 =>
          \A k \in Keys : ledger[k].stage = "unit-tests" /\ ledger[k].status \in ACTIVE =>
              k \in waiting \/ "unit-tests" \in Members(queue) \/ (pc \in Submitting /\ k = cur)
    /\ pc \in {"cost", "wait"} \cup Submitting /\ step = 4 =>
          \A k \in Keys : ledger[k].stage = "unit-tests" => ledger[k].status \in Settled

Attempts(e) == {k \in Keys : ledger[k].stage = "cost" /\ ledger[k].epoch = e
                             /\ ledger[k].status \notin {"unused", "rejected"}}

\* The outcomes that come from a job's record.
Recorded == BodyEnds \cup {"already-final", "inconsistent", "precondition", "usage"}

\* What an entry that is a job's says of it.
Says(k) ==
    IsJob(k) =>
        /\ ledger[k].epoch # epoch => ledger[k].status \in Settled
        /\ ledger[k].status = "terminal" => lsf[k] \in Ended
        /\ ledger[k].status = "rejected" => lsf[k] = "none"
        /\ ledger[k].kind \in Recorded =>
              /\ ledger[k].status = "terminal"
              /\ ledger[k].stage \in Stages => Tells(ledger[k].kind, body[k])

\* Job k comes after job j of its stage.
Follows(j, k) ==
    j < k /\ k <= count /\ IsJob(j) /\ ledger[j].stage = ledger[k].stage
    /\ ledger[j].epoch = ledger[k].epoch

Entries ==
    /\ \A k \in Keys : k <= count => ledger[k].status # "unused"
    /\ \A k \in Keys : Says(k)
    /\ \A j, k \in Keys : Follows(j, k) /\ ledger[j].status # "rejected" =>
          ledger[j].stage = "cost" /\ ledger[j].status = "terminal" /\ ledger[j].kind = "noisy"
    /\ \A k \in Keys : ledger[k].stage = "unit-tests" => UnitTests
    /\ \A e \in Nat : Cardinality(Attempts(e)) <= MaxCostAttempts

\* The exit codes of a command that came to b.
Codes(b) == {ExitCode(b)} \cup (IF b \in BodyEnds \cup {"final"} THEN {40} ELSE {})

\* What a job has left behind when it is over.
Leaves(k) ==
    IsJob(k) =>
        /\ lsf[k] = "over" => body[k] # "none"
        /\ outcome[k] \notin {NoCode, 143} =>
              lsf[k] \in Ended /\ body[k] # "none" /\ outcome[k] \in Codes(body[k])
        /\ lsf[k] = "run" => ~Finished(ledger[k].stage)

\* A final state stays: the job that wrote it, or found it, has done so for good.
Stands(k) ==
    LET s == ledger[k].stage IN
    s \in Stages =>
        /\ body[k] \in {"complete", "skipped"} => state[s].by = k /\ state[s].status = body[k]
        /\ body[k] = "final" => Finished(s) /\ state[s].by # k

\* A job is in LSF, or about to be, only in its place.
InPlace(k) ==
    ledger[k].stage \in Stages /\ (lsf[k] \in InLsf \/ (pc \in Submitting /\ k = cur)) =>
        /\ \A n \in PREREQUISITES(ledger[k].stage) : Finished(n)
        /\ ledger[k].stage = "cost" =>
              \A j \in 1 .. k - 1 : ledger[j].stage = "unit-tests" => lsf[j] \notin InLsf

Evidence ==
    /\ \A k \in Keys : k > count => outcome[k] = NoCode /\ body[k] = "none"
    /\ \A k \in Keys : Leaves(k) /\ InPlace(k) /\ Stands(k)
    /\ \A s \in JobStages : \A k \in Keys :
          state[s].by = k /\ state[s].status \in BodyEnds =>
              IsJob(k) /\ lsf[k] \in {"over"} \cup Ended /\ body[k] = state[s].status

Sound == TypeOK /\ Process /\ Progress /\ Entries /\ Evidence

-----------------------------------------------------------------------------
(* Operators *)

\* Some entries have a last one.
LEMMA LastIs ==
  ASSUME NEW S \in SUBSET Keys, S # {}
  PROVE  \E x \in S : \A y \in S : y <= x
<1>1. S \subseteq Nat /\ MaxJobs \in Nat
  BY ManagerAssumption DEF Keys
<1> DEFINE T == {x .. MaxJobs : x \in S}
<1>2. \A x \in S : IsFiniteSet(x .. MaxJobs) /\ x .. MaxJobs \in SUBSET Nat
  BY <1>1, FS_Interval
<1>3. T \subseteq FiniteSubsetsOf(Nat) /\ T # {}
  BY <1>2 DEF FiniteSubsetsOf
<1>4. PICK t \in T : \A u \in T : ~ (<<u, t>> \in StrictSubsetOrdering(Nat))
  BY <1>3, FS_StrictSubsetOrderingWellFounded, WFMin
<1>5. PICK x \in S : t = x .. MaxJobs
  BY <1>4
<1>6. ASSUME NEW y \in S, x < y PROVE FALSE
  <2>1. y .. MaxJobs \subseteq x .. MaxJobs /\ y .. MaxJobs # x .. MaxJobs
    <3>1. x \in x .. MaxJobs /\ x \notin y .. MaxJobs
      BY <1>1, <1>6 DEF Keys
    <3> QED
      BY <1>1, <1>6, <3>1
  <2>2. y .. MaxJobs \in T /\ y .. MaxJobs \subseteq Nat /\ x .. MaxJobs \subseteq Nat
    BY <1>2
  <2>3. <<y .. MaxJobs, x .. MaxJobs>> \in StrictSubsetOrdering(Nat)
    BY <2>1, <2>2 DEF StrictSubsetOrdering
  <2> QED
    BY <1>4, <1>5, <2>2, <2>3
<1> QED
  BY <1>1, <1>6

\* A stage with a current entry has a latest one.
LEMMA LatestIs ==
  ASSUME NEW s, Current(s) # {}
  PROVE  \E k \in latest(s) : k \in Current(s) /\ \A j \in Current(s) : j <= k
BY LastIs DEF latest, Current

\* k's entry becomes e: the same job's, settled only when it is over or never was in LSF.
Edit(k, e) ==
    /\ k \in Keys /\ ledger[k].status \in Unsettled
    /\ e \in Entry /\ e.stage = ledger[k].stage /\ e.epoch = ledger[k].epoch
    /\ e.status \in Unsettled \cup Settled
    /\ IsJob(k) =>
          /\ e.status = "terminal" => lsf[k] \in Ended
          /\ e.status = "rejected" => lsf[k] = "none"
          /\ e.kind \in Recorded => /\ e.status = "terminal"
                                    /\ e.stage \in Stages => Tells(e.kind, body[k])

\* What is known of an entry that is not settled.
LEMMA UnsettledIs ==
  ASSUME Sound, NEW k \in Keys, ledger[k].status \in Unsettled
  PROVE  /\ ledger[k] \in Entry /\ k <= count /\ ledger[k].status \notin Settled \cup {"unused"}
         /\ IsJob(k) => ledger[k].kind \notin Recorded /\ ledger[k].epoch = epoch
<1>1. ledger[k] \in Entry
  BY DEF Sound, TypeOK
<1>2. k <= count
  BY DEF Sound, TypeOK, Unused, Unsettled, ACTIVE, Keys
<1> QED
  BY <1>1, <1>2 DEF Sound, Entries, Says, Unsettled, ACTIVE, Settled

\* Looking for a job by its name settles nothing.
LEMMA LookupEdits ==
  ASSUME Sound, NEW k \in Keys, ledger[k].status \in Unsettled, NEW e \in reconcile_by_name(k)
  PROVE  /\ Edit(k, e) /\ e.status \in Unsettled
         /\ Edit(k, lose(e)) /\ lose(e).status = "unreconciled"
<1>1. /\ ledger[k] \in Entry
      /\ IsJob(k) => ledger[k].kind \notin Recorded
  BY UnsettledIs
<1> DEFINE n == IF ledger[k].lookups < NameLookups THEN ledger[k].lookups + 1 ELSE NameLookups
<1>2. n \in Nat
  BY <1>1, ManagerAssumption DEF Entry
<1> HIDE DEF n
<1>3. \/ e = [ledger[k] EXCEPT !.status = "submitted"] \/ e = ledger[k]
      \/ e = [ledger[k] EXCEPT !.lookups = n]
      \/ e = [[ledger[k] EXCEPT !.lookups = n] EXCEPT !.status = "unreconciled"]
  <2> DEFINE found == [ledger[k] EXCEPT !.status = "submitted"]
             gone == [ledger[k] EXCEPT !.lookups = n]
             dropped == [gone EXCEPT !.status = "unreconciled"]
  <2>1. \E A, B, C, D : reconcile_by_name(k) =
            {found : a \in A} \cup {ledger[k] : a \in B} \cup {gone : a \in C} \cup {dropped : a \in D}
    BY Zenon DEF reconcile_by_name, n
  <2> HIDE DEF found, gone, dropped
  <2>2. e \in {found, ledger[k], gone, dropped}
    BY <2>1
  <2> QED
    BY <2>2 DEF found, gone, dropped
<1>4. /\ e \in Entry /\ e.stage = ledger[k].stage /\ e.epoch = ledger[k].epoch
      /\ e.kind = ledger[k].kind /\ e.status \in Unsettled
  BY <1>1, <1>2, <1>3 DEF Entry, EntryStatuses, Unsettled, ACTIVE
<1>5. /\ lose(e) \in Entry /\ lose(e).stage = ledger[k].stage /\ lose(e).epoch = ledger[k].epoch
      /\ lose(e).kind = "lost" /\ lose(e).status = "unreconciled"
  BY <1>4 DEF lose, Entry, EntryStatuses, Unsettled, OutcomeKinds
<1> QED
  BY <1>1, <1>4, <1>5 DEF Edit, Unsettled, ACTIVE, Settled, BodyEnds, Recorded

\* Giving a job up settles nothing.
LEMMA LosingEdits ==
  ASSUME Sound, NEW k \in Keys, ledger[k].status \in Unsettled
  PROVE  Edit(k, lose(ledger[k])) /\ lose(ledger[k]).status = "unreconciled"
<1>1. ledger[k] \in Entry
  BY UnsettledIs
<1> QED
  BY <1>1 DEF lose, Entry, EntryStatuses, Unsettled, ACTIVE, Settled, OutcomeKinds, Edit, BodyEnds, Recorded

\* What LSF reports as ended has ended.
LEMMA QueryIsTrue ==
  ASSUME NEW k, NEW a \in query(k), a \in Ended
  PROVE  lsf[k] = a
BY DEF query, Truth, Ended

\* What an exit code says of the command: an error, or that it came to what the code stands for.
LEMMA CodesAre ==
  ASSUME NEW b \in Results
  PROVE  /\ Codes(b) \subseteq {0, 40, 41, 42, 64} /\ ExitCode(b) \in Codes(b)
         /\ 0 \in Codes(b) => b \in {"complete", "skipped", "final"}
         /\ 42 \in Codes(b) => b = "noisy"
         /\ 41 \in Codes(b) => b = "refused"
         /\ 64 \in Codes(b) => b = "usage"
         /\ 40 \in Codes(b) => b \notin {"refused", "usage"}
BY DEF Codes, ExitCode, Results, BodyEnds

\* An outcome is what the job's own command came to.
LEMMA ClassifyIsTrue ==
  ASSUME Sound, NEW k \in Keys, lsf[k] \in Ended
  PROVE  /\ classify(k, lsf[k]) \in OutcomeKinds
         /\ IsJob(k) /\ ledger[k].stage \in Stages /\ classify(k, lsf[k]) \in Recorded =>
               Tells(classify(k, lsf[k]), body[k])
<1> DEFINE s == ledger[k].stage
           kind == classify(k, lsf[k])
<1>1. /\ s \in JobStages /\ state[s].status \in {"none", "running"} \cup BodyEnds
      /\ body[k] \in Results
      /\ outcome[k] \in {NoCode, 0, 40, 41, 42, 64, 143}
  BY DEF Sound, TypeOK, Entry
<1>2. kind \in OutcomeKinds
  BY <1>1 DEF classify, OutcomeKinds, BodyEnds, FINAL, NoCode, Ended
<1>3. ASSUME IsJob(k), s \in Stages, kind \in Recorded PROVE Tells(kind, body[k])
  <2>1. s # "clean"
    BY <1>3 DEF Stages
  <2>2. outcome[k] \in {0, 40, 41, 42, 64}
    BY <1>1, <1>3, <2>1 DEF classify, Recorded, BodyEnds, NoCode, Ended
  <2>3. body[k] # "none" /\ outcome[k] \in Codes(body[k])
    BY <1>3, <2>2 DEF Sound, Evidence, Leaves, NoCode
  <2>4. CASE outcome[k] = 0
    <3>1. body[k] \in {"complete", "skipped", "final"}
      BY <1>1, <2>3, <2>4, CodesAre
    <3>2. CASE body[k] \in {"complete", "skipped"}
      <4>1. state[s].by = k /\ state[s].status = body[k] /\ body[k] \in FINAL
        BY <1>3, <3>2 DEF Sound, Evidence, Stands, FINAL
      <4> QED
        BY <2>1, <2>4, <3>2, <4>1 DEF classify, Tells, NoCode
    <3>3. CASE body[k] = "final"
      <4>1. state[s].by # k /\ state[s].status \in FINAL
        BY <1>3, <3>3 DEF Sound, Evidence, Stands, Finished
      <4> QED
        BY <2>1, <2>4, <3>3, <4>1 DEF classify, Tells, NoCode
    <3> QED
      BY <3>1, <3>2, <3>3
  <2>5. CASE outcome[k] = 42
    <3>1. body[k] = "noisy"
      BY <1>1, <2>3, <2>5, CodesAre
    <3>2. kind \in {"noisy", "inconsistent"}
      BY <2>1, <2>5 DEF classify, NoCode
    <3> QED
      BY <3>1, <3>2 DEF Tells
  <2>6. CASE outcome[k] = 41
    <3>1. body[k] = "refused" /\ kind = "precondition"
      BY <1>1, <2>1, <2>3, <2>6, CodesAre DEF classify, NoCode
    <3> QED
      BY <3>1 DEF Tells
  <2>7. CASE outcome[k] = 64
    <3>1. body[k] = "usage" /\ kind = "usage"
      BY <1>1, <2>1, <2>3, <2>7, CodesAre DEF classify, NoCode
    <3> QED
      BY <3>1 DEF Tells
  <2>8. CASE outcome[k] = 40
    <3>1. body[k] \notin {"none", "refused", "usage"} /\ kind = "failed"
      BY <1>1, <2>1, <2>3, <2>8, CodesAre DEF classify, NoCode
    <3> QED
      BY <3>1 DEF Tells
  <2> QED
    BY <2>2, <2>4, <2>5, <2>6, <2>7, <2>8
<1> QED
  BY <1>2, <1>3

\* A job is settled when it has ended, with its own outcome.
LEMMA SettlingEdits ==
  ASSUME Sound, NEW k \in Keys, ledger[k].status \in Unsettled,
         NEW a \in query(k), a \in Ended, NEW cancelled \in BOOLEAN
  PROVE  Edit(k, settle(k, a, cancelled)) /\ settle(k, a, cancelled).status = "terminal"
<1>1. lsf[k] = a /\ lsf[k] \in Ended
  BY QueryIsTrue
<1> DEFINE kind == classify(k, a)
           shown == IF cancelled /\ kind \in {"killed", "terminated", "unknown"} THEN "cancelled" ELSE kind
<1>2. /\ kind \in OutcomeKinds
      /\ IsJob(k) /\ ledger[k].stage \in Stages /\ kind \in Recorded => Tells(kind, body[k])
  BY <1>1, ClassifyIsTrue
<1>3. settle(k, a, cancelled) = [ledger[k] EXCEPT !.status = "terminal", !.kind = shown]
  BY DEF settle
<1> HIDE DEF kind
<1>4. /\ shown \in OutcomeKinds
      /\ IsJob(k) /\ ledger[k].stage \in Stages /\ shown \in Recorded => Tells(shown, body[k])
  BY <1>2 DEF OutcomeKinds, BodyEnds, Recorded
<1> HIDE DEF shown
<1>5. ledger[k] \in Entry
  BY UnsettledIs
<1> QED
  BY <1>1, <1>3, <1>4, <1>5 DEF Edit, Entry, EntryStatuses, Settled

-----------------------------------------------------------------------------
(* What every step keeps *)

\* The ledger stays as it is, or one entry is edited.
Edits ==
    /\ UNCHANGED <<count, epoch>>
    /\ ledger' = ledger \/ \E k \in Keys : \E e \in Entry : Edit(k, e) /\ update(k, e)

\* What an edit does to an entry.
LEMMA EditedEntry ==
  ASSUME Sound, Edits
  PROVE  /\ ledger' \in [Keys -> Entry]
         /\ \A k \in Keys : k > count => ledger'[k] = ledger[k]
         /\ \A k \in Keys : /\ ledger'[k].stage = ledger[k].stage /\ ledger'[k].epoch = ledger[k].epoch
                            /\ \/ ledger'[k] = ledger[k]
                               \/ ledger[k].status \in Unsettled /\ Edit(k, ledger'[k])
<1>1. CASE ledger' = ledger
  BY <1>1 DEF Sound, TypeOK
<1>2. ASSUME NEW j \in Keys, NEW e \in Entry, Edit(j, e), ledger' = [ledger EXCEPT ![j] = e]
      PROVE  /\ ledger' \in [Keys -> Entry]
             /\ \A k \in Keys : k > count => ledger'[k] = ledger[k]
             /\ \A k \in Keys : /\ ledger'[k].stage = ledger[k].stage /\ ledger'[k].epoch = ledger[k].epoch
                                /\ \/ ledger'[k] = ledger[k]
                                   \/ ledger[k].status \in Unsettled /\ Edit(k, ledger'[k])
  <2>1. ledger \in [Keys -> Entry] /\ count \in Nat
    BY ManagerAssumption DEF Sound, TypeOK
  <2>2. \A k \in Keys : ledger'[k] = IF k = j THEN e ELSE ledger[k]
    BY <1>2, <2>1
  <2>3. j <= count /\ ledger[j].status \in Unsettled /\ e.stage = ledger[j].stage /\ e.epoch = ledger[j].epoch
    BY <1>2, UnsettledIs DEF Edit
  <2> QED
    BY <1>2, <2>1, <2>2, <2>3 DEF Keys
<1> QED
  BY <1>1, <1>2 DEF Edits, update

\* Cost entries that count as attempts are finitely many.
LEMMA AttemptsFinite ==
  ASSUME NEW e
  PROVE  IsFiniteSet(Attempts(e)) /\ IsFiniteSet(Attempts(e)')
<1>1. IsFiniteSet(Keys)
  BY FS_Interval, ManagerAssumption DEF Keys
<1>2. Attempts(e) \in SUBSET Keys /\ Attempts(e)' \in SUBSET Keys
  BY DEF Attempts
<1> QED
  BY <1>1, <1>2, FS_Subset

\* Edits keep what the entries say.
LEMMA EditsKeepEntries ==
  ASSUME Sound, Edits, UNCHANGED <<lsf, body>>
  PROVE  Entries'
<1>1. /\ ledger' \in [Keys -> Entry] /\ count' = count /\ epoch' = epoch
      /\ \A k \in Keys : k > count => ledger'[k] = ledger[k]
      /\ \A k \in Keys : /\ ledger'[k].stage = ledger[k].stage /\ ledger'[k].epoch = ledger[k].epoch
                         /\ \/ ledger'[k] = ledger[k]
                            \/ ledger[k].status \in Unsettled /\ Edit(k, ledger'[k])
  BY EditedEntry DEF Edits
<1>2. Entries /\ count \in Nat
  BY ManagerAssumption DEF Sound, TypeOK
<1>3. \A k \in Keys : k <= count => ledger'[k].status # "unused"
  BY <1>1, <1>2 DEF Entries, Edit, Unsettled, ACTIVE, Settled
<1>4. \A k \in Keys : Says(k)'
  <2> SUFFICES ASSUME NEW k \in Keys, ledger'[k] # ledger[k] PROVE Says(k)'
    BY <1>1, <1>2 DEF Entries, Says, IsJob
  <2>1. Edit(k, ledger'[k]) /\ ledger[k].status \in Unsettled
    BY <1>1
  <2>2. IsJob(k) => ledger[k].epoch = epoch
    BY <2>1, UnsettledIs
  <2> QED
    BY <1>1, <2>1, <2>2 DEF Says, Edit, IsJob
<1>5. ASSUME NEW j \in Keys, NEW k \in Keys, Follows(j, k)', ledger'[j].status # "rejected"
      PROVE  ledger'[j].stage = "cost" /\ ledger'[j].status = "terminal" /\ ledger'[j].kind = "noisy"
  <2>1. Follows(j, k)
    BY <1>1, <1>5 DEF Follows, IsJob
  <2>2. CASE ledger'[j] = ledger[j]
    BY <1>2, <1>5, <2>1, <2>2 DEF Entries
  <2>3. CASE ledger[j].status \in Unsettled
    <3>1. ledger[j].status # "rejected" /\ ledger[j].status # "terminal"
      BY <2>3 DEF Unsettled, ACTIVE
    <3> QED
      BY <1>2, <2>1, <3>1 DEF Entries
  <2> QED
    BY <1>1, <2>2, <2>3
<1>6. \A k \in Keys : ledger'[k].stage = "unit-tests" => UnitTests
  BY <1>1, <1>2 DEF Entries
<1>7. ASSUME NEW e \in Nat PROVE Cardinality(Attempts(e)') <= MaxCostAttempts
  <2>1. \A k \in Keys : ledger'[k].status \notin {"unused", "rejected"} =>
                           ledger[k].status \notin {"unused", "rejected"}
    BY <1>1 DEF Unsettled, ACTIVE
  <2>2. Attempts(e)' \in SUBSET Attempts(e)
    BY <1>1, <2>1 DEF Attempts
  <2>3. Cardinality(Attempts(e)') <= Cardinality(Attempts(e))
    BY <2>2, AttemptsFinite, FS_Subset
  <2>4. Cardinality(Attempts(e)) <= MaxCostAttempts
    BY <1>2 DEF Entries
  <2>5. Cardinality(Attempts(e)') \in Nat /\ Cardinality(Attempts(e)) \in Nat
    BY AttemptsFinite, FS_CardinalityType
  <2> QED
    BY <2>3, <2>4, <2>5, ManagerAssumption
<1> QED
  BY <1>1, <1>3, <1>4, <1>5, <1>6, <1>7 DEF Entries

\* Edits keep what the jobs have left behind.
LEMMA EditsKeepEvidence ==
  ASSUME Sound, Edits, UNCHANGED world, pc' \in Submitting => pc \in Submitting /\ cur' = cur
  PROVE  Evidence'
<1>1. /\ count' = count /\ UNCHANGED <<created, state, lsf, body, outcome>>
      /\ \A k \in Keys : ledger'[k].stage = ledger[k].stage
  BY EditedEntry DEF Edits, world
<1>2. Evidence
  BY DEF Sound
<1>3. \A k \in Keys : Leaves(k)'
  BY <1>1, <1>2 DEF Evidence, Leaves, IsJob, Finished
<1>4. ASSUME NEW k \in Keys PROVE InPlace(k)'
  <2>1. InPlace(k)
    BY <1>2 DEF Evidence
  <2>2. \A j \in 1 .. k - 1 : j \in Keys
    BY ManagerAssumption DEF Keys
  <2> QED
    BY <1>1, <2>1, <2>2 DEF InPlace, Finished
<1>5. \A k \in Keys : Stands(k)'
  BY <1>1, <1>2 DEF Evidence, Stands, Finished
<1> QED
  BY <1>1, <1>2, <1>3, <1>4, <1>5 DEF Evidence, IsJob

\* A process that moves only its own manager's job, or sends the job it submits.
LEMMA SendingKeeps ==
  ASSUME Sound, UNCHANGED <<disk, created, state, body, outcome>>,
         \A k \in Keys : \/ lsf'[k] = lsf[k] \/ ~IsJob(k)
                         \/ pc = "bsub" /\ k = cur /\ lsf'[k] \in {"none", "sent", "pend"},
         pc' \in Submitting => pc \in Submitting /\ cur' = cur
  PROVE  Entries' /\ Evidence'
<1>1. UNCHANGED <<ledger, count, epoch, created, state, body, outcome>>
  BY DEF disk
<1>2. Entries /\ Evidence /\ count \in Nat
  BY ManagerAssumption DEF Sound, TypeOK
<1>3. pc = "bsub" => /\ lsf[cur] = "none" /\ cur = count /\ ledger[cur].status = "reserved"
  BY DEF Sound, Process, Submitting
<1>4. \A k \in Keys : Says(k)'
  BY <1>1, <1>2, <1>3 DEF Entries, Says, IsJob, BodyEnds, Recorded
<1>5. Entries'
  BY <1>1, <1>2, <1>4 DEF Entries, Follows, Attempts, IsJob
<1>6. \A k \in Keys : Leaves(k)'
  BY <1>1, <1>2, <1>3 DEF Evidence, Leaves, IsJob, Finished, Ended, InLsf
<1>7. ASSUME NEW k \in Keys PROVE InPlace(k)'
  <2> SUFFICES ASSUME ledger[k].stage \in Stages,
                      lsf'[k] \in InLsf \/ (pc' \in Submitting /\ k = cur')
               PROVE  /\ \A n \in PREREQUISITES(ledger[k].stage) : Finished(n)
                      /\ ledger[k].stage = "cost" =>
                           \A j \in 1 .. k - 1 : ledger[j].stage = "unit-tests" => lsf'[j] \notin InLsf
    BY <1>1 DEF InPlace, Finished
  <2>1. IsJob(k)
    BY DEF IsJob, Stages
  <2>2. lsf[k] \in InLsf \/ (pc \in Submitting /\ k = cur)
    BY <2>1 DEF Submitting
  <2>3. /\ \A n \in PREREQUISITES(ledger[k].stage) : Finished(n)
        /\ ledger[k].stage = "cost" =>
             \A j \in 1 .. k - 1 : ledger[j].stage = "unit-tests" => lsf[j] \notin InLsf
    BY <1>2, <2>2 DEF Evidence, InPlace
  <2>4. k <= count
    BY <2>2 DEF Sound, TypeOK, Process, InLsf, Keys
  <2>5. ASSUME NEW j \in 1 .. k - 1, ledger[j].stage = "unit-tests" PROVE lsf'[j] = lsf[j]
    <3>1. j \in Keys /\ IsJob(j)
      BY <2>5, ManagerAssumption DEF Keys, IsJob
    <3>2. ~(pc = "bsub" /\ j = cur)
      BY <1>2, <1>3, <2>4 DEF Keys
    <3> QED
      BY <3>1, <3>2
  <2> QED
    BY <2>3, <2>5
<1>8. \A s \in JobStages : \A k \in Keys :
         state'[s].by = k /\ state'[s].status \in BodyEnds =>
             IsJob(k)' /\ lsf'[k] \in {"over"} \cup Ended /\ body'[k] = state'[s].status
  BY <1>1, <1>2, <1>3 DEF Evidence, IsJob, Ended
<1>9. \A k \in Keys : Stands(k)'
  BY <1>1, <1>2 DEF Evidence, Stands, Finished
<1> QED
  BY <1>1, <1>2, <1>5, <1>6, <1>7, <1>8, <1>9 DEF Evidence

\* A new entry: of a stage without one in this epoch, or of a cost that was noisy.
LEMMA ReservedSound ==
  ASSUME Sound, NEW s \in JobStages, reserve(s), UNCHANGED epoch, UNCHANGED world,
         s # "manager" => \A k \in Current(s) : /\ s = "cost" /\ ledger[k].status = "terminal"
                                                /\ ledger[k].kind = "noisy",
         s = "cost" => /\ Cardinality(Attempts(epoch)) < MaxCostAttempts
                       /\ \A k \in Keys : ledger[k].stage = "unit-tests" => ledger[k].status \in Settled,
         s \in Stages => \A n \in PREREQUISITES(s) : Finished(n),
         s = "unit-tests" => UnitTests
  PROVE  /\ Entries' /\ Evidence'
         /\ cur' \in Keys /\ cur' = count + 1 /\ count' = count + 1 /\ pc' = "bsub" /\ tries' = 0
         /\ ledger' \in [Keys -> Entry] /\ ledger'[cur'].status = "reserved"
         /\ ledger'[cur'].stage = s /\ ledger'[cur'].epoch = epoch
         /\ lsf[cur'] = "none" /\ ledger[cur'] = Unused
         /\ \A k \in Keys \ {cur'} : ledger'[k] = ledger[k]
<1> DEFINE new == [Unused EXCEPT !.stage = s, !.epoch = epoch, !.status = "reserved"]
<1>1. /\ TypeOK /\ Entries /\ Evidence /\ count \in Nat /\ MaxJobs \in Nat /\ count < MaxJobs
      /\ count' = count + 1 /\ cur' = count + 1 /\ tries' = 0 /\ pc' = "bsub"
      /\ ledger' = [ledger EXCEPT ![cur'] = new] /\ epoch' = epoch
  <2>1. TypeOK /\ Entries /\ Evidence
    BY DEF Sound
  <2>2. count \in Nat /\ MaxJobs \in Nat
    BY <2>1, ManagerAssumption DEF TypeOK
  <2> QED
    BY <2>1, <2>2 DEF reserve
<1>2. cur' \in Keys /\ ledger \in [Keys -> Entry] /\ ledger[cur'] = Unused /\ lsf[cur'] = "none"
  BY <1>1 DEF Keys, TypeOK
<1>3. /\ new \in Entry /\ new.stage = s /\ new.epoch = epoch /\ new.status = "reserved"
      /\ new.kind = "none"
  BY <1>1 DEF Unused, Entry, EntryStatuses, Unsettled, ACTIVE, OutcomeKinds, TypeOK
<1> HIDE DEF new
<1>4. /\ ledger' \in [Keys -> Entry] /\ ledger'[cur'] = new
      /\ \A k \in Keys \ {cur'} : ledger'[k] = ledger[k]
  BY <1>1, <1>2, <1>3
<1>5. UNCHANGED <<created, state, lsf, body, outcome>>
  BY DEF world
<1>6. \A k \in Keys : k <= count' => ledger'[k].status # "unused"
  BY <1>1, <1>3, <1>4 DEF Entries, Keys
<1>7. \A k \in Keys : Says(k)'
  BY <1>1, <1>2, <1>3, <1>4, <1>5 DEF Entries, Says, IsJob, Settled, BodyEnds, Recorded
<1>8. ASSUME NEW j \in Keys, NEW k \in Keys, Follows(j, k)', ledger'[j].status # "rejected"
      PROVE  ledger'[j].stage = "cost" /\ ledger'[j].status = "terminal" /\ ledger'[j].kind = "noisy"
  <2>1. j < k /\ k <= count + 1 /\ j # cur' /\ ledger'[j] = ledger[j]
    BY <1>1, <1>4, <1>8 DEF Follows, Keys
  <2>2. CASE k # cur'
    BY <1>1, <1>4, <1>8, <2>1, <2>2 DEF Follows, Entries, Keys, IsJob
  <2>3. CASE k = cur'
    <3>1. /\ j <= count /\ s # "manager" /\ ledger[j].stage = s /\ ledger[j].epoch = epoch
      BY <1>1, <1>3, <1>4, <1>8, <2>1, <2>3 DEF Follows, Keys, IsJob
    <3>2. ledger[j].status \notin {"unused", "rejected"}
      BY <1>1, <1>8, <2>1, <3>1 DEF Entries
    <3>3. j \in Current(s)
      BY <3>1, <3>2 DEF Current
    <3> QED
      BY <2>1, <3>1, <3>3
  <2> QED
    BY <2>2, <2>3
<1>9. \A k \in Keys : ledger'[k].stage = "unit-tests" => UnitTests
  BY <1>1, <1>3, <1>4 DEF Entries
<1>10. ASSUME NEW e \in Nat PROVE Cardinality(Attempts(e)') <= MaxCostAttempts
  <2>1. Attempts(e)' = IF s = "cost" /\ e = epoch THEN Attempts(e) \cup {cur'} ELSE Attempts(e)
    BY <1>2, <1>3, <1>4 DEF Attempts, Unused
  <2>2. Cardinality(Attempts(e)) <= MaxCostAttempts
    BY <1>1 DEF Entries
  <2>3. Cardinality(Attempts(e)) \in Nat /\ MaxCostAttempts \in Nat
    BY AttemptsFinite, FS_CardinalityType, ManagerAssumption
  <2> DEFINE n == Cardinality(Attempts(e))
  <2>4. Cardinality(Attempts(e) \cup {cur'}) \in {n, n + 1}
    <3>1. IsFiniteSet(Attempts(e))
      BY AttemptsFinite
    <3>2. Cardinality(Attempts(e) \cup {cur'}) = IF cur' \in Attempts(e) THEN n ELSE n + 1
      BY <3>1, FS_AddElement
    <3> QED
      BY <3>2
  <2>5. s = "cost" /\ e = epoch => n < MaxCostAttempts
    OBVIOUS
  <2>6. n <= MaxCostAttempts /\ n \in Nat
    BY <2>2, <2>3
  <2>7. Cardinality(Attempts(e)') = IF s = "cost" /\ e = epoch THEN Cardinality(Attempts(e) \cup {cur'}) ELSE n
    BY <2>1
  <2> HIDE DEF n
  <2> QED
    BY <2>3, <2>4, <2>5, <2>6, <2>7
<1>11. Entries'
  BY <1>6, <1>7, <1>8, <1>9, <1>10 DEF Entries
<1>12. \A k \in Keys : Leaves(k)'
  BY <1>1, <1>2, <1>4, <1>5 DEF Evidence, Leaves, IsJob, Finished, Keys
<1>13. ASSUME NEW k \in Keys PROVE InPlace(k)'
  <2>1. \A j \in 1 .. k - 1 : j \in Keys
    BY <1>1 DEF Keys
  <2>2. CASE k # cur'
    <3> SUFFICES ASSUME ledger[k].stage \in Stages, lsf[k] \in InLsf
                 PROVE  /\ \A n \in PREREQUISITES(ledger[k].stage) : Finished(n)
                        /\ ledger[k].stage = "cost" =>
                              \A j \in 1 .. k - 1 : ledger'[j].stage = "unit-tests" => lsf[j] \notin InLsf
      BY <1>4, <1>5, <2>2 DEF InPlace, Finished
    <3>1. k <= count
      BY <1>1 DEF TypeOK, InLsf, Keys
    <3>2. \A j \in 1 .. k - 1 : j # cur' /\ ledger'[j] = ledger[j]
      BY <1>1, <1>4, <2>1, <3>1 DEF Keys
    <3> QED
      BY <1>1, <3>2 DEF Evidence, InPlace
  <2>3. CASE k = cur'
    <3>1. ASSUME s = "cost", NEW j \in 1 .. k - 1, ledger'[j].stage = "unit-tests" PROVE lsf[j] \notin InLsf
      <4>1. j \in Keys /\ j # cur' /\ ledger'[j] = ledger[j]
        BY <1>1, <1>4, <2>1, <2>3 DEF Keys
      <4>2. ledger[j].status \in Settled /\ IsJob(j)
        BY <3>1, <4>1 DEF IsJob
      <4> QED
        BY <1>1, <4>1, <4>2 DEF Entries, Says, Settled, InLsf, Ended
    <3> QED
      BY <1>3, <1>4, <1>5, <2>3, <3>1 DEF InPlace, Finished
  <2> QED
    BY <2>2, <2>3
<1>14. \A t \in JobStages : \A k \in Keys :
          state'[t].by = k /\ state'[t].status \in BodyEnds =>
              IsJob(k)' /\ lsf'[k] \in {"over"} \cup Ended /\ body'[k] = state'[t].status
  BY <1>1, <1>2, <1>4, <1>5 DEF Evidence, IsJob, Ended
<1>15. \A k \in Keys : k > count' => outcome'[k] = NoCode /\ body'[k] = "none"
  BY <1>1, <1>5 DEF Evidence, Keys
<1>16. \A k \in Keys : Stands(k)'
  BY <1>1, <1>2, <1>4, <1>5 DEF Evidence, Stands, Finished, Keys
<1>17. Evidence'
  BY <1>12, <1>13, <1>14, <1>15, <1>16 DEF Evidence
<1> QED
  BY <1>1, <1>2, <1>3, <1>4, <1>11, <1>17

\* Jobs move on in LSF, while the process that holds the lock does nothing.
LEMMA JobMoves ==
  ASSUME Sound, UNCHANGED <<disk, local>>, lsf' \in [Keys -> InLsf \cup Ended \cup {"none"}],
         \A k \in Keys : (lsf'[k] = lsf[k] /\ body'[k] = body[k]) \/ lsf[k] \in InLsf,
         \A s \in Stages : Finished(s) => Finished(s)'
  PROVE  /\ Process' /\ Progress' /\ Entries' /\ \A k \in Keys : InPlace(k)'
         /\ \A k \in Keys : k > count => lsf'[k] = "none"
<1>1. /\ TypeOK /\ Process /\ Progress /\ Entries /\ Evidence
      /\ UNCHANGED <<ledger, count, epoch, holder, me, pc, step, queue, todo, waiting, cur, answer>>
  BY DEF Sound, disk, local
<1>2. /\ \A k \in Keys : k > count => lsf'[k] = "none"
      /\ \A k \in Keys : lsf[k] = "none" \/ lsf[k] \in Ended => lsf'[k] = lsf[k] /\ body'[k] = body[k]
  BY <1>1 DEF TypeOK, InLsf, Ended
<1>3. Process'
  BY <1>1, <1>2 DEF Process, owned, IsJob, Submitting
<1>4. Progress'
  BY <1>1 DEF Progress, Submitting, Stages
<1>5. \A k \in Keys : Says(k)'
  BY <1>1, <1>2 DEF Entries, Says, IsJob
<1>6. Entries'
  BY <1>1, <1>5 DEF Entries, Follows, Attempts, IsJob
<1>7. ASSUME NEW k \in Keys PROVE InPlace(k)'
  <2>1. \A i \in 1 .. k - 1 : i \in Keys
    BY ManagerAssumption DEF Keys
  <2>2. \A i \in Keys : lsf'[i] \in InLsf => lsf[i] \in InLsf
    OBVIOUS
  <2>3. \A n \in PREREQUISITES(ledger[k].stage) : n \in Stages
    BY DEF PREREQUISITES
  <2> QED
    BY <1>1, <2>1, <2>2, <2>3 DEF InPlace, Evidence
<1> QED
  BY <1>2, <1>3, <1>4, <1>6, <1>7

-----------------------------------------------------------------------------
(* The process that holds the lock *)

\* What is settled stays as it is.
Keeps == \A k \in Keys : ledger[k].status \in Settled => ledger'[k] = ledger[k]

LocalOK ==
    /\ holder \in {"free", "manager", "reap", "launch"} /\ me \in Keys \cup {0}
    /\ pc \in Pcs /\ step \in 1 .. 5 /\ queue \in Seq(Stages)
    /\ todo \subseteq Keys /\ waiting \subseteq Keys /\ looked \subseteq Keys
    /\ cur \in Keys \cup {0} /\ answer \in {"none", "accepted", "ambiguous", "rejected"}
    /\ tries \in Nat /\ why \in {"none", "deadline", "stopped"}

\* A step that edits an entry or none, and moves the process.
LEMMA EditSound ==
  ASSUME Sound, Edits, UNCHANGED <<world, bounds>>, pc' \in Submitting => pc \in Submitting /\ cur' = cur,
         LocalOK', Process', Progress'
  PROVE  Sound' /\ Keeps
<1>1. Entries' /\ Evidence'
  BY EditsKeepEntries, EditsKeepEvidence DEF world
<1>2. /\ ledger' \in [Keys -> Entry] /\ \A k \in Keys : k > count => ledger'[k] = ledger[k]
      /\ count' = count /\ epoch' = epoch
  BY EditedEntry DEF Edits
<1>3. TypeOK'
  BY <1>2 DEF Sound, TypeOK, LocalOK, world, bounds
<1>4. Keeps
  BY EditedEntry DEF Keeps, Settled, Unsettled, ACTIVE
<1> QED
  BY <1>1, <1>3, <1>4 DEF Sound

\* The process ends and gives the lock back.
LEMMA ReleaseLocal ==
  ASSUME Sound, Release, UNCHANGED state
  PROVE  LocalOK' /\ Process' /\ Progress'
<1>1. /\ holder' = "free" /\ me' = 0 /\ pc' = "off" /\ step' = 1 /\ queue' = <<>>
      /\ todo' = {} /\ waiting' = {} /\ cur' = 0 /\ answer' = "none" /\ tries' = 0
      /\ why' = "none" /\ looked' = {}
  BY DEF Release
<1>2. LocalOK'
  BY <1>1 DEF LocalOK, Pcs
<1>3. Process'
  BY <1>1 DEF Process, Submitting
<1>4. Progress'
  BY <1>1 DEF Progress, Members, Submitting
<1> QED
  BY <1>2, <1>3, <1>4

\* Outside of the stages and the cost loop the order of the stages is only remembered.
LEMMA AwayKeepsProgress ==
  ASSUME Sound, UNCHANGED state, pc' \in {"cancel", "finish", "decide", "end"},
         step' = step, queue' \in {queue, <<>>}
  PROVE  Progress'
<1>1. Members(queue') \in {Members(queue), {}}
  BY DEF Members
<1>2. Group(step') = Group(step)
  OBVIOUS
<1> QED
  BY <1>1, <1>2 DEF Sound, Progress, Finished, Submitting

\* The process's memory has its types.
LEMMA LocalIs ==
  ASSUME Sound
  PROVE  LocalOK /\ owned \subseteq Keys /\ ownedManagers \subseteq Keys
BY DEF Sound, TypeOK, LocalOK, owned, ownedManagers

\* reap and resume take the lock and list the unsettled entries.
LEMMA StartsSound ==
  ASSUME Sound, StartReap \/ StartResume
  PROVE  Sound' /\ Keeps
<1>1. /\ holder = "free" /\ pc = "off" /\ holder' \in {"reap", "launch"} /\ pc' \in {"reconcile", "resume"}
      /\ todo' \subseteq owned \cup ownedManagers /\ owned \subseteq todo'
      /\ UNCHANGED <<disk, world, me, bounds, step, queue, waiting, cur, answer, tries, why, looked>>
  BY DEF StartReap, StartResume, Enter, Sound, Process
<1>2. UNCHANGED <<ledger, count, epoch, state, lsf>>
  BY <1>1 DEF disk, world
<1>3. LocalOK'
  BY <1>1, LocalIs DEF LocalOK, Pcs
<1>4. Process'
  BY <1>1, <1>2 DEF Sound, Process, Submitting, owned, ownedManagers, IsJob
<1>5. Progress'
  BY <1>1, <1>2 DEF Sound, Progress, Finished, Submitting
<1> QED
  BY <1>1, <1>2, <1>3, <1>4, <1>5, EditSound DEF Edits, Submitting

\* Resume settles managers that have ended and gives up on a live job.
LEMMA CheckSound ==
  ASSUME Sound, CheckJobEnded
  PROVE  Sound' /\ Keeps
<1>1. pc = "resume" /\ UNCHANGED <<world, bounds>> /\ UNCHANGED <<state, lsf>>
  BY DEF CheckJobEnded, world
<1>2. CASE Release /\ UNCHANGED disk
  <2>1. Edits /\ pc' = "off"
    BY <1>2 DEF Edits, disk, Release
  <2> QED
    BY <1>1, <1>2, <2>1, ReleaseLocal, EditSound DEF Submitting
<1>3. ASSUME NEW k \in First(todo), ~IsJob(k), update(k, [ledger[k] EXCEPT !.status = "terminal"]),
             todo' = todo \ {k}, UNCHANGED <<count, epoch, holder, me, pc, step, queue, waiting, cur>>,
             UNCHANGED <<answer, tries, why, looked>>
      PROVE  Sound' /\ Keeps
  <2>1. k \in Keys /\ k \in todo /\ ledger[k].status \in Unsettled /\ ledger[k] \in Entry
    BY DEF First, Sound, TypeOK, Process
  <2> DEFINE e == [ledger[k] EXCEPT !.status = "terminal"]
  <2>2. e \in Entry /\ Edit(k, e) /\ e.status = "terminal" /\ e.stage = ledger[k].stage
    BY <1>3, <2>1 DEF Edit, Entry, EntryStatuses, Settled
  <2>3. ledger' = [ledger EXCEPT ![k] = e]
    BY <1>3 DEF update
  <2> HIDE DEF e
  <2>4. Edits
    BY <1>3, <2>1, <2>2, <2>3 DEF Edits, update
  <2>5. /\ \A j \in Keys \ {k} : ledger'[j] = ledger[j]
        /\ ledger'[k].status = "terminal" /\ ledger'[k].stage = ledger[k].stage
    BY <2>1, <2>2, <2>3 DEF Sound, TypeOK
  <2>6. LocalOK'
    BY <1>3, LocalIs DEF LocalOK
  <2>7. Process'
    <3>1. k \notin owned /\ owned' \subseteq owned
      BY <1>3, <2>5 DEF owned, IsJob
    <3>2. waiting = {} /\ holder # "free"
      BY <1>1 DEF Sound, Process
    <3>3. me # 0 => me \in 1 .. count /\ me \in Keys /\ ~IsJob(me)
      BY ManagerAssumption DEF Sound, Process, TypeOK, Keys
    <3> QED
      BY <1>1, <1>3, <2>1, <2>5, <3>1, <3>2, <3>3 DEF Sound, Process, Submitting, IsJob, TypeOK
  <2>8. Progress'
    BY <1>1, <1>3 DEF Sound, Progress, Finished, Submitting
  <2> QED
    BY <1>1, <1>3, <2>4, <2>6, <2>7, <2>8, EditSound DEF Submitting
<1> QED
  BY <1>2, <1>3 DEF CheckJobEnded

\* A new epoch begins only when every job of the old ones is settled.
LEMMA EpochSound ==
  ASSUME Sound, BeginEpoch
  PROVE  Sound' /\ Keeps
<1>1. /\ pc = "resume" /\ todo = {} /\ epoch' = epoch + 1 /\ pc' = "launch" /\ epoch \in Nat
      /\ UNCHANGED <<ledger, count, holder, me, step, queue, todo, waiting, cur, answer, tries, why, looked>>
      /\ UNCHANGED <<created, state, lsf, body, outcome, kills, faults, hands>>
  BY DEF BeginEpoch, world, bounds, Sound, TypeOK
<1>2. TypeOK /\ Process /\ Progress /\ Entries /\ Evidence
  BY DEF Sound
<1>3. TypeOK'
  BY <1>1, <1>2 DEF TypeOK, Pcs
<1>4. \A k \in Keys : IsJob(k) => ledger[k].status \in Settled
  <2> SUFFICES ASSUME NEW k \in Keys, IsJob(k) PROVE ledger[k].status \in Settled
    OBVIOUS
  <2>1. k \notin owned
    BY <1>1, <1>2 DEF Process
  <2>2. ledger[k].status \notin Unsettled
    BY <2>1 DEF owned, IsJob
  <2>3. k <= count /\ ledger[k].status \in EntryStatuses
    BY <1>2 DEF TypeOK, IsJob, Unused, Entry, Keys
  <2>4. ledger[k].status # "unused"
    BY <1>2, <2>3 DEF Entries
  <2> QED
    BY <2>2, <2>3, <2>4 DEF EntryStatuses, Settled
<1>5. Entries'
  <2>1. \A k \in Keys : Says(k)'
    BY <1>1, <1>2, <1>4 DEF Entries, Says, IsJob
  <2> QED
    BY <1>1, <1>2, <2>1 DEF Entries, Follows, IsJob, Attempts
<1>6. Process' /\ Progress'
  BY <1>1, <1>2 DEF Process, Progress, Submitting, Finished, owned, IsJob
<1>7. Evidence'
  <2>1. \A k \in Keys : Leaves(k)' /\ InPlace(k)' /\ Stands(k)'
    BY <1>1, <1>2 DEF Evidence, Leaves, InPlace, Stands, IsJob, Finished, Submitting
  <2> QED
    BY <1>1, <1>2, <2>1 DEF Evidence, IsJob
<1> QED
  BY <1>1, <1>3, <1>5, <1>6, <1>7 DEF Sound, Keeps

\* A step that reserves an entry, and goes on to submit its job.
LEMMA ReserveSound ==
  ASSUME Sound, NEW s \in JobStages, reserve(s), UNCHANGED epoch, UNCHANGED <<world, bounds>>,
         s # "manager" => \A k \in Current(s) : /\ s = "cost" /\ ledger[k].status = "terminal"
                                                /\ ledger[k].kind = "noisy",
         s = "cost" => /\ Cardinality(Attempts(epoch)) < MaxCostAttempts
                       /\ \A k \in Keys : ledger[k].stage = "unit-tests" => ledger[k].status \in Settled,
         s \in Stages => \A n \in PREREQUISITES(s) : Finished(n),
         s = "unit-tests" => UnitTests,
         pc \in {"launch", "stages", "cost", "decide"},
         UNCHANGED <<holder, me, todo, waiting, answer, why, looked>>,
         step' \in 1 .. 5, queue' \in Seq(Stages), Progress'
  PROVE  Sound' /\ Keeps
<1>1. /\ Entries' /\ Evidence'
      /\ cur' \in Keys /\ cur' = count + 1 /\ count' = count + 1 /\ pc' = "bsub" /\ tries' = 0
      /\ ledger' \in [Keys -> Entry] /\ ledger'[cur'].status = "reserved"
      /\ ledger'[cur'].stage = s /\ ledger'[cur'].epoch = epoch
      /\ lsf[cur'] = "none" /\ ledger[cur'] = Unused
      /\ \A k \in Keys \ {cur'} : ledger'[k] = ledger[k]
  BY ReservedSound
<1>2. /\ count \in Nat /\ MaxJobs \in Nat /\ LocalOK /\ Process
      /\ UNCHANGED <<created, state, lsf, body, outcome, kills, faults, hands>>
  BY LocalIs, ManagerAssumption DEF Sound, TypeOK, world, bounds
<1>3. TypeOK'
  <2>1. \A k \in Keys : k > count' => ledger'[k] = Unused /\ lsf'[k] = "none"
    BY <1>1, <1>2 DEF Sound, TypeOK, Keys
  <2>2. count' \in 0 .. MaxJobs
    BY <1>1, <1>2 DEF Keys
  <2> QED
    BY <1>1, <1>2, <2>1, <2>2 DEF Sound, TypeOK, Pcs
<1>4. \A k \in todo \cup waiting : k # cur'
  BY <1>1, <1>2 DEF Process, Unused, Unsettled, ACTIVE
<1>5. Process'
  <2>1. \A k \in todo' \cup waiting' : ledger'[k].status \in Unsettled
    BY <1>1, <1>2, <1>4 DEF Process, LocalOK
  <2>2. holder # "free" /\ todo' = {}
    BY <1>2 DEF Process
  <2>3. me' # 0 => me' \in 1 .. count' /\ ~IsJob(me)'
    <3>1. me # 0 => me \in 1 .. count /\ me # cur' /\ me \in Keys /\ ~IsJob(me)
      BY <1>1, <1>2 DEF Process, Keys, LocalOK
    <3> QED
      BY <1>1, <1>2, <3>1 DEF IsJob
  <2> QED
    BY <1>1, <1>2, <1>4, <2>1, <2>2, <2>3 DEF Process, Submitting
<1>6. Keeps
  BY <1>1 DEF Keeps, Unused, Settled
<1> QED
  BY <1>1, <1>3, <1>5, <1>6 DEF Sound

\* The manager's own entry is reserved.
LEMMA ReserveManagerSound ==
  ASSUME Sound, ReserveManager
  PROVE  Sound' /\ Keeps
<1>1. /\ pc = "launch" /\ reserve("manager") /\ UNCHANGED <<world, bounds>> /\ UNCHANGED state
      /\ UNCHANGED <<epoch, holder, me, step, queue, todo, waiting, answer, why, looked>>
  BY DEF ReserveManager, world
<1>2. step = 1 /\ queue = <<>> /\ step \in 1 .. 5 /\ queue \in Seq(Stages)
  BY <1>1 DEF Sound, Progress, TypeOK
<1>3. pc' = "bsub"
  BY <1>1 DEF reserve
<1>4. Progress'
  BY <1>1, <1>2, <1>3 DEF Progress, Submitting, Members
<1> QED
  BY <1>1, <1>2, <1>4, ReserveSound DEF JobStages, Stages

\* Edits of one entry, as a function of the ledger.
LEMMA EditIs ==
  ASSUME Sound, NEW k \in Keys, NEW e, Edit(k, e), ledger' = [ledger EXCEPT ![k] = e], UNCHANGED <<count, epoch>>
  PROVE  /\ Edits /\ ledger'[k] = e /\ \A j \in Keys \ {k} : ledger'[j] = ledger[j]
         /\ e.stage = ledger[k].stage  /\ k <= count
<1>1. e \in Entry /\ e.stage = ledger[k].stage /\ ledger[k].status \in Unsettled
  BY DEF Edit
<1>2. Edits
  BY <1>1 DEF Edits, update
<1>3. ledger \in [Keys -> Entry] /\ k <= count
  BY <1>1, UnsettledIs DEF Sound, TypeOK
<1> QED
  BY <1>1, <1>2, <1>3

\* A new process adopts or settles what an earlier one left.
LEMMA ReconcileSound ==
  ASSUME Sound, Reconcile
  PROVE  Sound' /\ Keeps
<1>1. /\ pc = "reconcile" /\ UNCHANGED <<world, bounds, state, lsf>>
      /\ UNCHANGED <<count, epoch, holder, me, pc, step, queue, waiting, cur, answer, tries, why>>
      /\ waiting = {} /\ holder # "free" /\ Process /\ Progress /\ LocalOK
  BY LocalIs DEF Reconcile, world, Sound, Process
<1>2. PICK k \in First(todo) :
         /\ \/ /\ ledger[k].status # "submitted"
               /\ \E e \in reconcile_by_name(k) : update(k, e)
               /\ looked' = looked \cup {k}
            \/ /\ ledger[k].status = "submitted"
               /\ \E a \in query(k) :
                     ledger' = IF a \in Ended THEN [ledger EXCEPT ![k] = settle(k, a, FALSE)] ELSE ledger
               /\ UNCHANGED looked
         /\ todo' = todo \ {k}
  BY DEF Reconcile
<1>3. k \in Keys /\ k \in todo /\ ledger[k].status \in Unsettled
  BY <1>1, <1>2 DEF First, Process, LocalOK
<1>4. /\ Edits
      /\ \A j \in Keys \ {k} : ledger'[j] = ledger[j]
  <2>1. ASSUME NEW e \in reconcile_by_name(k), update(k, e) PROVE <1>4!:
    BY <1>1, <1>3, <2>1, LookupEdits, EditIs DEF update
  <2>2. ASSUME NEW a \in query(k), a \in Ended, ledger' = [ledger EXCEPT ![k] = settle(k, a, FALSE)]
        PROVE  <1>4!:
    BY <1>1, <1>3, <2>2, SettlingEdits, EditIs
  <2>3. CASE ledger' = ledger
    BY <1>1, <2>3 DEF Edits
  <2> QED
    BY <1>2, <2>1, <2>2, <2>3
<1>5. LocalOK'
  BY <1>1, <1>2, <1>3 DEF LocalOK
<1>6. Process'
  <2>1. \A j \in todo' : ledger'[j].status \in Unsettled
    BY <1>1, <1>2, <1>4 DEF Process, LocalOK
  <2>2. me # 0 => me \in 1 .. count /\ ~IsJob(me)'
    BY <1>1, <1>4, EditedEntry, ManagerAssumption DEF Process, IsJob, Keys, Sound, TypeOK
  <2> QED
    BY <1>1, <2>1, <2>2 DEF Process, Submitting
<1>7. Progress'
  BY <1>1 DEF Progress, Finished, Submitting
<1> QED
  BY <1>1, <1>4, <1>5, <1>6, <1>7, EditSound DEF Submitting

\* The manager goes to its first group, reap to cancelling.
LEMMA ReconciledSound ==
  ASSUME Sound, Reconciled
  PROVE  Sound' /\ Keeps
<1>1. /\ pc = "reconcile" /\ todo = {} /\ UNCHANGED <<world, bounds, state, lsf>>
      /\ UNCHANGED <<ledger, count, epoch, holder, me, step, waiting, cur, answer, tries, why, looked>>
      /\ waiting = {} /\ holder # "free" /\ Process /\ Progress /\ LocalOK /\ step = 1 /\ queue = <<>>
  BY LocalIs DEF Reconciled, world, disk, Sound, Process, Progress
<1>2. \/ pc' = "stages" /\ queue' = Group(1) /\ todo' = {}
      \/ pc' = "cancel" /\ todo' = owned \cup ownedManagers /\ queue' = queue
  BY <1>1 DEF Reconciled
<1>3. LocalOK'
  <2>1. Group(1) \in Seq(Stages)
    BY DEF Group, Stages
  <2> QED
    BY <1>1, <1>2, <2>1, LocalIs DEF LocalOK, Pcs
<1>4. Process'
  BY <1>1, <1>2 DEF Process, Submitting, owned, ownedManagers, IsJob
<1>5. Progress'
  BY <1>1, <1>2 DEF Progress, Finished, Submitting, Members
<1> QED
  BY <1>1, <1>2, <1>3, <1>4, <1>5, EditSound DEF Edits, Submitting

\* An entry of a stage that runs once an epoch, while no settled one of it is followed.
LEMMA ActiveIsLatest ==
  ASSUME Sound, NEW k \in Keys, ledger[k].status \in Unsettled, IsJob(k)
  PROVE  k \in latest(ledger[k].stage)
<1>1. k <= count /\ ledger[k].epoch = epoch /\ ledger[k].status \notin {"unused", "rejected", "terminal"}
  BY UnsettledIs DEF Settled
<1>2. k \in Current(ledger[k].stage)
  BY <1>1 DEF Current
<1>3. ASSUME NEW j \in Current(ledger[k].stage) PROVE j <= k
  <2>1. j \in Keys /\ ledger[j].stage = ledger[k].stage /\ ledger[j].epoch = epoch /\ ledger[j].status # "unused"
    BY DEF Current
  <2>2. j <= count
    BY <2>1, ManagerAssumption DEF Sound, TypeOK, Unused, Keys
  <2>3. ~(k < j)
    BY <1>1, <2>1, <2>2 DEF Sound, Entries, Follows, IsJob
  <2> QED
    BY <2>1, <2>3, ManagerAssumption DEF Keys
<1> QED
  BY <1>2, <1>3 DEF latest

\* What the head of the queue and the rest of it are.
LEMMA QueueIs ==
  ASSUME NEW q \in Seq(Stages), q # <<>>
  PROVE  /\ Head(q) \in Stages /\ Head(q) \in Members(q) /\ Tail(q) \in Seq(Stages)
         /\ Members(Tail(q)) \subseteq Members(q)
         /\ \A s \in Members(q) : s = Head(q) \/ s \in Members(Tail(q))
<1>1. Len(q) \in Nat \ {0} /\ DOMAIN q = 1 .. Len(q) /\ Head(q) = q[1] /\ q[1] \in Stages
  BY EmptySeq, LenProperties, HeadTailProperties
<1>2. Tail(q) \in Seq(Stages) /\ Len(Tail(q)) = Len(q) - 1 /\ DOMAIN Tail(q) = 1 .. Len(q) - 1
      /\ \A i \in 1 .. Len(q) - 1 : Tail(q)[i] = q[i + 1]
  BY <1>1
<1>3. ASSUME NEW i \in DOMAIN q PROVE q[i] = q[1] \/ q[i] \in Members(Tail(q))
  <2>1. CASE i = 1
    BY <2>1
  <2>2. CASE i # 1
    <3>1. i - 1 \in 1 .. Len(q) - 1 /\ Tail(q)[i - 1] = q[i]
      BY <1>1, <1>2, <2>2
    <3> QED
      BY <1>2, <3>1 DEF Members
  <2> QED
    BY <2>1, <2>2
<1>4. Members(Tail(q)) \subseteq Members(q)
  BY <1>1, <1>2 DEF Members
<1>5. q[1] \in Members(q)
  BY <1>1 DEF Members
<1>6. \A s \in Members(q) : s = q[1] \/ s \in Members(Tail(q))
  BY <1>3 DEF Members
<1> QED
  BY <1>1, <1>2, <1>4, <1>5, <1>6

\* The groups of the stages.
LEMMA GroupIs ==
  /\ Members(Group(1)) = {"compile"} /\ Members(Group(2)) = {"quality"}
  /\ Members(Group(3)) = {"correctness"} \cup IF UnitTests THEN {"unit-tests"} ELSE {}
  /\ \A i \in 1 .. 3 : Group(i) \in Seq(Stages)
<1>1. Group(1) = <<"compile">> /\ Group(2) = <<"quality">>
      /\ Group(3) = IF UnitTests THEN <<"correctness", "unit-tests">> ELSE <<"correctness">>
  BY DEF Group
<1>2. \A x : Members(<<x>>) = {x}
  BY DEF Members
<1>3. \A x, y : Members(<<x, y>>) = {x, y}
  BY DEF Members
<1>4. Group(1) \in Seq(Stages) /\ Group(2) \in Seq(Stages) /\ Group(3) \in Seq(Stages)
  <2>1. <<"compile">> \in Seq(Stages) /\ <<"quality">> \in Seq(Stages) /\ <<"correctness">> \in Seq(Stages)
    BY DEF Stages
  <2>2. <<"correctness", "unit-tests">> \in Seq(Stages)
    BY DEF Stages
  <2> QED
    BY <1>1, <2>1, <2>2
<1> QED
  BY <1>1, <1>2, <1>3, <1>4

\* A stage is adopted, left or reserved: reserved only without an entry in this epoch.
LEMMA ConsiderSound ==
  ASSUME Sound, ConsiderStage
  PROVE  Sound' /\ Keeps
<1> DEFINE s == Head(queue)
<1>1. /\ pc = "stages" /\ queue # <<>> /\ queue' = Tail(queue)
      /\ UNCHANGED <<holder, me, step, todo, answer, why, looked>> /\ UNCHANGED <<world, bounds, state, lsf>>
      /\ step \in 1 .. 3 /\ todo = {} /\ holder # "free"
      /\ Process /\ Progress /\ LocalOK /\ queue \in Seq(Stages)
  BY LocalIs DEF ConsiderStage, world, Sound, Process, Progress, LocalOK
<1>2. /\ s \in Stages /\ s \in Members(queue) /\ queue' \in Seq(Stages)
      /\ Members(queue') \subseteq Members(queue)
      /\ \A t \in Members(queue) : t = s \/ t \in Members(queue')
      /\ Members(queue) \subseteq Members(Group(step))
  BY <1>1, QueueIs DEF Progress
<1> HIDE DEF s
<1>3. \/ /\ UNCHANGED <<ledger, count, epoch, pc, cur, tries>>
         /\ \/ \E k \in latest(s) : ledger[k].status \in ACTIVE /\ waiting' = waiting \cup {k}
            \/ /\ \A k \in latest(s) : ledger[k].status \notin ACTIVE
               /\ waiting' = waiting
      \/ Current(s) = {} /\ state[s].status \notin FINAL /\ reserve(s) /\ UNCHANGED <<epoch, waiting>>
  BY DEF ConsiderStage, s, disk
<1>4. CASE /\ UNCHANGED <<ledger, count, epoch, pc, cur, tries>>
           /\ \/ \E k \in latest(s) : ledger[k].status \in ACTIVE /\ waiting' = waiting \cup {k}
              \/ /\ \A k \in latest(s) : ledger[k].status \notin ACTIVE
                 /\ waiting' = waiting
  <2>1. /\ waiting \subseteq waiting' /\ waiting' \subseteq Keys
        /\ \A k \in waiting' : ledger[k].status \in Unsettled
    BY <1>1, <1>4 DEF Process, LocalOK, latest, Current, Unsettled
  <2>2. LocalOK'
    BY <1>1, <1>2, <1>4, <2>1 DEF LocalOK
  <2>3. Process'
    BY <1>1, <1>4, <2>1 DEF Process, Submitting, owned, IsJob
  <2>4. ASSUME step = 3, NEW k \in Keys, ledger[k].stage = "unit-tests", ledger[k].status \in ACTIVE
        PROVE  k \in waiting' \/ "unit-tests" \in Members(queue')
    <3>1. k \in waiting \/ "unit-tests" \in Members(queue)
      BY <1>1, <2>4 DEF Progress, Submitting
    <3>2. CASE k \notin waiting /\ s = "unit-tests"
      <4>1. k \in latest(s)
        BY <2>4, <3>2, ActiveIsLatest DEF Unsettled, IsJob
      <4>2. \A j \in latest(s) : j = k
        BY <4>1, ManagerAssumption DEF latest, Current, Keys
      <4> QED
        BY <1>4, <2>4, <4>1, <4>2
    <3> QED
      BY <1>2, <2>1, <3>1, <3>2
  <2>5. Progress'
    BY <1>1, <1>2, <1>4, <2>4 DEF Progress, Finished, Submitting
  <2> QED
    BY <1>1, <1>4, <2>2, <2>3, <2>5, EditSound DEF Edits, Submitting
<1>5. CASE Current(s) = {} /\ state[s].status \notin FINAL /\ reserve(s) /\ UNCHANGED <<epoch, waiting>>
  <2>1. /\ ledger' = [ledger EXCEPT ![count + 1] = [Unused EXCEPT !.stage = s, !.epoch = epoch, !.status = "reserved"]]
        /\ cur' = count + 1 /\ pc' = "bsub" /\ count < MaxJobs
    BY <1>5 DEF reserve
  <2>2. /\ s # "cost"
        /\ s = "unit-tests" => UnitTests
    BY <1>1, <1>2, GroupIs
  <2>3. \A n \in PREREQUISITES(s) : Finished(n)
    BY <1>1, <1>2, GroupIs DEF Progress, PREREQUISITES, Needs
  <2>4. ASSUME step = 3, NEW k \in Keys, ledger'[k].stage = "unit-tests", ledger'[k].status \in ACTIVE
        PROVE  k \in waiting' \/ "unit-tests" \in Members(queue') \/ k = cur'
    <3>1. CASE k # cur'
      <4>1. ledger'[k] = ledger[k]
        BY <2>1, <3>1 DEF Sound, TypeOK
      <4>2. k \in waiting \/ "unit-tests" \in Members(queue)
        BY <1>1, <2>4, <4>1 DEF Progress, Submitting
      <4>3. s # "unit-tests"
        <5>1. k \in latest(ledger[k].stage)
          BY <2>4, <4>1, ActiveIsLatest DEF Unsettled, IsJob
        <5> QED
          BY <1>5, <2>4, <4>1, <5>1 DEF latest
      <4> QED
        BY <1>2, <1>5, <4>2, <4>3
    <3> QED
      BY <3>1
  <2>5. Progress'
    BY <1>1, <1>2, <2>1, <2>4 DEF Progress, Finished, Submitting
  <2>6. s \in JobStages /\ step' \in 1 .. 5 /\ UNCHANGED epoch /\ pc \in {"launch", "stages", "cost", "decide"}
    BY <1>1, <1>2, <1>5 DEF JobStages
  <2> QED
    BY <1>1, <1>2, <1>5, <2>2, <2>3, <2>5, <2>6, ReserveSound
<1> QED
  BY <1>3, <1>4, <1>5

\* The stages of a group are submitted.
LEMMA SubmittedSound ==
  ASSUME Sound, StagesSubmitted
  PROVE  Sound' /\ Keeps
<1>1. /\ pc = "stages" /\ queue = <<>> /\ pc' = "wait"
      /\ UNCHANGED <<ledger, count, epoch, holder, me, step, queue, todo, waiting, cur, answer, tries, why, looked>>
      /\ UNCHANGED <<world, bounds, state, lsf>> /\ LocalOK /\ Process /\ Progress
  BY LocalIs DEF StagesSubmitted, world, disk, Sound
<1>2. LocalOK'
  BY <1>1 DEF LocalOK, Pcs
<1>3. Process'
  BY <1>1 DEF Process, Submitting, owned, IsJob
<1>4. Progress'
  BY <1>1 DEF Progress, Finished, Submitting
<1> QED
  BY <1>1, <1>2, <1>3, <1>4, EditSound DEF Edits, Submitting

\* The manager's own entry stays a manager's.
LEMMA MeIs ==
  ASSUME Sound, Edits, holder' = holder, me' = me
  PROVE  me' # 0 => me' \in 1 .. count' /\ ~IsJob(me)'
BY EditedEntry, ManagerAssumption DEF Edits, Process, IsJob, Keys, Sound, TypeOK

\* The entry records bsub's answer; a rejected submission is tried again or given up.
LEMMA RecordSound ==
  ASSUME Sound, RecordAnswer
  PROVE  Sound' /\ Keeps
<1>1. /\ pc = "answered" /\ holder = "manager" /\ answer' = "none" /\ UNCHANGED <<world, bounds, state, lsf>>
      /\ UNCHANGED <<count, epoch, holder, me, step, queue, todo, why, looked>>
      /\ LocalOK /\ Process /\ Progress
      /\ cur = count /\ cur \in Keys /\ cur \notin waiting /\ ledger[cur].status = "reserved"
      /\ todo = {} /\ answer # "none"
      /\ answer = "rejected" => lsf[cur] = "none"
  BY LocalIs DEF RecordAnswer, world, Sound, Process, Submitting
<1>2. ledger[cur] \in Entry /\ ledger \in [Keys -> Entry] /\ ledger[cur].status \in Unsettled
      /\ ledger[cur].status \notin Settled
  BY <1>1 DEF Sound, TypeOK, Unsettled, ACTIVE, Settled
<1>3. CASE /\ answer \in {"accepted", "ambiguous"}
           /\ update(cur, [ledger[cur] EXCEPT !.status = IF answer = "accepted" THEN "submitted" ELSE "ambiguous"])
           /\ waiting' = waiting \cup {cur}
           /\ pc' = IF step <= 3 THEN "stages" ELSE "wait"
           /\ cur' = 0 /\ tries' = 0
  <2> DEFINE status == IF answer = "accepted" THEN "submitted" ELSE "ambiguous"
             e == [ledger[cur] EXCEPT !.status = status]
  <2>1. status \in ACTIVE \ {"reserved"}
    BY DEF ACTIVE
  <2> HIDE DEF status
  <2>2. Edit(cur, e) /\ e.status = status /\ e.stage = ledger[cur].stage
    <3>1. IsJob(cur) => ledger[cur].kind \notin Recorded
      BY <1>1, <1>2, UnsettledIs
    <3> QED
      BY <1>1, <1>2, <2>1, <3>1 DEF Edit, Entry, EntryStatuses, Unsettled, ACTIVE, Settled
  <2>3. ledger' = [ledger EXCEPT ![cur] = e]
    BY <1>3 DEF update, status
  <2> HIDE DEF e
  <2>4. Edits /\ ledger'[cur] = e /\ \A j \in Keys \ {cur} : ledger'[j] = ledger[j]
    BY <1>1, <2>2, <2>3, EditIs
  <2>5. LocalOK'
    BY <1>1, <1>3 DEF LocalOK, Pcs
  <2>6. Process'
    <3>1. \A k \in waiting' : ledger'[k].status \in Unsettled
      BY <1>1, <1>3, <2>1, <2>2, <2>4 DEF Process, LocalOK, Unsettled
    <3> QED
      BY <1>1, <1>3, <2>4, <3>1, MeIs DEF Process, Submitting
  <2>7. Progress'
    <3>1. step = 4 => ledger[cur].stage # "unit-tests"
      BY <1>1, <1>2 DEF Progress, Submitting
    <3> QED
      BY <1>1, <1>3, <2>2, <2>4, <3>1 DEF Progress, Finished, Submitting, LocalOK
  <2> QED
    BY <1>1, <1>3, <2>4, <2>5, <2>6, <2>7, EditSound DEF Submitting
<1>4. CASE answer = "rejected" /\ tries' = tries + 1 /\ pc' = "bsub" /\ UNCHANGED <<ledger, cur, waiting>>
  <2>1. LocalOK'
    BY <1>1, <1>4 DEF LocalOK, Pcs
  <2>2. Edits
    BY <1>1, <1>4 DEF Edits
  <2>3. Process'
    BY <1>1, <1>4, <2>2, MeIs DEF Process, Submitting
  <2>4. Progress'
    BY <1>1, <1>4 DEF Progress, Finished, Submitting
  <2> QED
    BY <1>1, <1>4, <2>1, <2>2, <2>3, <2>4, EditSound DEF Submitting
<1>5. CASE /\ answer = "rejected"
           /\ update(cur, [ledger[cur] EXCEPT !.status = "rejected"])
           /\ pc' = IF step <= 3 THEN "stages" ELSE IF step = 4 THEN "finish" ELSE "end"
           /\ cur' = 0 /\ tries' = 0 /\ UNCHANGED waiting
  <2> DEFINE e == [ledger[cur] EXCEPT !.status = "rejected"]
  <2>2. Edit(cur, e) /\ e.status = "rejected" /\ e.stage = ledger[cur].stage
    <3>1. IsJob(cur) => ledger[cur].kind \notin Recorded
      BY <1>1, <1>2, UnsettledIs
    <3> QED
      BY <1>1, <1>2, <1>5, <3>1 DEF Edit, Entry, EntryStatuses, Settled
  <2>3. ledger' = [ledger EXCEPT ![cur] = e]
    BY <1>5 DEF update
  <2> HIDE DEF e
  <2>4. Edits /\ ledger'[cur] = e /\ \A j \in Keys \ {cur} : ledger'[j] = ledger[j]
    BY <1>1, <2>2, <2>3, EditIs
  <2>5. LocalOK'
    BY <1>1, <1>5 DEF LocalOK, Pcs
  <2>6. Process'
    <3>1. \A k \in waiting' : ledger'[k].status \in Unsettled
      BY <1>1, <1>5, <2>4 DEF Process, LocalOK
    <3> QED
      BY <1>1, <1>5, <2>4, <3>1, MeIs DEF Process, Submitting
  <2>7. Progress'
    BY <1>1, <1>5, <2>2, <2>4 DEF Progress, Finished, Submitting, LocalOK, ACTIVE
  <2> QED
    BY <1>1, <1>5, <2>4, <2>5, <2>6, <2>7, EditSound DEF Submitting
<1> QED
  BY <1>3, <1>4, <1>5 DEF RecordAnswer

\* The launcher records the answer and goes.
LEMMA LauncherSound ==
  ASSUME Sound, LauncherDone
  PROVE  Sound' /\ Keeps
<1>1. /\ pc = "answered" /\ Release /\ UNCHANGED <<count, epoch, world, bounds, state>>
      /\ update(cur, [ledger[cur] EXCEPT !.status = IF answer = "accepted" THEN "submitted" ELSE answer])
      /\ cur \in Keys /\ ledger[cur].status = "reserved"
      /\ answer \in {"accepted", "ambiguous", "rejected"}
      /\ answer = "rejected" => lsf[cur] = "none"
  BY DEF LauncherDone, world, Sound, Process, Submitting, TypeOK
<1> DEFINE status == IF answer = "accepted" THEN "submitted" ELSE answer
           e == [ledger[cur] EXCEPT !.status = status]
<1>2. /\ status \in {"submitted", "ambiguous", "rejected"}
      /\ status = "rejected" => lsf[cur] = "none"
  BY <1>1
<1> HIDE DEF status
<1>3. ledger[cur] \in Entry /\ ledger[cur].status \in Unsettled
  BY <1>1 DEF Sound, TypeOK, Unsettled, ACTIVE
<1>4. Edit(cur, e)
  <2>1. IsJob(cur) => ledger[cur].kind \notin Recorded
    BY <1>1, <1>3, UnsettledIs
  <2> QED
    BY <1>1, <1>2, <1>3, <2>1 DEF Edit, Entry, EntryStatuses, Settled, Unsettled, ACTIVE
<1>5. ledger' = [ledger EXCEPT ![cur] = e]
  BY <1>1 DEF update, status
<1> HIDE DEF e
<1>6. Edits /\ pc' = "off"
  BY <1>1, <1>4, <1>5, EditIs DEF Release
<1> QED
  BY <1>1, <1>6, ReleaseLocal, EditSound DEF Submitting

\* A poll looks a job up, settles it or gives it up.
LEMMA ObserveSound ==
  ASSUME Sound, NEW k \in Keys, Observe(k)
  PROVE  Sound' /\ Keeps
<1>1. /\ pc = "wait" /\ k \in waiting /\ UNCHANGED <<world, bounds, state, lsf>>
      /\ UNCHANGED <<count, epoch, holder, me, pc, step, queue, todo, cur, answer, tries, why>>
      /\ LocalOK /\ Process /\ Progress /\ todo = {} /\ holder # "free"
      /\ ledger[k].status \in Unsettled /\ ledger[k].status \notin Settled
  BY LocalIs DEF Observe, world, Sound, Process, Unsettled, ACTIVE, Settled
<1>2. /\ looked' = looked \cup {k} \/ looked' = looked
      /\ \/ \E e \in reconcile_by_name(k) :
               /\ e.status # "unreconciled" /\ update(k, e) /\ waiting' = waiting
         \/ \E e \in reconcile_by_name(k) :
               /\ update(k, lose(e)) /\ waiting' = waiting \ {k}
         \/ \E a \in query(k) : a \in Ended /\ update(k, settle(k, a, FALSE)) /\ waiting' = waiting \ {k}
         \/ update(k, lose(ledger[k])) /\ waiting' = waiting \ {k}
  BY DEF Observe
<1> DEFINE Changes(e) == /\ Edit(k, e) /\ ledger' = [ledger EXCEPT ![k] = e]
                         /\ \/ e.status \in Unsettled /\ waiting' = waiting
                            \/ e.status \notin ACTIVE /\ waiting' = waiting \ {k}
<1>3. PICK e : Changes(e)
  <2>1. ASSUME NEW e \in reconcile_by_name(k), e.status # "unreconciled", update(k, e), waiting' = waiting
        PROVE  \E x : Changes(x)
    BY <1>1, <2>1, LookupEdits DEF update
  <2>2. ASSUME NEW e \in reconcile_by_name(k), update(k, lose(e)), waiting' = waiting \ {k}
        PROVE  \E x : Changes(x)
    BY <1>1, <2>2, LookupEdits DEF update, ACTIVE
  <2>3. ASSUME NEW a \in query(k), a \in Ended, update(k, settle(k, a, FALSE)), waiting' = waiting \ {k}
        PROVE  \E x : Changes(x)
    BY <1>1, <2>3, SettlingEdits DEF update, ACTIVE
  <2>4. CASE update(k, lose(ledger[k])) /\ waiting' = waiting \ {k}
    BY <1>1, <2>4, LosingEdits DEF update, ACTIVE
  <2> QED
    BY <1>2, <2>1, <2>2, <2>3, <2>4
<1>4. Edits /\ ledger'[k] = e /\ (\A j \in Keys \ {k} : ledger'[j] = ledger[j]) /\ e.stage = ledger[k].stage
  BY <1>1, <1>3, EditIs
<1>5. LocalOK'
  BY <1>1, <1>2, <1>3 DEF LocalOK
<1>6. Process'
  <2>1. \A j \in waiting' : ledger'[j].status \in Unsettled
    BY <1>1, <1>3, <1>4 DEF Process, LocalOK
  <2> QED
    BY <1>1, <1>4, <2>1, MeIs DEF Process, Submitting
<1>7. Progress'
  <2>1. step = 4 => ledger[k].stage # "unit-tests"
    BY <1>1 DEF Progress
  <2> QED
    BY <1>1, <1>3, <1>4, <2>1 DEF Progress, Finished, Submitting
<1> QED
  BY <1>1, <1>4, <1>5, <1>6, <1>7, EditSound DEF Submitting

\* The process turns to cancelling all it owns.
LEMMA CancellingLocal ==
  ASSUME Sound, NEW reason \in {"deadline", "stopped"}, Cancelling(reason), holder # "free",
         UNCHANGED <<ledger, count, epoch, state>>
  PROVE  LocalOK' /\ Process' /\ Progress'
<1>1. /\ pc' = "cancel" /\ why' = reason /\ todo' = owned /\ waiting' = {} /\ queue' = <<>>
      /\ cur' = 0 /\ answer' = "none" /\ tries' = 0 /\ UNCHANGED <<holder, me, step, looked>>
  BY DEF Cancelling
<1>2. LocalOK'
  BY <1>1, LocalIs DEF LocalOK, Pcs
<1>3. Process'
  BY <1>1 DEF Sound, Process, Submitting, owned, IsJob
<1>4. Progress'
  BY <1>1, AwayKeepsProgress
<1> QED
  BY <1>2, <1>3, <1>4

\* The deadline ends a wait.
LEMMA DeadlineSound ==
  ASSUME Sound, DeadlineReached
  PROVE  Sound' /\ Keeps
<1>1. /\ pc = "wait" /\ Cancelling("deadline") /\ UNCHANGED <<world, bounds, state>>
      /\ UNCHANGED <<ledger, count, epoch>> /\ pc' = "cancel"
  BY DEF DeadlineReached, Cancelling, disk, world
<1>2. holder # "free"
  BY <1>1 DEF Sound, Process
<1> QED
  BY <1>1, <1>2, CancellingLocal, EditSound DEF Edits, Submitting

\* A group is over: the next one begins only when the stage before it is final, and cost only
\* when unit-tests is settled.
LEMMA WaitedSound ==
  ASSUME Sound, Waited
  PROVE  Sound' /\ Keeps
<1>1. /\ pc = "wait" /\ waiting = {} /\ UNCHANGED <<world, bounds, state, lsf>>
      /\ UNCHANGED <<ledger, count, epoch>> /\ todo = {} /\ holder # "free"
      /\ LocalOK /\ Process /\ Progress
  BY LocalIs DEF Waited, world, disk, Sound, Process
<1>2. CASE Cancelling("stopped")
  <2>1. pc' = "cancel"
    BY <1>2 DEF Cancelling
  <2> QED
    BY <1>1, <1>2, <2>1, CancellingLocal, EditSound DEF Edits, Submitting
<1>3. ASSUME UNCHANGED <<holder, me, todo, waiting, cur, answer, tries, why, looked>>,
             pc' \in {"end", "finish"}, UNCHANGED <<step, queue>>
      PROVE  Sound' /\ Keeps
  <2>1. LocalOK'
    BY <1>1, <1>3 DEF LocalOK, Pcs
  <2>2. Process'
    BY <1>1, <1>3 DEF Process, Submitting, owned, IsJob
  <2>3. Progress'
    BY <1>1, <1>3, AwayKeepsProgress
  <2> QED
    BY <1>1, <1>3, <2>1, <2>2, <2>3, EditSound DEF Edits, Submitting
<1>4. ASSUME UNCHANGED <<holder, me, todo, waiting, cur, answer, tries, why, looked>>,
             \/ /\ step' \in {2, 3} /\ pc' = "stages" /\ queue' = Group(step')
             \/ /\ step' = 4 /\ pc' = "cost" /\ queue' = queue
                /\ \A k \in Keys : ledger[k].stage = "unit-tests" => ledger[k].status \in Settled,
             step' \in 2 .. 4 => Finished("compile"), step' \in 3 .. 4 => Finished("quality"),
             step' = 4 => Finished("correctness")
      PROVE  Sound' /\ Keeps
  <2>1. LocalOK'
    BY <1>1, <1>4, GroupIs DEF LocalOK, Pcs
  <2>2. Process'
    BY <1>1, <1>4 DEF Process, Submitting, owned, IsJob
  <2>3. ASSUME step' = 3, NEW k \in Keys, ledger[k].stage = "unit-tests"
        PROVE  "unit-tests" \in Members(queue')
    <3>1. UnitTests
      BY <2>3 DEF Sound, Entries
    <3> QED
      BY <1>4, <2>3, <3>1, GroupIs
  <2>4. Progress'
    BY <1>1, <1>4, <2>3 DEF Progress, Submitting, Finished
  <2> QED
    BY <1>1, <1>4, <2>1, <2>2, <2>4, EditSound DEF Edits, Submitting
<1>5. ASSUME step = 3, \A k \in owned : ledger[k].status # "unreconciled",
             NEW k \in Keys, ledger[k].stage = "unit-tests"
      PROVE  ledger[k].status \in Settled
  <2>1. k <= count /\ ledger[k].status \in EntryStatuses /\ IsJob(k)
    BY <1>5 DEF Sound, TypeOK, IsJob, Unused, Entry, Keys
  <2>2. ledger[k].status # "unused"
    BY <2>1 DEF Sound, Entries
  <2>3. ledger[k].status \notin ACTIVE
    <3>1. queue = <<>> /\ Members(queue) = {}
      BY <1>1, <1>5 DEF Progress, Members
    <3> QED
      BY <1>1, <1>5, <3>1 DEF Progress, Submitting
  <2>4. ledger[k].status # "unreconciled"
    BY <1>5, <2>1 DEF owned, Unsettled, IsJob
  <2> QED
    BY <2>1, <2>2, <2>3, <2>4 DEF EntryStatuses, Unsettled, Settled
<1>6. ASSUME step <= 3 => \A k \in owned : ledger[k].status # "unreconciled",
             \/ step = 1 /\ ~created /\ Goto("end")
             \/ step = 1 /\ created /\ NextStage("compile", 2)
             \/ step = 2 /\ NextStage("quality", 3)
             \/ step = 3 /\ NextStage("correctness", 4)
             \/ step = 4 /\ Goto("cost")
             \/ step = 5 /\ Goto("end"),
             UNCHANGED <<holder, me, todo, waiting, cur, answer, tries, why, looked>>
      PROVE  Sound' /\ Keeps
  <2>1. CASE Goto("end")
    BY <1>3, <1>6, <2>1 DEF Goto
  <2>2. CASE step = 1 /\ NextStage("compile", 2)
    <3>1. \/ pc' = "finish" /\ UNCHANGED <<step, queue>>
          \/ Finished("compile") /\ step' = 2 /\ pc' = "stages" /\ queue' = Group(step')
      BY <2>2 DEF NextStage, Goto, Finished
    <3> QED
      BY <1>3, <1>4, <1>6, <3>1
  <2>3. CASE step = 2 /\ NextStage("quality", 3)
    <3>1. \/ pc' = "finish" /\ UNCHANGED <<step, queue>>
          \/ Finished("quality") /\ step' = 3 /\ pc' = "stages" /\ queue' = Group(step')
      BY <2>3 DEF NextStage, Goto, Finished
    <3>2. Finished("compile")
      BY <1>1, <2>3 DEF Progress
    <3> QED
      BY <1>3, <1>4, <1>6, <3>1, <3>2
  <2>4. CASE step = 3 /\ NextStage("correctness", 4)
    <3>1. \/ pc' = "finish" /\ UNCHANGED <<step, queue>>
          \/ Finished("correctness") /\ step' = 4 /\ pc' = "cost" /\ queue' = queue
      BY <2>4 DEF NextStage, Goto, Finished
    <3>2. Finished("compile") /\ Finished("quality")
      BY <1>1, <2>4 DEF Progress
    <3>3. \A k \in Keys : ledger[k].stage = "unit-tests" => ledger[k].status \in Settled
      BY <1>5, <1>6, <2>4
    <3> QED
      BY <1>3, <1>4, <1>6, <3>1, <3>2, <3>3
  <2>5. CASE step = 4 /\ Goto("cost")
    <3>1. \A k \in Keys : ledger[k].stage = "unit-tests" => ledger[k].status \in Settled
      BY <1>1, <2>5 DEF Progress
    <3>2. Finished("compile") /\ Finished("quality") /\ Finished("correctness")
      BY <1>1, <2>5 DEF Progress
    <3>3. step' = 4 /\ pc' = "cost" /\ queue' = queue
      BY <2>5 DEF Goto
    <3> QED
      BY <1>4, <1>6, <3>1, <3>2, <3>3
  <2> QED
    BY <1>6, <2>1, <2>2, <2>3, <2>4, <2>5
<1> QED
  BY <1>2, <1>6 DEF Waited

\* The pipeline ends; to decide, nothing may be owned.
LEMMA FinishSound ==
  ASSUME Sound, Finish
  PROVE  Sound' /\ Keeps
<1>1. /\ pc = "finish" /\ pc' \in {"decide", "end"}
      /\ pc' = "decide" => owned = {}
      /\ UNCHANGED <<ledger, count, epoch, holder, me, step, queue, todo, waiting, cur, answer, tries, why, looked>>
      /\ UNCHANGED <<world, bounds, state, lsf>> /\ LocalOK /\ Process /\ Progress
  BY LocalIs DEF Finish, world, disk, Sound
<1>2. LocalOK'
  BY <1>1 DEF LocalOK, Pcs
<1>3. Process'
  BY <1>1 DEF Process, Submitting, owned, IsJob
<1>4. Progress'
  BY <1>1, AwayKeepsProgress
<1> QED
  BY <1>1, <1>2, <1>3, <1>4, EditSound DEF Edits, Submitting

\* The cost loop waits, ends, or reserves one more attempt: all before it were noisy, so the
\* budget counts every one of them.
LEMMA CostLoopSound ==
  ASSUME Sound, CostLoop
  PROVE  Sound' /\ Keeps
<1>1. /\ pc = "cost" /\ UNCHANGED <<holder, me, step, queue, todo, answer, why, looked>>
      /\ UNCHANGED <<world, bounds, state, lsf>> /\ todo = {} /\ holder # "free" /\ step = 4
      /\ Finished("compile") /\ Finished("quality") /\ Finished("correctness")
      /\ LocalOK /\ Process /\ Progress /\ Entries
      /\ \A k \in Keys : ledger[k].stage = "unit-tests" => ledger[k].status \in Settled
  BY LocalIs DEF CostLoop, world, Sound, Process, Progress
<1>2. ASSUME UNCHANGED <<ledger, count, epoch, cur, tries>>, pc' \in {"wait", "finish"},
             waiting' \subseteq Keys, \A k \in waiting' : ledger[k].status \in Unsettled
      PROVE  Sound' /\ Keeps
  <2>1. LocalOK'
    BY <1>1, <1>2 DEF LocalOK, Pcs
  <2>2. Process'
    BY <1>1, <1>2 DEF Process, Submitting, owned, IsJob
  <2>3. Progress'
    BY <1>1, <1>2 DEF Progress, Submitting, Finished
  <2> QED
    BY <1>1, <1>2, <2>1, <2>2, <2>3, EditSound DEF Edits, Submitting
<1>3. CASE /\ \E k \in latest("cost") : ledger[k].status \in ACTIVE /\ waiting' = {k}
           /\ pc' = "wait" /\ UNCHANGED <<disk, cur, tries>>
  BY <1>2, <1>3 DEF latest, Current, Unsettled, disk
<1>4. CASE pc' = "finish" /\ UNCHANGED <<disk, cur, tries, waiting>>
  BY <1>1, <1>2, <1>4 DEF disk, Process, LocalOK
<1>5. CASE decision /\ reserve("cost") /\ UNCHANGED <<epoch, waiting>>
  <2>1. \A k \in Current("cost") : ledger[k].status = "terminal" /\ ledger[k].kind = "noisy"
    <3> SUFFICES ASSUME NEW k \in Current("cost")
                 PROVE  ledger[k].status = "terminal" /\ ledger[k].kind = "noisy"
      OBVIOUS
    <3>1. PICK l \in latest("cost") : l \in Current("cost") /\ k <= l
      BY LatestIs
    <3>2. /\ k \in Keys /\ l \in Keys /\ ledger[l].kind = "noisy" /\ IsJob(l)
          /\ ledger[k].stage = "cost" /\ ledger[l].stage = "cost"
          /\ ledger[k].epoch = epoch /\ ledger[l].epoch = epoch
          /\ ledger[k].status \notin {"unused", "rejected"} /\ ledger[l].status # "unused"
      BY <1>5, <3>1 DEF decision, Current, IsJob
    <3>3. ledger[l].status = "terminal"
      BY <1>1, <3>2 DEF Entries, Says, BodyEnds, Recorded
    <3>4. l <= count
      BY <3>2, ManagerAssumption DEF Sound, TypeOK, Unused, Keys
    <3>5. CASE k = l
      BY <3>2, <3>3, <3>5
    <3>6. CASE k # l
      <4>1. k < l
        BY <3>1, <3>2, <3>6, ManagerAssumption DEF Keys
      <4>2. Follows(k, l)
        BY <3>2, <3>4, <4>1 DEF Follows, IsJob
      <4> QED
        BY <1>1, <3>2, <4>2 DEF Entries
    <3> QED
      BY <3>5, <3>6
  <2>2. Cardinality(Attempts(epoch)) < MaxCostAttempts
    <3>1. {k \in Current("cost") : ledger[k].kind \notin {"skipped", "already-final"}} = Attempts(epoch)
      BY <2>1 DEF Current, Attempts
    <3> QED
      BY <1>5, <3>1 DEF decision, budget_used
  <2>3. \A n \in PREREQUISITES("cost") : Finished(n)
    BY <1>1 DEF PREREQUISITES, Needs
  <2>4. /\ ledger' = [ledger EXCEPT ![count + 1] = [Unused EXCEPT !.stage = "cost", !.epoch = epoch,
                                                                  !.status = "reserved"]]
        /\ pc' = "bsub" /\ cur' = count + 1
    BY <1>5 DEF reserve
  <2>5. \A k \in Keys : ledger'[k].stage = "unit-tests" => ledger'[k].status \in Settled
    BY <1>1, <2>4 DEF Sound, TypeOK, Unused
  <2>6. Progress'
    BY <1>1, <2>4, <2>5 DEF Progress, Submitting, Finished
  <2>7. "cost" \in JobStages /\ "cost" # "unit-tests" /\ step' \in 1 .. 5 /\ queue' \in Seq(Stages)
    BY <1>1 DEF JobStages, Stages, LocalOK
  <2> QED
    BY <1>1, <1>5, <2>1, <2>2, <2>3, <2>6, <2>7, ReserveSound
<1> QED
  BY <1>3, <1>4, <1>5 DEF CostLoop

\* The decision is followed by at most one clean job of an epoch.
LEMMA DecideSound ==
  ASSUME Sound, Decide
  PROVE  Sound' /\ Keeps
<1>1. /\ pc = "decide" /\ UNCHANGED <<holder, me, queue, todo, waiting, answer, why, looked>>
      /\ UNCHANGED <<world, bounds, state, lsf>> /\ holder # "free"
      /\ LocalOK /\ Process /\ Progress
  BY LocalIs DEF Decide, world, Sound, Process
<1>2. CASE pc' = "end" /\ UNCHANGED <<disk, step, cur, tries>>
  <2>1. LocalOK'
    BY <1>1, <1>2 DEF LocalOK, Pcs
  <2>2. Process'
    BY <1>1, <1>2 DEF Process, Submitting, disk, IsJob
  <2>3. Progress'
    BY <1>1, <1>2, AwayKeepsProgress
  <2> QED
    BY <1>1, <1>2, <2>1, <2>2, <2>3, EditSound DEF Edits, Submitting, disk
<1>3. CASE Current("clean") = {} /\ reserve("clean") /\ step' = 5 /\ UNCHANGED epoch
  <2>1. pc' = "bsub"
    BY <1>3 DEF reserve
  <2>2. Progress'
    BY <1>1, <1>3, <2>1 DEF Progress, Submitting
  <2>3. "clean" \in JobStages /\ "clean" \notin Stages \cup {"cost", "unit-tests"}
        /\ step' \in 1 .. 5 /\ queue' \in Seq(Stages)
    BY <1>1, <1>3 DEF JobStages, Stages, LocalOK
  <2> QED
    BY <1>1, <1>3, <2>2, <2>3, ReserveSound
<1> QED
  BY <1>2, <1>3 DEF Decide

\* One entry is looked up, settled, or killed and waited for.
LEMMA CancelSound ==
  ASSUME Sound, CancelOwned
  PROVE  Sound' /\ Keeps
<1>1. /\ pc = "cancel" /\ UNCHANGED <<world, bounds, state, lsf>>
      /\ UNCHANGED <<count, epoch, holder, me, pc, step, queue, cur, answer, tries, why>>
      /\ todo \cap waiting = {} /\ holder # "free" /\ Process /\ Progress /\ LocalOK
  BY LocalIs DEF CancelOwned, world, Sound, Process
<1>2. PICK k \in First(todo) :
       \/ /\ \E e \in reconcile_by_name(k) :
                /\ update(k, e)
                /\ todo' = IF e.status = "submitted" THEN todo ELSE todo \ {k}
          /\ looked' = looked \cup {k}
          /\ waiting' = waiting
       \/ /\ \E a \in query(k) :
                /\ ledger' = IF a \in Ended THEN [ledger EXCEPT ![k] = settle(k, a, TRUE)] ELSE ledger
                /\ waiting' = IF a = "RUN" THEN waiting \cup {k} ELSE waiting
          /\ todo' = todo \ {k}
          /\ looked' = looked
  BY DEF CancelOwned
<1>3. k \in Keys /\ k \in todo /\ k \notin waiting /\ ledger[k].status \in Unsettled
  BY <1>1, <1>2 DEF First, Process, LocalOK
<1> DEFINE Done == /\ Edits /\ \A j \in Keys \ {k} : ledger'[j] = ledger[j]
                   /\ todo' \in {todo, todo \ {k}} /\ waiting' \in {waiting, waiting \cup {k}}
                   /\ looked' \in {looked, looked \cup {k}} /\ todo' \cap waiting' = {}
                   /\ k \in todo' \cup waiting' => ledger'[k].status \in Unsettled
<1>4. Done
  <2>1. ASSUME NEW e \in reconcile_by_name(k), update(k, e), looked' = looked \cup {k}, waiting' = waiting,
               todo' = IF e.status = "submitted" THEN todo ELSE todo \ {k}
        PROVE  Done
    <3>1. Edits /\ ledger'[k] = e /\ e.status \in Unsettled /\ \A j \in Keys \ {k} : ledger'[j] = ledger[j]
      BY <1>1, <1>3, <2>1, LookupEdits, EditIs DEF update
    <3> QED
      BY <1>1, <1>3, <2>1, <3>1
  <2>2. ASSUME NEW a \in query(k), a \in Ended, ledger' = [ledger EXCEPT ![k] = settle(k, a, TRUE)],
               todo' = todo \ {k}, looked' = looked, waiting' = waiting
        PROVE  Done
    <3>1. Edits /\ \A j \in Keys \ {k} : ledger'[j] = ledger[j]
      BY <1>1, <1>3, <2>2, SettlingEdits, EditIs
    <3> QED
      BY <1>1, <1>3, <2>2, <3>1
  <2>3. CASE ledger' = ledger /\ todo' = todo \ {k} /\ looked' = looked /\ waiting' \in {waiting, waiting \cup {k}}
    BY <1>1, <1>3, <2>3 DEF Edits
  <2> QED
    BY <1>2, <2>1, <2>2, <2>3 DEF Ended
<1>5. LocalOK'
  BY <1>1, <1>3, <1>4 DEF LocalOK
<1>6. Process'
  <2>1. \A j \in todo' \cup waiting' : ledger'[j].status \in Unsettled
    BY <1>1, <1>3, <1>4 DEF Process, LocalOK
  <2> QED
    BY <1>1, <1>4, <2>1, MeIs DEF Process, Submitting
<1>7. Progress'
  BY <1>1, AwayKeepsProgress
<1> QED
  BY <1>1, <1>4, <1>5, <1>6, <1>7, EditSound DEF Submitting

\* A killed job is settled when LSF says that it has ended.
LEMMA ConfirmSound ==
  ASSUME Sound, NEW k \in Keys, ConfirmCancelled(k)
  PROVE  Sound' /\ Keeps
<1>1. /\ pc = "cancel" /\ todo = {} /\ k \in waiting /\ waiting' = waiting \ {k}
      /\ UNCHANGED <<world, bounds, state, lsf>>
      /\ UNCHANGED <<count, epoch, holder, me, pc, step, queue, todo, cur, answer, tries, why, looked>>
      /\ holder # "free" /\ Process /\ Progress /\ LocalOK /\ ledger[k].status \in Unsettled
  BY LocalIs DEF ConfirmCancelled, world, Sound, Process
<1>2. PICK a \in query(k) : a \in Ended /\ ledger' = [ledger EXCEPT ![k] = settle(k, a, TRUE)]
  BY DEF ConfirmCancelled, update
<1>3. Edits /\ \A j \in Keys \ {k} : ledger'[j] = ledger[j]
  BY <1>1, <1>2, SettlingEdits, EditIs
<1>4. LocalOK'
  BY <1>1 DEF LocalOK
<1>5. Process'
  <2>1. \A j \in waiting' : ledger'[j].status \in Unsettled
    BY <1>1, <1>3 DEF Process, LocalOK
  <2> QED
    BY <1>1, <1>3, <2>1, MeIs DEF Process, Submitting
<1>6. Progress'
  BY <1>1, AwayKeepsProgress
<1> QED
  BY <1>1, <1>3, <1>4, <1>5, <1>6, EditSound DEF Submitting

\* Cancelling is over, confirmed or not.
LEMMA CancelledSound ==
  ASSUME Sound, Cancelled
  PROVE  Sound' /\ Keeps
<1>1. /\ pc = "cancel" /\ todo = {} /\ UNCHANGED <<world, bounds, state, lsf>>
      /\ UNCHANGED <<ledger, count, epoch>> /\ Edits
      /\ Process /\ Progress /\ LocalOK /\ holder # "free"
  BY LocalIs DEF Cancelled, world, disk, Sound, Process, Edits
<1>2. CASE Release
  <2>1. pc' = "off"
    BY <1>2 DEF Release
  <2> QED
    BY <1>1, <1>2, <2>1, ReleaseLocal, EditSound DEF Submitting
<1>3. CASE /\ pc' \in {"finish", "end"} /\ waiting' = {}
           /\ UNCHANGED <<holder, me, step, queue, todo, cur, answer, tries, why, looked>>
  <2>1. LocalOK'
    BY <1>1, <1>3 DEF LocalOK, Pcs
  <2>2. Process'
    BY <1>1, <1>3 DEF Process, Submitting, IsJob
  <2>3. Progress'
    BY <1>1, <1>3, AwayKeepsProgress
  <2> QED
    BY <1>1, <1>3, <2>1, <2>2, <2>3, EditSound DEF Submitting
<1> QED
  BY <1>2, <1>3 DEF Cancelled

\* A step that moves the process, and in LSF at most its manager's job and the one it submits.
LEMMA SendSound ==
  ASSUME Sound, UNCHANGED <<disk, created, state, body, outcome>>,
         lsf' \in [Keys -> InLsf \cup Ended \cup {"none"}],
         \A k \in Keys : \/ lsf'[k] = lsf[k]
                         \/ ~IsJob(k) /\ k <= count
                         \/ pc = "bsub" /\ k = cur /\ lsf'[k] \in {"none", "sent", "pend"},
         pc' \in Submitting => pc \in Submitting /\ cur' = cur,
         LocalOK', Process', Progress', kills' \in Nat, faults' \in Nat, hands' \in Nat
  PROVE  Sound' /\ Keeps
<1>1. Entries' /\ Evidence'
  BY SendingKeeps
<1>2. \A k \in Keys : k > count => lsf'[k] = "none"
  <2>1. pc = "bsub" => cur = count
    BY DEF Sound, Process, Submitting
  <2>2. \A k \in Keys : k > count => lsf[k] = "none" /\ ~(k <= count) /\ k # count
    BY ManagerAssumption DEF Sound, TypeOK, Keys
  <2> QED
    BY <2>1, <2>2
<1>3. TypeOK'
  BY <1>2 DEF Sound, TypeOK, LocalOK, disk
<1>4. Keeps
  BY DEF Keeps, disk
<1> QED
  BY <1>1, <1>3, <1>4 DEF Sound

\* The counters of the model stay numbers.
LEMMA BoundsAre ==
  ASSUME Sound, UNCHANGED bounds \/ Fault \/ (kills' = kills + 1 /\ UNCHANGED <<faults, hands>>)
                \/ (hands' = hands + 1 /\ UNCHANGED <<kills, faults>>)
  PROVE  kills' \in Nat /\ faults' \in Nat /\ hands' \in Nat
BY DEF Sound, TypeOK, bounds, Fault

\* The manager's job gets the lock.
LEMMA StartManagerSound ==
  ASSUME Sound, NEW k \in Keys, StartManager(k)
  PROVE  Sound' /\ Keeps
<1>1. /\ ~IsJob(k) /\ lsf[k] = "pend" /\ lsf' = [lsf EXCEPT ![k] = "run"] /\ holder = "free"
      /\ holder' = "manager" /\ pc' = "reconcile" /\ todo' = owned /\ me' = k
      /\ UNCHANGED <<step, queue, waiting, cur, answer, tries, why, looked>>
      /\ UNCHANGED <<ledger, count, epoch>>
      /\ UNCHANGED <<disk, created, state, body, outcome, bounds>>
      /\ pc = "off" /\ waiting = {} /\ step = 1 /\ queue = <<>>
  BY DEF StartManager, Enter, IsJob, disk, Sound, Process, Progress
<1>2. k <= count /\ k \in 1 .. count
  BY <1>1, ManagerAssumption DEF Sound, TypeOK, Keys
<1>3. LocalOK'
  BY <1>1, LocalIs DEF LocalOK, Pcs
<1>4. Process'
  BY <1>1, <1>2 DEF Process, Submitting, owned, IsJob
<1>5. Progress'
  BY <1>1 DEF Progress, Submitting, Members
<1>6. /\ lsf' \in [Keys -> InLsf \cup Ended \cup {"none"}]
      /\ \A j \in Keys : lsf'[j] = lsf[j] \/ (~IsJob(j) /\ j <= count)
  BY <1>1, <1>2 DEF Sound, TypeOK, InLsf
<1> QED
  BY <1>1, <1>3, <1>4, <1>5, <1>6, BoundsAre, SendSound DEF Submitting

\* bsub: the job is there, or not, or on its way.
LEMMA BsubSound ==
  ASSUME Sound, Bsub
  PROVE  Sound' /\ Keeps
<1>1. /\ pc = "bsub" /\ pc' = "answered"
      /\ UNCHANGED <<holder, me, step, queue, todo, waiting, cur, tries, why, looked>>
      /\ UNCHANGED <<disk, created, state, body, outcome, bounds>> /\ UNCHANGED <<ledger, count, epoch>>
      /\ Process /\ Progress /\ LocalOK /\ cur \in Keys /\ lsf[cur] = "none"
      /\ lsf \in [Keys -> InLsf \cup Ended \cup {"none"}]
  BY LocalIs DEF Bsub, disk, Sound, Process, Submitting, TypeOK
<1>2. PICK l \in {"none", "sent", "pend"} :
         /\ lsf' = [lsf EXCEPT ![cur] = l]
         /\ answer' \in {"accepted", "ambiguous", "rejected"}
         /\ answer' = "rejected" => l = "none"
  <2>1. lsf = [lsf EXCEPT ![cur] = "none"]
    BY <1>1
  <2>2. PICK a \in Answers :
          /\ answer' = a
          /\ \/ a = "accepted" /\ lsf' = [lsf EXCEPT ![cur] = "pend"]
             \/ a = "rejected" /\ UNCHANGED lsf
             \/ a = "ambiguous" /\ \E l \in {"none", "sent", "pend"} : lsf' = [lsf EXCEPT ![cur] = l]
    BY DEF Bsub
  <2> QED
    BY <2>1, <2>2
<1>3. /\ lsf' \in [Keys -> InLsf \cup Ended \cup {"none"}] /\ lsf'[cur] = l
      /\ \A k \in Keys : lsf'[k] = lsf[k] \/ (k = cur /\ lsf'[k] \in {"none", "sent", "pend"})
  BY <1>1, <1>2 DEF InLsf
<1>4. LocalOK'
  BY <1>1, <1>2 DEF LocalOK, Pcs
<1>5. Process'
  BY <1>1, <1>2, <1>3 DEF Process, Submitting, IsJob
<1>6. Progress'
  BY <1>1 DEF Progress, Submitting, Finished
<1> QED
  BY <1>1, <1>3, <1>4, <1>5, <1>6, BoundsAre, SendSound DEF Submitting

\* The manager returns.
LEMMA ReturnsSound ==
  ASSUME Sound, ManagerReturns
  PROVE  Sound' /\ Keeps
<1>1. /\ Release /\ pc' = "off" /\ lsf' = [lsf EXCEPT ![me] = "DONE"]
      /\ UNCHANGED <<disk, created, state, body, outcome, bounds>>
      /\ me # 0 => me \in 1 .. count /\ ~IsJob(me)
      /\ lsf \in [Keys -> InLsf \cup Ended \cup {"none"}]
  BY DEF ManagerReturns, Release, Sound, Process, TypeOK
<1>2. /\ lsf' \in [Keys -> InLsf \cup Ended \cup {"none"}]
      /\ \A k \in Keys : lsf'[k] = lsf[k] \/ (~IsJob(k) /\ k <= count)
  <2>1. \A k \in Keys : lsf'[k] = IF k = me THEN "DONE" ELSE lsf[k]
    BY <1>1
  <2>2. \A k \in Keys : k = me => ~IsJob(k) /\ k <= count
    BY <1>1, ManagerAssumption DEF Keys, Sound, TypeOK
  <2> QED
    BY <1>1, <2>1, <2>2 DEF Ended
<1> QED
  BY <1>1, <1>2, ReleaseLocal, BoundsAre, SendSound DEF Submitting

\* A signal, also in the middle of bsub, turns the process to cancelling.
LEMMA InterruptSound ==
  ASSUME Sound, Interrupt
  PROVE  Sound' /\ Keeps
<1>1. /\ holder # "free" /\ Cancelling("stopped") /\ Fault /\ pc' = "cancel"
      /\ UNCHANGED <<disk, created, state, body, outcome>> /\ UNCHANGED <<ledger, count, epoch>>
      /\ lsf \in [Keys -> InLsf \cup Ended \cup {"none"}]
      /\ pc = "bsub" => cur \in Keys
  BY DEF Interrupt, Cancelling, disk, Sound, TypeOK, Process, Submitting
<1>2. PICK l \in {"none", "sent"} : lsf' = IF pc = "bsub" THEN [lsf EXCEPT ![cur] = l] ELSE lsf
  BY DEF Interrupt, BsubCut
<1>3. /\ lsf' \in [Keys -> InLsf \cup Ended \cup {"none"}]
      /\ \A k \in Keys : lsf'[k] = lsf[k] \/ (pc = "bsub" /\ k = cur /\ lsf'[k] \in {"none", "sent", "pend"})
  BY <1>1, <1>2 DEF InLsf
<1> QED
  BY <1>1, <1>3, CancellingLocal, BoundsAre, SendSound DEF Submitting

\* A kill, also in the middle of bsub: the reserved entry stays and covers what may arrive.
LEMMA KillSound ==
  ASSUME Sound, Kill
  PROVE  Sound' /\ Keeps
<1>1. /\ Release /\ pc' = "off" /\ kills' = kills + 1 /\ UNCHANGED <<faults, hands>>
      /\ UNCHANGED <<disk, created, state, body, outcome>>
      /\ me # 0 => me \in 1 .. count /\ ~IsJob(me)
      /\ lsf \in [Keys -> InLsf \cup Ended \cup {"none"}]
  BY DEF Kill, Release, Sound, Process, TypeOK
<1>2. PICK l \in {"none", "sent"}, m \in {"pend", "EXIT"} :
          lsf' = [k \in Keys |-> IF pc = "bsub" /\ k = cur THEN l
                                 ELSE IF holder = "manager" /\ k = me THEN m ELSE lsf[k]]
  BY DEF Kill
<1>3. \A k \in Keys : k # 0
  BY ManagerAssumption DEF Keys
<1>4. /\ lsf' \in [Keys -> InLsf \cup Ended \cup {"none"}]
      /\ \A k \in Keys : \/ lsf'[k] = lsf[k]
                         \/ ~IsJob(k) /\ k <= count
                         \/ pc = "bsub" /\ k = cur /\ lsf'[k] \in {"none", "sent", "pend"}
  BY <1>1, <1>2, <1>3 DEF InLsf, Ended
<1> QED
  BY <1>1, <1>4, ReleaseLocal, BoundsAre, SendSound DEF Submitting

-----------------------------------------------------------------------------
(* What the invariant says of the system *)

\* Unsettled entries cover the jobs.
LEMMA CoversIs ==
  ASSUME Sound
  PROVE  LedgerCovers
<1> SUFFICES ASSUME NEW k \in Keys, IsJob(k), lsf[k] \in InLsf PROVE ledger[k].status \in Unsettled
  BY DEF LedgerCovers
<1>1. ledger[k].status \in EntryStatuses /\ k <= count
  BY ManagerAssumption DEF Sound, TypeOK, Entry, InLsf, Keys
<1>2. ledger[k].status \notin {"unused", "terminal", "rejected"}
  BY <1>1 DEF Sound, Entries, Says, InLsf, Ended
<1> QED
  BY <1>1, <1>2 DEF EntryStatuses

\* A second entry of a stage follows a settled one.
LEMMA OneJobIs ==
  ASSUME Sound
  PROVE  OneJobPerStage
<1>1. ASSUME NEW j \in Keys, NEW k \in Keys, IsJob(j), ledger[j].stage = ledger[k].stage,
             lsf[j] \in InLsf, lsf[k] \in InLsf, j < k
      PROVE  FALSE
  <2>1. ledger[j].status \in Unsettled /\ ledger[k].status \in Unsettled /\ IsJob(k)
    BY <1>1, CoversIs DEF LedgerCovers, IsJob
  <2>2. k <= count /\ ledger[j].epoch = epoch /\ ledger[k].epoch = epoch
        /\ ledger[j].status \notin {"terminal", "rejected"}
    BY <1>1, <2>1, UnsettledIs DEF Settled
  <2>3. Follows(j, k)
    BY <1>1, <2>2 DEF Follows
  <2> QED
    BY <2>2, <2>3 DEF Sound, Entries
<1>2. \A j, k \in Keys : j < k \/ k < j \/ j = k
  BY ManagerAssumption DEF Keys
<1> QED
  BY <1>1, <1>2 DEF OneJobPerStage, IsJob

-----------------------------------------------------------------------------
(* Jobs, and stages run by hand *)

StateType == [JobStages -> [status: {"none", "running"} \cup BodyEnds, by: Keys \cup {0}]]

\* What an action of job j may do to its stage's state.
Writes(j) ==
    LET s == ledger[j].stage IN
    /\ IsJob(j) /\ ~Finished(s) /\ s \in JobStages
    /\ state' \in StateType /\ \A t \in JobStages \ {s} : state'[t] = state[t]
    /\ state'[s].by = j
    /\ \/ state'[s].status = "running"
       \/ /\ state'[s].status = body'[j] /\ lsf'[j] \in {"over"} \cup Ended
          /\ \A k \in Keys \ {j} : ledger[k].stage = s => lsf[k] # "run"

\* A result that speaks of a final state comes with that state.
Commits(j) ==
    LET s == ledger[j].stage IN
    \/ body'[j] = body[j] \/ body'[j] \notin {"complete", "skipped", "final"}
    \/ body'[j] \in {"complete", "skipped"} /\ state'[s].by = j /\ state'[s].status = body'[j]
    \/ body'[j] = "final" /\ UNCHANGED state /\ Finished(s) /\ lsf[j] = "pend"

\* A step of one job: j moves on, and may leave a state, a result or a record.
JobStep(j) ==
    /\ UNCHANGED disk /\ UNCHANGED local /\ created' \in BOOLEAN
    /\ kills' \in Nat /\ faults' \in Nat /\ hands' \in Nat
    /\ lsf' \in [Keys -> InLsf \cup Ended \cup {"none"}]
    /\ body' \in [Keys -> Results]
    /\ outcome' \in [Keys -> {NoCode, 0, 40, 41, 42, 64, 143}]
    /\ \A k \in Keys \ {j} : lsf'[k] = lsf[k] /\ body'[k] = body[k] /\ outcome'[k] = outcome[k]
    /\ lsf[j] \in InLsf
    /\ lsf[j] = "over" => lsf'[j] \in Ended
    /\ body'[j] = body[j] \/ lsf[j] \in {"pend", "run"}
    /\ state' = state \/ Writes(j)
    /\ IsJob(j) => Commits(j)
    /\ IsJob(j) => /\ lsf'[j] = "over" => body'[j] # "none"
                   /\ lsf'[j] = "run" => state'[ledger[j].stage].status \notin FINAL
                   /\ \/ outcome'[j] \in {NoCode, 143}
                      \/ lsf'[j] \in Ended /\ body'[j] # "none" /\ outcome'[j] \in Codes(body'[j])

\* Such a step keeps the invariant: the evidence is what the job itself did.
LEMMA JobSound ==
  ASSUME Sound, NEW j \in Keys, JobStep(j)
  PROVE  Sound' /\ Keeps
<1> DEFINE s == ledger[j].stage
<1>1. /\ TypeOK /\ Evidence /\ UNCHANGED <<ledger, count, epoch>> /\ ledger \in [Keys -> Entry]
      /\ UNCHANGED <<holder, me, pc, step, queue, todo, waiting, cur, answer, tries, why, looked>>
      /\ state \in StateType /\ j <= count /\ lsf[j] \in InLsf
  BY DEF Sound, disk, local, TypeOK, InLsf, Keys, StateType, JobStep
<1>2. /\ lsf' \in [Keys -> InLsf \cup Ended \cup {"none"}]
      /\ \A k \in Keys \ {j} : lsf'[k] = lsf[k] /\ body'[k] = body[k] /\ outcome'[k] = outcome[k]
      /\ body'[j] = body[j] \/ lsf[j] \in {"pend", "run"}
      /\ lsf[j] = "over" => lsf'[j] \in Ended
  BY DEF JobStep
<1>3. \/ state' = state
      \/ /\ IsJob(j) /\ ~Finished(s) /\ s \in JobStages
         /\ \A t \in JobStages \ {s} : state'[t] = state[t]
         /\ state'[s].by = j
         /\ \/ state'[s].status = "running"
            \/ /\ state'[s].status = body'[j] /\ lsf'[j] \in {"over"} \cup Ended
               /\ \A k \in Keys \ {j} : ledger[k].stage = s => lsf[k] # "run"
  BY DEF JobStep, Writes
<1>4. state' \in StateType
  BY <1>1 DEF JobStep, Writes
<1> HIDE DEF s
<1>5. \A t \in JobStages : Finished(t) => Finished(t)'
  BY <1>3 DEF Finished
<1>6. Process' /\ Progress' /\ Entries' /\ (\A k \in Keys : InPlace(k)') /\ \A k \in Keys : k > count => lsf'[k] = "none"
  <2>1. UNCHANGED <<disk, local>>
    BY DEF JobStep
  <2> QED
    BY <1>1, <1>2, <1>5, <2>1, JobMoves DEF JobStages
<1>7. TypeOK'
  BY <1>1, <1>4, <1>6 DEF TypeOK, StateType, JobStep
<1>8. Leaves(j)'
  BY <1>1 DEF Leaves, IsJob, Finished, JobStep, FINAL
<1>9. ASSUME NEW k \in Keys \ {j} PROVE Leaves(k)'
  <2>1. Leaves(k)
    BY <1>1 DEF Evidence
  <2>2. IsJob(k) /\ lsf[k] = "run" => state'[ledger[k].stage].status \notin FINAL
    <3> SUFFICES ASSUME IsJob(k), lsf[k] = "run" PROVE state'[ledger[k].stage].status \notin FINAL
      OBVIOUS
    <3>1. ledger[k].stage \in JobStages /\ state[ledger[k].stage].status \notin FINAL
      BY <1>1, <2>1 DEF Leaves, Finished, Entry
    <3> QED
      BY <1>3, <3>1 DEF FINAL
  <2> QED
    BY <1>1, <1>2, <2>1, <2>2 DEF Leaves, IsJob, Finished
<1>10. ASSUME NEW t \in JobStages, NEW k \in Keys, state'[t].by = k, state'[t].status \in BodyEnds
       PROVE  IsJob(k)' /\ lsf'[k] \in {"over"} \cup Ended /\ body'[k] = state'[t].status
  <2>1. CASE state'[t] = state[t]
    <3>1. IsJob(k) /\ lsf[k] \in {"over"} \cup Ended /\ body[k] = state[t].status
      BY <1>1, <1>10, <2>1 DEF Evidence
    <3>2. CASE k # j
      BY <1>1, <1>2, <2>1, <3>1, <3>2 DEF IsJob
    <3>3. CASE k = j
      <4>1. lsf[j] = "over" /\ body'[j] = body[j] /\ lsf'[j] \in Ended
        BY <1>1, <1>2, <3>1, <3>3 DEF InLsf, Ended
      <4> QED
        BY <1>1, <2>1, <3>1, <3>3, <4>1 DEF IsJob
    <3> QED
      BY <3>2, <3>3
  <2>2. CASE state'[t] # state[t]
    <3>1. t = s /\ IsJob(j) /\ state'[t].by = j
      BY <1>3, <2>2
    <3>2. "running" \notin BodyEnds
      BY DEF BodyEnds
    <3> QED
      BY <1>1, <1>3, <1>10, <2>2, <3>1, <3>2 DEF IsJob
  <2> QED
    BY <2>1, <2>2
<1>11. \A k \in Keys : k > count' => outcome'[k] = NoCode /\ body'[k] = "none"
  <2>1. \A k \in Keys : k > count => k # j
    BY <1>1, ManagerAssumption DEF Keys, TypeOK
  <2> QED
    BY <1>1, <1>2, <2>1 DEF Evidence
<1>12. ASSUME NEW k \in Keys, ledger[k].stage \in Stages PROVE Stands(k)'
  <2>1. Stands(k) /\ ledger'[k].stage = ledger[k].stage /\ ledger[k].stage \in JobStages
    BY <1>1, <1>12 DEF Evidence, JobStages
  <2>2. Finished(ledger[k].stage) => state'[ledger[k].stage] = state[ledger[k].stage]
    BY <1>3, <2>1
  <2>3. CASE body'[k] = body[k]
    BY <1>12, <2>1, <2>2, <2>3 DEF Stands, Finished, FINAL
  <2>4. CASE body'[k] # body[k]
    <3>1. k = j /\ Commits(j)
      BY <1>2, <1>12, <2>4 DEF JobStep, IsJob, Stages
    <3>2. CASE body'[j] = "final"
      <4>1. UNCHANGED state /\ Finished(ledger[j].stage) /\ lsf[j] = "pend"
        BY <2>4, <3>1, <3>2 DEF Commits
      <4>2. state[ledger[j].stage].by # j
        BY <1>1, <2>1, <3>1, <4>1 DEF Evidence, Finished, FINAL, BodyEnds, Ended
      <4> QED
        BY <2>1, <3>1, <3>2, <4>1, <4>2 DEF Stands, Finished
    <3>3. CASE body'[j] # "final"
      BY <2>1, <2>4, <3>1, <3>3 DEF Commits, Stands
    <3> QED
      BY <3>2, <3>3
  <2> QED
    BY <2>3, <2>4
<1>13. \A k \in Keys : Stands(k)'
  BY <1>1, <1>12 DEF Stands
<1>14. Evidence'
  BY <1>6, <1>8, <1>9, <1>10, <1>11, <1>13 DEF Evidence
<1> QED
  BY <1>1, <1>6, <1>7, <1>14 DEF Sound, Keeps

\* What an action of a job finds.
LEMMA FoundIs ==
  ASSUME Sound, NEW k \in Keys
  PROVE  /\ lsf \in [Keys -> InLsf \cup Ended \cup {"none"}]
         /\ body \in [Keys -> Results]
         /\ outcome \in [Keys -> {NoCode, 0, 40, 41, 42, 64, 143}]
         /\ state \in StateType /\ created \in BOOLEAN
         /\ IsJob(k) => /\ ledger[k].stage \in JobStages \ {"manager"}
                        /\ lsf[k] \in InLsf => outcome[k] \in {NoCode, 143}
                        /\ lsf[k] = "over" => body[k] # "none"
<1>1. TypeOK /\ ledger[k] \in Entry /\ Leaves(k)
  BY DEF Sound, TypeOK, Evidence
<1>2. \A l \in InLsf : l \notin Ended
  BY DEF InLsf, Ended
<1>3. IsJob(k) /\ lsf[k] \in InLsf => outcome[k] \in {NoCode, 143}
  BY <1>1, <1>2 DEF Leaves
<1> QED
  BY <1>1, <1>3 DEF TypeOK, StateType, Leaves, IsJob, Entry

\* A submission arrives or is lost.
LEMMA ArriveSound ==
  ASSUME Sound, NEW k \in Keys, Arrive(k)
  PROVE  Sound' /\ Keeps
<1>1. /\ lsf[k] = "sent" /\ UNCHANGED <<disk, local, bounds>> /\ UNCHANGED <<created, state, body, outcome>>
      /\ lsf[k] \in InLsf
  BY DEF Arrive, InLsf
<1>2. PICK l \in {"none", "pend"} : lsf' = [lsf EXCEPT ![k] = l]
  BY DEF Arrive
<1>3. JobStep(k)
  BY <1>1, <1>2, FoundIs, BoundsAre DEF JobStep, Commits, InLsf, disk, local, Ended
<1> QED
  BY <1>3, JobSound

\* A stage job starts under its lock.
LEMMA StartsJobSound ==
  ASSUME Sound, NEW k \in Keys, JobStarts(k)
  PROVE  Sound' /\ Keeps
<1> DEFINE s == ledger[k].stage
<1>1. /\ IsJob(k) /\ lsf[k] = "pend" /\ lsf' = [lsf EXCEPT ![k] = "run"]
      /\ UNCHANGED <<disk, local, bounds>> /\ UNCHANGED <<body, outcome>>
      /\ ~Finished(s) /\ lsf[k] \in InLsf /\ s \in JobStages
      /\ created' \in {TRUE, created}
      /\ state' = state \/ state' = [state EXCEPT ![s] = [status |-> "running", by |-> k]]
  BY FoundIs DEF JobStarts, Startable, InLsf
<1> HIDE DEF s
<1>2. state' = state \/ Writes(k)
  BY <1>1, FoundIs DEF Writes, StateType, s
<1>3. state'[s].status \notin FINAL
  BY <1>1, FoundIs DEF Finished, FINAL, StateType
<1>4. /\ lsf' \in [Keys -> InLsf \cup Ended \cup {"none"}] /\ lsf'[k] = "run" /\ "run" \notin Ended
      /\ \A j \in Keys \ {k} : lsf'[j] = lsf[j]
  BY <1>1, FoundIs DEF InLsf, Ended
<1>5. JobStep(k)
  BY <1>1, <1>2, <1>3, <1>4, FoundIs, BoundsAre DEF JobStep, Commits, s
<1> QED
  BY <1>5, JobSound

\* A gated stage records skipped.
LEMMA SkipsSound ==
  ASSUME Sound, NEW k \in Keys, JobSkips(k)
  PROVE  Sound' /\ Keeps
<1> DEFINE s == ledger[k].stage
<1>1. /\ IsJob(k) /\ lsf[k] = "pend" /\ lsf' = [lsf EXCEPT ![k] = "over"] /\ s \in JobStages
      /\ state' = [state EXCEPT ![s] = [status |-> "skipped", by |-> k]]
      /\ body' = [body EXCEPT ![k] = "skipped"]
      /\ UNCHANGED <<disk, local, bounds>> /\ UNCHANGED <<created, outcome>>
      /\ ~Finished(s) /\ lsf[k] \in InLsf
      /\ \A j \in Keys : ledger[j].stage = s => lsf[j] # "run"
  BY DEF JobSkips, Startable, StageIdle, InLsf, IsJob, Stages, JobStages
<1> HIDE DEF s
<1>2. /\ body' \in [Keys -> Results] /\ body'[k] = "skipped"
      /\ state'[s].status = "skipped" /\ state'[s].by = k /\ state' \in StateType
      /\ lsf' \in [Keys -> InLsf \cup Ended \cup {"none"}] /\ lsf'[k] = "over"
  BY <1>1, FoundIs DEF StateType, BodyEnds, Results, InLsf
<1>3. Writes(k)
  BY <1>1, <1>2, FoundIs DEF Writes, StateType, s
<1>4. JobStep(k)
  BY <1>1, <1>2, <1>3, FoundIs, BoundsAre DEF JobStep, Commits, InLsf, Ended, s
<1> QED
  BY <1>4, JobSound

\* A stage command is refused.
LEMMA RefusedSound ==
  ASSUME Sound, NEW k \in Keys, JobRefused(k)
  PROVE  Sound' /\ Keeps
<1>1. /\ IsJob(k) /\ lsf[k] = "pend" /\ lsf' = [lsf EXCEPT ![k] = "over"]
      /\ UNCHANGED <<disk, local>> /\ UNCHANGED <<created, state, outcome>>
      /\ lsf[k] \in InLsf
      /\ Fault \/ UNCHANGED bounds
  BY DEF JobRefused, InLsf
<1>2. PICK b \in {"final", "refused", "usage", "error"} :
          body' = [body EXCEPT ![k] = b] /\ (b = "final" => Finished(ledger[k].stage))
  BY DEF JobRefused
<1>3. /\ body' \in [Keys -> Results] /\ body'[k] = b
      /\ lsf' \in [Keys -> InLsf \cup Ended \cup {"none"}] /\ lsf'[k] = "over"
  BY <1>1, <1>2, FoundIs DEF Results, InLsf
<1>4. JobStep(k)
  BY <1>1, <1>2, <1>3, FoundIs, BoundsAre DEF JobStep, Commits, InLsf, Ended
<1> QED
  BY <1>4, JobSound

\* An exception ends a command that has begun, and writes nothing.
LEMMA RaisesSound ==
  ASSUME Sound, NEW k \in Keys, JobRaises(k)
  PROVE  Sound' /\ Keeps
<1>1. /\ IsJob(k) /\ lsf[k] = "run" /\ lsf' = [lsf EXCEPT ![k] = "over"] /\ lsf[k] \in InLsf
      /\ body' = [body EXCEPT ![k] = "error"]
      /\ UNCHANGED <<disk, local, bounds>> /\ UNCHANGED <<created, state, outcome>>
  BY DEF JobRaises, InLsf
<1>2. /\ body' \in [Keys -> Results] /\ body'[k] = "error"
      /\ lsf' \in [Keys -> InLsf \cup Ended \cup {"none"}] /\ lsf'[k] = "over"
  BY <1>1, FoundIs DEF Results, InLsf
<1>3. JobStep(k)
  BY <1>1, <1>2, FoundIs, BoundsAre DEF JobStep, Commits, InLsf, Ended
<1> QED
  BY <1>3, JobSound

\* A body ends: no other job of the stage runs, so the state it writes is the stage's last.
LEMMA EndsSound ==
  ASSUME Sound, NEW k \in Keys, JobEnds(k)
  PROVE  Sound' /\ Keeps
<1> DEFINE s == ledger[k].stage
<1>1. /\ IsJob(k) /\ lsf[k] = "run" /\ lsf' = [lsf EXCEPT ![k] = "over"] /\ s \in JobStages \ {"manager"}
      /\ UNCHANGED <<disk, local, bounds>> /\ UNCHANGED outcome /\ created' = TRUE
      /\ lsf[k] \in InLsf
  BY FoundIs DEF JobEnds, InLsf
<1>2. PICK b \in BodyEnds : /\ state' = [state EXCEPT ![s] = [status |-> b, by |-> k]]
                            /\ body' = [body EXCEPT ![k] = b]
  <2>1. s # "clean" => Ends[s] \ {"skipped", "error"} \subseteq BodyEnds
    BY <1>1, ManagerAssumption DEF JobStages
  <2> QED
    BY <2>1 DEF JobEnds, BodyEnds
<1>3. ~Finished(s)
  BY <1>1 DEF Sound, Evidence, Leaves
<1>4. \A j \in Keys \ {k} : ledger[j].stage = s => lsf[j] # "run"
  BY <1>1, OneJobIs DEF OneJobPerStage, InLsf
<1> HIDE DEF s
<1>5. /\ body' \in [Keys -> Results] /\ body'[k] = b /\ b # "none"
      /\ state'[s].status = b /\ state'[s].by = k /\ state' \in StateType
      /\ lsf' \in [Keys -> InLsf \cup Ended \cup {"none"}] /\ lsf'[k] = "over"
  BY <1>1, <1>2, FoundIs DEF StateType, BodyEnds, Results, InLsf
<1>6. Writes(k)
  BY <1>1, <1>2, <1>3, <1>4, <1>5, FoundIs DEF Writes, StateType, s
<1>7. Commits(k)
  BY <1>5 DEF Commits, BodyEnds, s
<1>8. /\ \A j \in Keys \ {k} : lsf'[j] = lsf[j] /\ body'[j] = body[j] /\ outcome'[j] = outcome[j]
      /\ outcome' \in [Keys -> {NoCode, 0, 40, 41, 42, 64, 143}] /\ outcome'[k] \in {NoCode, 143}
  BY <1>1, <1>2, FoundIs
<1>9. JobStep(k)
  BY <1>1, <1>5, <1>6, <1>7, <1>8, BoundsAre DEF JobStep
<1> QED
  BY <1>9, JobSound

\* A job records its exit code and ends.
LEMMA ReportsSound ==
  ASSUME Sound, NEW k \in Keys, JobReports(k)
  PROVE  Sound' /\ Keeps
<1>1. /\ lsf[k] = "over" /\ UNCHANGED <<disk, local, bounds>> /\ UNCHANGED <<created, state, body>>
      /\ lsf[k] \in InLsf
  BY DEF JobReports, InLsf
<1>2. PICK code \in ExitCodes(k) : outcome' = [outcome EXCEPT ![k] = code]
  BY DEF JobReports
<1>3. PICK l \in Ended : lsf' = [lsf EXCEPT ![k] = l]
  BY DEF JobReports, Ended
<1>4. code \in Codes(body[k]) /\ code \in {0, 40, 41, 42, 64} /\ l \notin {"over", "run"}
  BY FoundIs, CodesAre DEF ExitCodes, Codes, Ended
<1>5. /\ outcome' \in [Keys -> {NoCode, 0, 40, 41, 42, 64, 143}] /\ outcome'[k] = code
      /\ lsf' \in [Keys -> InLsf \cup Ended \cup {"none"}] /\ lsf'[k] = l
  BY <1>1, <1>2, <1>3, <1>4, FoundIs
<1>6. JobStep(k)
  BY <1>1, <1>2, <1>3, <1>4, <1>5, FoundIs, BoundsAre DEF JobStep, Commits
<1> QED
  BY <1>6, JobSound

\* A job is killed, before or after its record.
LEMMA KilledSound ==
  ASSUME Sound, NEW k \in Keys, JobKilled(k)
  PROVE  Sound' /\ Keeps
<1>1. /\ lsf' = [lsf EXCEPT ![k] = "EXIT"] /\ lsf[k] \in InLsf
      /\ UNCHANGED <<disk, local>> /\ UNCHANGED <<created, state, body>>
      /\ Fault \/ UNCHANGED bounds
      /\ "EXIT" \in Ended
  BY DEF JobKilled, InLsf, Ended
<1>2. \A code \in ExitCodes(k) : code \in Codes(body[k]) /\ code \in {0, 40, 41, 42, 64}
  BY FoundIs, CodesAre DEF ExitCodes, Codes
<1>3. /\ outcome' \in [Keys -> {NoCode, 0, 40, 41, 42, 64, 143}]
      /\ \A j \in Keys \ {k} : outcome'[j] = outcome[j]
      /\ IsJob(k) => outcome'[k] \in {NoCode, 143}
                      \/ (lsf[k] = "over" /\ outcome'[k] \in Codes(body[k]))
  <2>1. CASE outcome' = [outcome EXCEPT ![k] = 143]
    BY <2>1, FoundIs
  <2>2. CASE lsf[k] = "over" /\ \E code \in ExitCodes(k) : outcome' = [outcome EXCEPT ![k] = code]
    BY <1>2, <2>2, FoundIs
  <2>3. CASE UNCHANGED outcome
    BY <1>1, <2>3, FoundIs
  <2> QED
    BY <2>1, <2>2, <2>3 DEF JobKilled
<1>4. lsf' \in [Keys -> InLsf \cup Ended \cup {"none"}] /\ lsf'[k] = "EXIT"
  BY <1>1, FoundIs
<1>5. JobStep(k)
  BY <1>1, <1>3, <1>4, FoundIs, BoundsAre DEF JobStep, Commits, Ended
<1> QED
  BY <1>5, JobSound

\* A stage run by hand leaves a state that no job claims.
LEMMA ByHandSound ==
  ASSUME Sound, NEW s \in Stages, ByHand(s)
  PROVE  Sound' /\ Keeps
<1>1. /\ UNCHANGED <<disk, local>> /\ UNCHANGED <<ledger, count, epoch, created, lsf, body, outcome, kills, faults>>
      /\ UNCHANGED <<holder, me, pc, step, queue, todo, waiting, cur, answer, tries, why, looked>>
      /\ hands' = hands + 1 /\ ~Finished(s) /\ s \in JobStages
      /\ \A k \in Keys : ledger[k].stage = s => lsf[k] # "run"
      /\ TypeOK /\ Evidence
  BY DEF ByHand, Startable, StageIdle, JobStages, Sound, disk, local
<1>2. PICK b \in BodyEnds : state' = [state EXCEPT ![s] = [status |-> b, by |-> 0]]
  BY ManagerAssumption DEF ByHand
<1>3. state \in [JobStages -> [status: {"none", "running"} \cup BodyEnds, by: Keys \cup {0}]]
  BY <1>1 DEF TypeOK
<1>4. /\ state' \in [JobStages -> [status: {"none", "running"} \cup BodyEnds, by: Keys \cup {0}]]
      /\ state'[s].by = 0 /\ \A t \in JobStages \ {s} : state'[t] = state[t]
  BY <1>1, <1>2, <1>3
<1>5. \A t \in Stages : Finished(t) => Finished(t)'
  BY <1>1, <1>4 DEF Finished, JobStages
<1>6. Process' /\ Progress' /\ Entries' /\ \A k \in Keys : InPlace(k)'
  <2>1. lsf' \in [Keys -> InLsf \cup Ended \cup {"none"}]
    BY <1>1 DEF TypeOK
  <2> QED
    BY <1>1, <1>5, <2>1, JobMoves
<1>7. TypeOK'
  BY <1>1, <1>4 DEF TypeOK
<1>8. ASSUME NEW k \in Keys PROVE Leaves(k)'
  <2>1. Leaves(k) /\ ledger[k].stage \in JobStages
    BY <1>1 DEF Evidence, TypeOK, Entry
  <2> QED
    BY <1>1, <1>4, <2>1 DEF Leaves, IsJob, Finished
<1>9. \A k \in Keys : k # 0
  BY ManagerAssumption DEF Keys
<1>10. \A k \in Keys : Stands(k)'
  BY <1>1, <1>4 DEF Evidence, Stands, Finished, FINAL, JobStages
<1>11. Evidence'
  BY <1>1, <1>4, <1>6, <1>8, <1>9, <1>10 DEF Evidence, IsJob
<1> QED
  BY <1>1, <1>6, <1>7, <1>11 DEF Sound, Keeps

-----------------------------------------------------------------------------
(* The theorems *)

LEMMA InitSound == Init => Sound
<1> SUFFICES ASSUME Init PROVE Sound
  OBVIOUS
<1>1. /\ ledger = [k \in Keys |-> Unused] /\ count = 0 /\ epoch = 0 /\ created = FALSE
      /\ state = [s \in JobStages |-> [status |-> "none", by |-> 0]]
      /\ lsf = [k \in Keys |-> "none"] /\ body = [k \in Keys |-> "none"]
      /\ outcome = [k \in Keys |-> NoCode]
      /\ holder = "launch" /\ me = 0 /\ pc = "launch" /\ step = 1 /\ queue = <<>>
      /\ todo = {} /\ waiting = {} /\ cur = 0 /\ answer = "none" /\ tries = 0
      /\ why = "none" /\ looked = {} /\ kills = 0 /\ faults = 0 /\ hands = 0
  BY DEF Init
<1>2. /\ MaxJobs \in Nat /\ MaxCostAttempts \in Nat
      /\ \A k \in Keys : k \in Nat /\ k # 0 /\ ~(k <= 0) /\ k > 0
  BY ManagerAssumption DEF Keys
<1>3. Unused \in Entry /\ Unused.status = "unused" /\ Unused.stage = "manager"
  BY DEF Unused, Entry, JobStages, EntryStatuses, OutcomeKinds
<1>4. TypeOK
  <2>1. /\ ledger \in [Keys -> Entry] /\ lsf \in [Keys -> InLsf \cup Ended \cup {"none"}]
        /\ body \in [Keys -> Results]
        /\ outcome \in [Keys -> {NoCode, 0, 40, 41, 42, 64, 143}]
    BY <1>1, <1>3 DEF Results
  <2>2. state \in [JobStages -> [status: {"none", "running"} \cup BodyEnds, by: Keys \cup {0}]]
    BY <1>1
  <2>3. queue \in Seq(Stages) /\ count \in 0 .. MaxJobs
    BY <1>1, <1>2
  <2>4. \A k \in Keys : ledger[k] = Unused /\ lsf[k] = "none"
    BY <1>1
  <2>5. /\ epoch \in Nat /\ step \in 1 .. 5 /\ tries \in Nat
        /\ kills \in Nat /\ faults \in Nat /\ hands \in Nat /\ me = 0 /\ cur = 0
    BY <1>1
  <2>6. /\ holder \in {"free", "manager", "reap", "launch"} /\ pc \in Pcs
        /\ answer \in {"none", "accepted", "ambiguous", "rejected"}
        /\ why \in {"none", "deadline", "stopped"} /\ todo = {} /\ waiting = {} /\ looked = {}
    BY <1>1 DEF Pcs
  <2>7. created \in BOOLEAN
    BY <1>1
  <2> QED
    BY <2>1, <2>2, <2>3, <2>4, <2>5, <2>6, <2>7 DEF TypeOK
<1>5. Process
  BY <1>1 DEF Process, Submitting
<1>6. Progress
  BY <1>1 DEF Progress, Submitting, Members
<1>7. Entries
  <2>1. \A e \in Nat : Attempts(e) = {}
    BY <1>1, <1>3 DEF Attempts
  <2>2. \A e \in Nat : Cardinality(Attempts(e)) <= MaxCostAttempts
    BY <1>2, <2>1, FS_EmptySet
  <2> QED
    BY <1>1, <1>2, <1>3, <2>2 DEF Entries, Says, Follows, IsJob
<1>8. Evidence
  BY <1>1, <1>2, <1>3 DEF Evidence, Leaves, InPlace, Stands, IsJob, BodyEnds, Stages, Submitting
<1> QED
  BY <1>4, <1>5, <1>6, <1>7, <1>8 DEF Sound

\* Every step keeps the invariant and the settled entries.
LEMMA NextSound ==
  ASSUME Sound, [Next]_vars
  PROVE  Sound' /\ Keeps
<1>1. CASE Next
  BY <1>1, StartsSound, CheckSound, EpochSound, ReserveManagerSound, ReconcileSound, ReconciledSound,
     ConsiderSound, SubmittedSound, RecordSound, LauncherSound, ObserveSound, DeadlineSound, WaitedSound,
     FinishSound, CostLoopSound, DecideSound, CancelSound, ConfirmSound, CancelledSound, StartManagerSound,
     BsubSound, ReturnsSound, InterruptSound, KillSound, ArriveSound, StartsJobSound, SkipsSound,
     RefusedSound, RaisesSound, EndsSound, ReportsSound, KilledSound, ByHandSound
     DEF Next, Pipeline, Recovery, Answered, Launcher, Jobs, Operator
<1>2. CASE UNCHANGED vars
  <2>1. UNCHANGED <<disk, world, local, bounds>>
    BY <1>2 DEF vars
  <2>2. UNCHANGED <<holder, me, pc, step, queue, todo, waiting, cur, answer, tries, why, looked>>
        /\ UNCHANGED <<ledger, count, epoch, state, world, bounds>>
    BY <2>1 DEF disk, world, local
  <2>3. Edits
    BY <2>2 DEF Edits
  <2>4. LocalOK'
    BY <2>2, LocalIs DEF LocalOK
  <2>5. Process'
    BY <2>2, <2>3, MeIs DEF Sound, Process, Submitting, owned, world
  <2>6. Progress'
    BY <2>2 DEF Sound, Progress, Submitting, Finished
  <2> QED
    BY <2>2, <2>3, <2>4, <2>5, <2>6, EditSound
<1> QED
  BY <1>1, <1>2

(* The invariant holds in every reachable state. *)
THEOREM Soundness == Spec => []Sound
<1>1. Sound /\ [Next]_vars => Sound'
  BY NextSound
<1> QED
  BY <1>1, InitSound, PTL DEF Spec

(* The types, and that no entry beyond the count was ever used. *)
THEOREM TypeCorrect == Spec => []TypeOK
<1>1. Sound => TypeOK
  BY DEF Sound
<1> QED
  BY <1>1, Soundness, PTL

(* Every job of a stage that LSF has, or may still get, is an unsettled entry of the ledger. *)
THEOREM LedgerCoversJobs == Spec => []LedgerCovers
<1>1. Sound => LedgerCovers
  BY CoversIs
<1> QED
  BY <1>1, Soundness, PTL

(* No stage has two jobs in LSF, whatever it answered and whoever was killed. *)
THEOREM OneJob == Spec => []OneJobPerStage
<1>1. Sound => OneJobPerStage
  BY OneJobIs
<1> QED
  BY <1>1, Soundness, PTL

(* The manager decides when no job of the session is in LSF or on its way there. *)
THEOREM DecidesAlone == Spec => []DecideAlone
<1>1. Sound => DecideAlone
  <2> SUFFICES ASSUME Sound, pc = "decide", NEW k \in Keys, IsJob(k), lsf[k] \in InLsf PROVE FALSE
    BY DEF DecideAlone
  <2>1. owned = {}
    BY DEF Sound, Process
  <2>2. k \in owned
    BY CoversIs DEF LedgerCovers, owned, IsJob
  <2> QED
    BY <2>1, <2>2
<1> QED
  BY <1>1, Soundness, PTL

(* Only noise is retried within an epoch, and no epoch has more cost jobs than allowed: a    *)
(* job that is or was in LSF has an entry that is an attempt.                                *)
THEOREM RetriesAreForNoise == Spec => []OnlyNoiseIsRetried
<1>1. ASSUME Sound PROVE OnlyNoiseIsRetried
  <2>1. ASSUME NEW j \in Keys, NEW k \in Keys, j < k, k <= count, IsJob(j), ledger[j].stage = ledger[k].stage,
               ledger[j].epoch = ledger[k].epoch, ledger[j].status # "rejected"
        PROVE  ledger[j].stage = "cost" /\ body[j] = "noisy"
    <3>1. ledger[j].stage = "cost" /\ ledger[j].status = "terminal" /\ ledger[j].kind = "noisy"
      BY <1>1, <2>1 DEF Sound, Entries, Follows
    <3> QED
      BY <1>1, <2>1, <3>1 DEF Sound, Entries, Says, BodyEnds, Recorded, Tells, Stages
  <2>2. ASSUME NEW e \in 0 .. epoch
        PROVE  Cardinality({k \in Keys : /\ ledger[k].stage = "cost" /\ ledger[k].epoch = e
                                         /\ lsf[k] # "none"}) <= MaxCostAttempts
    <3> DEFINE S == {k \in Keys : /\ ledger[k].stage = "cost" /\ ledger[k].epoch = e
                                  /\ lsf[k] # "none"}
    <3>1. ASSUME NEW k \in S PROVE k \in Attempts(e)
      <4>1. k \in Keys /\ lsf[k] # "none" /\ IsJob(k) /\ k <= count
        BY <1>1, ManagerAssumption DEF IsJob, Sound, TypeOK, Keys
      <4>2. ledger[k].status \notin {"unused", "rejected"}
        BY <1>1, <4>1 DEF Sound, Entries, Says
      <4> QED
        BY <4>2 DEF Attempts
    <3>2. S \in SUBSET Attempts(e) /\ IsFiniteSet(Attempts(e))
      BY <3>1, AttemptsFinite
    <3>3. /\ Cardinality(S) <= Cardinality(Attempts(e))
          /\ Cardinality(S) \in Nat /\ Cardinality(Attempts(e)) \in Nat
      BY <3>2, FS_Subset, FS_CardinalityType
    <3>4. e \in Nat
      BY <1>1 DEF Sound, TypeOK
    <3>5. Cardinality(Attempts(e)) <= MaxCostAttempts
      BY <1>1, <3>4 DEF Sound, Entries
    <3> HIDE DEF S
    <3>6. Cardinality(S) <= MaxCostAttempts
      BY <3>3, <3>5, ManagerAssumption
    <3> QED
      BY <3>6 DEF S
  <2> QED
    BY <2>1, <2>2 DEF OnlyNoiseIsRetried
<1> QED
  BY <1>1, Soundness, PTL

(* A stage is in LSF only when what it needs is final, and cost only after unit-tests. *)
THEOREM JobsAreInOrder == Spec => []JobsInOrder
<1>1. Sound => JobsInOrder
  BY DEF Sound, Evidence, InPlace, JobsInOrder
<1> QED
  BY <1>1, Soundness, PTL

(* A recorded outcome is what this job's own body did. *)
THEOREM OutcomesAreTrue == Spec => []OutcomeIsTrue
<1>1. Sound => OutcomeIsTrue
  BY DEF Sound, Entries, Says, Recorded, BodyEnds, Tells, IsJob, Stages, OutcomeIsTrue
<1> QED
  BY <1>1, Soundness, PTL

(* No step of any process or job changes a settled entry. *)
THEOREM HistoryStays == Spec => SettledStays
<1>1. Sound /\ [Next]_vars =>
        [\A k \in Keys : ledger[k].status \in {"terminal", "rejected"} => ledger'[k] = ledger[k]]_vars
  BY NextSound DEF Keeps, Settled
<1> QED
  BY <1>1, Soundness, PTL DEF Spec, SettledStays
=============================================================================
