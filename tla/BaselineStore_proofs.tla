------------------------ MODULE BaselineStore_proofs ------------------------
(***************************************************************************)
(* Proofs about BaselineStore, for any sessions over one store: a build     *)
(* entry that is ready stays one session's whole build, and what a session  *)
(* judges by is one half of the truth about the baseline.                  *)
(*                                                                         *)
(* For the build the invariant says who may hold the lock and what the      *)
(* holder has made; for the results, that an entry is published whole, by   *)
(* the rename, from a half that reports the truth, and never changes.      *)
(***************************************************************************)
EXTENDS BaselineStore, TLAPS

Halves == [by : Sessions, out : [Suites -> Outcomes]]
Verdicts == [result : {"unchecked", "failed", "passed", "unresolved"},
             end : [Suites -> {"good", "bad", "gone"}], seen : [Suites -> Outcomes]]
BuildPlaces == {"look", "lock", "remove", "build", "ready", "verify", "done", "failed"}
Places == {"off", "building", "look", "read", "compute", "publish", "fill", "rename",
           "evolved", "done"}
Builds == {"remove", "build", "ready"}

TypeOK ==
    /\ parts \in [Range(BuildParts) -> Sessions \cup {None}]
    /\ READY \in BOOLEAN /\ lock \in Sessions \cup {None}
    /\ results \in [Range(Files) -> Halves \cup {Unset}]
    /\ stage \in Stages /\ truth \in [Suites -> {"good", "bad"}]
    /\ pc \in [Sessions -> Places] /\ base \in [Sessions -> BuildPlaces]
    /\ half \in [Sessions -> [Suites -> Halves \cup {Unset}]]
    /\ partial \in [Sessions -> [Range(Files) -> Halves \cup {Unset}]]
    /\ verdict \in [Sessions -> Verdicts \cup {Unjudged}]

\* The build entry: who changes it holds the lock, and it is not ready.
Locked ==
    /\ READY => Whole
    /\ \A s \in Sessions :
          /\ base[s] \in Builds <=> lock = s
          /\ base[s] \in Builds => ~READY
          /\ base[s] \notin {"done", "failed"} => pc[s] = "building"
          /\ base[s] = "build" => \A p \in Range(BuildParts) : parts[p] \in {None, s}
          /\ base[s] = "ready" => \A p \in Range(BuildParts) : parts[p] = s

\* What running the baseline reports, and what of it is stored.
Reported(h) == \A i \in Suites : h.out[i] \in Reports(i, truth[i])
Decisive(h) == Reported(h) /\ decisive(h.out)

\* The results entry: there is none, or it is one decisive half.
Stored == results = Empty \/ \E h \in Halves : Decisive(h) /\ \A f \in Range(Files) : results[f] = h

\* What a session has computed, written and read.
Holds(s) ==
    /\ pc[s] = "compute" => partial[s] = Empty
    /\ pc[s] \in {"publish", "fill", "rename"} =>
          /\ half[s][1] = half[s][2] /\ half[s][1] \in Halves
          /\ half[s][1].by = s /\ Decisive(half[s][1])
    /\ pc[s] \in {"publish", "fill"} => \A f \in Range(Files) : partial[s][f] \in {Unset, half[s][1]}
    /\ pc[s] = "rename" => \A f \in Range(Files) : partial[s][f] = half[s][1]
    /\ pc[s] = "read" =>
          /\ results # Empty /\ half[s][1] \in {Unset, results["first"]} /\ half[s][2] = Unset
    /\ pc[s] \in {"evolved", "done"} =>
          /\ half[s][1] = half[s][2] /\ half[s][1] \in Halves /\ Reported(half[s][1])
          /\ half[s][1].by # s => Decisive(half[s][1])

\* A verdict is what the half and the reports of some evolved runs come to.
Judged(s) ==
    verdict[s] # Unjudged =>
        /\ pc[s] = "done"
        /\ \E run \in EvolvedRuns :
              verdict[s] = [result |-> Result(s, run[2]), end |-> run[1], seen |-> run[2]]

Sound == TypeOK /\ Locked /\ Stored /\ \A s \in Sessions : Holds(s) /\ Judged(s)

-----------------------------------------------------------------------------
(* Steps *)

USE DEF build, given, tasks, judged

\* Nothing is stored and nobody has begun.
LEMMA InitSound == Init => Sound
<1> SUFFICES ASSUME Init PROVE Sound
  OBVIOUS
<1>1. TypeOK
  BY DEF Init, TypeOK, Empty, Places, BuildPlaces
<1>2. Locked
  BY NoneAssumption DEF Init, Locked, Builds
<1>3. Stored /\ \A s \in Sessions : Holds(s) /\ Judged(s)
  BY DEF Init, Stored, Holds, Judged
<1> QED
  BY <1>1, <1>2, <1>3 DEF Sound

\* A step of another session leaves what a session holds and has judged.
LEMMA OthersSound ==
  ASSUME Sound, NEW t \in Sessions,
         pc'[t] = pc[t], half'[t] = half[t], partial'[t] = partial[t], verdict'[t] = verdict[t],
         UNCHANGED given, results' = results \/ results = Empty
  PROVE  Holds(t)' /\ Judged(t)'
<1>1. Holds(t) /\ Judged(t)
  BY DEF Sound
<1>2. /\ \A h : Reported(h)' <=> Reported(h)
      /\ \A h : Decisive(h)' <=> Decisive(h)
  BY DEF Reported, Decisive, Reports
<1>3. Holds(t)'
  BY <1>1, <1>2 DEF Holds
<1>4. EvolvedRuns' = EvolvedRuns
  BY DEF EvolvedRuns, Reports
<1>5. \A seen : Result(t, seen)' = Result(t, seen)
  BY DEF Result, PreflightFailed, Seen
<1>6. Judged(t)'
  BY <1>1, <1>4, <1>5 DEF Judged
<1> QED
  BY <1>3, <1>6

\* A ready build stays as it is.
Stays == READY => Whole /\ UNCHANGED <<parts, READY>>

\* The steps of a build task keep the build entry in order.
LEMMA TaskSound ==
  ASSUME Sound, NEW s \in Sessions,
         LookUp(s) \/ Lock(s) \/ Repair(s) \/ Build(s) \/ MarkReady(s) \/ Verify(s) \/ BuildFails(s)
  PROVE  /\ TypeOK' /\ Locked' /\ Stays
         /\ UNCHANGED <<results, given, pc, half, partial, verdict>>
<1>1. TypeOK /\ Locked
  BY DEF Sound
<1>2. UNCHANGED <<results, given, pc, half, partial, verdict>>
  BY DEF LookUp, Lock, Repair, Build, MarkReady, Verify, BuildFails
<1>3. \A t \in Sessions \ {s} : base'[t] = base[t]
  BY <1>1 DEF TypeOK, LookUp, Lock, Repair, Build, MarkReady, Verify, BuildFails, Base
<1>4. CASE LookUp(s)
  <2>1. /\ base[s] = "look" /\ pc[s] = "building" /\ base'[s] \in {"verify", "lock"}
        /\ base' \in [Sessions -> BuildPlaces] /\ UNCHANGED <<parts, READY, lock>>
    BY <1>1, <1>4 DEF LookUp, Base, TypeOK, BuildPlaces
  <2>2. TypeOK'
    BY <1>1, <1>2, <2>1 DEF TypeOK
  <2> QED
    BY <1>1, <1>2, <1>3, <2>1, <2>2 DEF Locked, Builds, Stays, Whole
<1>5. CASE Lock(s)
  <2>1. /\ base[s] = "lock" /\ pc[s] = "building" /\ lock = None /\ UNCHANGED <<parts, READY>>
        /\ IF READY THEN base'[s] = "verify" /\ lock' = lock ELSE base'[s] = "remove" /\ lock' = s
        /\ base' \in [Sessions -> BuildPlaces]
    BY <1>1, <1>5 DEF Lock, Recheck, Base, TypeOK, BuildPlaces
  <2>2. TypeOK'
    BY <1>1, <1>2, <2>1 DEF TypeOK
  <2>3. Locked'
    BY <1>1, <1>2, <1>3, <2>1, NoneAssumption DEF Locked, Builds, Whole
  <2> QED
    BY <1>1, <1>2, <2>1, <2>2, <2>3 DEF Locked, Stays
<1>6. CASE Repair(s)
  <2>1. /\ base[s] = "remove" /\ base'[s] = "build" /\ READY' = FALSE /\ lock' = lock
        /\ parts' = [p \in Range(BuildParts) |-> None]
        /\ base' \in [Sessions -> BuildPlaces]
    BY <1>1, <1>6 DEF Repair, Base, TypeOK, BuildPlaces
  <2>2. TypeOK' /\ Locked'
    BY <1>1, <1>2, <1>3, <2>1 DEF TypeOK, Locked, Builds
  <2> QED
    BY <1>1, <1>2, <2>1, <2>2 DEF Locked, Builds, Stays
<1>7. CASE Build(s)
  <2>1. base[s] = "build" /\ READY' = READY /\ lock' = lock
    BY <1>7 DEF Build
  <2>2. PICK i \in DOMAIN BuildParts :
           /\ parts[BuildParts[i]] = None /\ \A j \in 1 .. i - 1 : parts[BuildParts[j]] # None
           /\ parts' = [parts EXCEPT ![BuildParts[i]] = s]
           /\ base' = [base EXCEPT ![s] = IF i = Len(BuildParts) THEN "ready" ELSE "build"]
    BY <1>7 DEF Build, Base
  <2>3. BuildParts[i] \in Range(BuildParts)
    BY DEF Range
  <2>4. TypeOK' /\ base'[s] = IF i = Len(BuildParts) THEN "ready" ELSE "build"
    BY <1>1, <1>2, <2>1, <2>2, <2>3 DEF TypeOK, BuildPlaces
  <2>5. lock = s /\ ~READY /\ pc[s] = "building" /\ \A p \in Range(BuildParts) : parts[p] \in {None, s}
    BY <1>1, <2>1 DEF Locked, Builds
  <2>6. \A p \in Range(BuildParts) : parts'[p] \in {None, s}
    BY <1>1, <2>2, <2>3, <2>5 DEF TypeOK
  <2>7. i = Len(BuildParts) => \A p \in Range(BuildParts) : parts'[p] = s
    <3> SUFFICES ASSUME i = Len(BuildParts), NEW j \in DOMAIN BuildParts
                 PROVE  parts'[BuildParts[j]] = s
      BY DEF Range
    <3>1. BuildParts[j] \in Range(BuildParts)
      BY DEF Range
    <3>2. j = i \/ j \in 1 .. i - 1
      BY DEF BuildParts
    <3> QED
      BY <1>1, <2>2, <2>3, <2>5, <3>1, <3>2 DEF TypeOK
  <2>8. Locked'
    BY <1>1, <1>2, <1>3, <2>1, <2>4, <2>5, <2>6, <2>7 DEF Locked, Builds
  <2> QED
    BY <1>2, <2>4, <2>5, <2>8 DEF Stays
<1>8. CASE MarkReady(s)
  <2>1. /\ base[s] = "ready" /\ base'[s] = "verify" /\ READY' = TRUE /\ lock' = None
        /\ parts' = parts /\ base' \in [Sessions -> BuildPlaces]
    BY <1>1, <1>8 DEF MarkReady, Base, TypeOK, BuildPlaces
  <2>2. lock = s /\ ~READY /\ pc[s] = "building" /\ \A p \in Range(BuildParts) : parts[p] = s
    BY <1>1, <2>1 DEF Locked, Builds
  <2>3. TypeOK'
    BY <1>1, <1>2, <2>1 DEF TypeOK
  <2>4. Locked'
    BY <1>1, <1>2, <1>3, <2>1, <2>2, NoneAssumption DEF Locked, Builds, Whole
  <2> QED
    BY <1>2, <2>2, <2>3, <2>4 DEF Stays
<1>9. CASE Verify(s)
  <2>1. /\ base[s] = "verify" /\ base'[s] \in {"done", "failed"} /\ UNCHANGED <<parts, READY, lock>>
        /\ base' \in [Sessions -> BuildPlaces]
    BY <1>1, <1>9 DEF Verify, Base, TypeOK, BuildPlaces
  <2>2. TypeOK'
    BY <1>1, <1>2, <2>1 DEF TypeOK
  <2> QED
    BY <1>1, <1>2, <1>3, <2>1, <2>2 DEF Locked, Builds, Stays, Whole
<1>10. CASE BuildFails(s)
  <2>1. /\ base[s] = "build" /\ base'[s] = "failed" /\ lock' = None /\ UNCHANGED <<parts, READY>>
        /\ base' \in [Sessions -> BuildPlaces]
    BY <1>1, <1>10 DEF BuildFails, Base, TypeOK, BuildPlaces
  <2>2. TypeOK'
    BY <1>1, <1>2, <2>1 DEF TypeOK
  <2>3. lock = s /\ ~READY
    BY <1>1, <2>1 DEF Locked, Builds
  <2>4. Locked'
    BY <1>1, <1>2, <1>3, <2>1, <2>3, NoneAssumption DEF Locked, Builds
  <2> QED
    BY <1>2, <2>2, <2>3, <2>4 DEF Stays
<1> QED
  BY <1>4, <1>5, <1>6, <1>7, <1>8, <1>9, <1>10

\* Steps that leave the build entry alone.
LEMMA LockedFrame ==
  ASSUME TypeOK, Locked, UNCHANGED <<parts, READY, lock, base>>, NEW s \in Sessions,
         \A t \in Sessions \ {s} : pc'[t] = pc[t],
         pc[s] # "building" \/ pc'[s] = "building" \/ base[s] \in {"done", "failed"}
  PROVE  Locked' /\ Stays
BY DEF Locked, Stays, Whole, Builds

\* The steps of an invocation around its build tasks.
LEMMA CompileSound ==
  ASSUME Sound, NEW s \in Sessions, Start(s) \/ EndCompile(s) \/ StartEvolved(s) \/ EndEvolved(s)
  PROVE  Sound' /\ Stays
<1>1. TypeOK /\ Locked /\ Stored
  BY DEF Sound
<1>2. UNCHANGED <<parts, READY, lock, results, given, half, partial, verdict>>
  BY DEF Start, EndCompile, StartEvolved, EndEvolved
<1>3. /\ TypeOK' /\ Locked' /\ Stays
      /\ \A t \in Sessions \ {s} : pc'[t] = pc[t]
      /\ pc'[s] = pc[s] \/ (pc'[s] \in {"building", "look", "off"} /\ pc[s] \in {"off", "building"})
  <2>1. CASE Start(s)
    <3>1. /\ pc[s] = "off" /\ pc'[s] \in {"building", "look"} /\ pc' \in [Sessions -> Places]
          /\ \A t \in Sessions \ {s} : pc'[t] = pc[t] /\ base'[t] = base[t]
          /\ \/ base' = base
             \/ base'[s] = "look" /\ pc'[s] = "building"
          /\ base' \in [Sessions -> BuildPlaces]
      BY <1>1, <2>1 DEF Start, Goto, Base, TypeOK, Places, BuildPlaces
    <3>2. base[s] \in {"done", "failed"}
      BY <1>1, <3>1 DEF Locked
    <3>3. Locked' /\ Stays
      BY <1>1, <1>2, <3>1, <3>2 DEF Locked, Builds, Stays, Whole
    <3> QED
      BY <1>1, <1>2, <3>1, <3>3 DEF TypeOK
  <2>2. CASE EndCompile(s)
    <3>1. /\ pc[s] = "building" /\ pc'[s] = "off" /\ pc' \in [Sessions -> Places]
          /\ \A t \in Sessions \ {s} : pc'[t] = pc[t]
          /\ base[s] \in {"done", "failed"} /\ base' = base
      BY <1>1, <2>2 DEF EndCompile, Goto, TypeOK, Places
    <3>2. Locked' /\ Stays
      BY <1>1, <1>2, <3>1, LockedFrame
    <3> QED
      BY <1>1, <1>2, <3>1, <3>2 DEF TypeOK
  <2>3. CASE StartEvolved(s) \/ EndEvolved(s)
    <3>1. UNCHANGED <<pc, base>>
      BY <2>3 DEF StartEvolved, EndEvolved
    <3>2. Locked' /\ Stays
      BY <1>1, <1>2, <3>1 DEF Locked, Stays, Whole, Builds
    <3> QED
      BY <1>1, <1>2, <3>1, <3>2 DEF TypeOK
  <2> QED
    BY <2>1, <2>2, <2>3
<1>4. \A t \in Sessions \ {s} : Holds(t)' /\ Judged(t)'
  BY <1>2, <1>3, OthersSound
<1>5. Holds(s)' /\ Judged(s)'
  <2>1. CASE pc'[s] = pc[s]
    BY <1>2, <2>1, OthersSound
  <2>2. CASE pc'[s] \in {"building", "look", "off"} /\ pc[s] \in {"off", "building"}
    <3>1. verdict[s] = Unjudged
      BY <2>2 DEF Sound, Judged
    <3> QED
      BY <1>2, <2>2, <3>1 DEF Holds, Judged, Unjudged
  <2> QED
    BY <1>3, <2>1, <2>2
<1>6. Stored'
  BY <1>1, <1>2 DEF Stored, Decisive, Reported, Reports
<1> QED
  BY <1>3, <1>4, <1>5, <1>6 DEF Sound

\* Steps of the baseline half: the entry in the store and what the session holds.
LEMMA ResultFrame ==
  ASSUME Sound, NEW s \in Sessions,
         UNCHANGED <<parts, READY, lock, base, given>>, TypeOK',
         \A t \in Sessions \ {s} : pc'[t] = pc[t] /\ half'[t] = half[t] /\ partial'[t] = partial[t]
                                   /\ verdict'[t] = verdict[t],
         pc[s] # "building" \/ base[s] \in {"done", "failed"},
         results' = results \/ results = Empty,
         Stored', Holds(s)', Judged(s)'
  PROVE  Sound' /\ Stays
<1>1. Locked' /\ Stays
  BY LockedFrame DEF Sound
<1>2. \A t \in Sessions \ {s} : Holds(t)' /\ Judged(t)'
  BY OthersSound
<1> QED
  BY <1>1, <1>2 DEF Sound

\* What is stored stays stored.
LEMMA StoredFrame ==
  ASSUME Stored, results' = results, UNCHANGED given
  PROVE  Stored'
BY DEF Stored, Decisive, Reported, Reports

\* A session looks for the entry: with a provenance it is whole.
LEMMA LookSound ==
  ASSUME Sound, NEW s \in Sessions, Look(s)
  PROVE  Sound' /\ Stays
<1>1. TypeOK /\ Stored /\ Judged(s)
  BY DEF Sound
<1> DEFINE place == IF s \notin AA /\ results["provenance"] # Unset THEN "read" ELSE "compute"
<1>2. /\ pc[s] = "look" /\ pc' = [pc EXCEPT ![s] = place]
      /\ half' = [half EXCEPT ![s] = [i \in Suites |-> Unset]]
      /\ partial' = [partial EXCEPT ![s] = Empty]
      /\ UNCHANGED <<parts, READY, lock, base, results, given, verdict>>
  BY DEF Look, Goto
<1>3. place \in Places
  BY DEF Places
<1> HIDE DEF place
<1>4. TypeOK'
  BY <1>1, <1>2, <1>3 DEF TypeOK, Empty
<1>5. pc'[s] = place /\ half'[s] = [i \in Suites |-> Unset] /\ partial'[s] = Empty
  BY <1>1, <1>2 DEF TypeOK
<1>6. Holds(s)' /\ Judged(s)'
  <2>1. verdict'[s] = Unjudged
    BY <1>1, <1>2 DEF Judged
  <2>2. place = "read" => results # Empty
    BY DEF place, Empty, Files, Range
  <2>3. place \in {"read", "compute"}
    BY DEF place
  <2>4. half'[s][1] = Unset /\ half'[s][2] = Unset
    BY <1>5 DEF Suites
  <2> QED
    BY <1>2, <1>5, <2>1, <2>2, <2>3, <2>4 DEF Holds, Judged
<1>7. \A t \in Sessions \ {s} : pc'[t] = pc[t] /\ half'[t] = half[t] /\ partial'[t] = partial[t]
                               /\ verdict'[t] = verdict[t]
  BY <1>1, <1>2 DEF TypeOK
<1> QED
  BY <1>1, <1>2, <1>4, <1>6, <1>7, StoredFrame, ResultFrame

\* The files of a half are read one after the other: an entry never changes, so they are one half.
LEMMA ReadSound ==
  ASSUME Sound, NEW s \in Sessions, Read(s)
  PROVE  Sound' /\ Stays
<1>1. TypeOK /\ Stored /\ Judged(s) /\ Holds(s)
  BY DEF Sound
<1>2. /\ pc[s] = "read" /\ results # Empty /\ half[s][1] \in {Unset, results["first"]}
      /\ half[s][2] = Unset
      /\ UNCHANGED <<parts, READY, lock, base, results, given, partial, verdict>>
  BY <1>1 DEF Read, Holds
<1>3. PICK h \in Halves : Decisive(h) /\ \A f \in Range(Files) : results[f] = h
  BY <1>1, <1>2 DEF Stored
<1>4. /\ results["first"] = h /\ results["second"] = h /\ h # Unset /\ 1 \in Suites /\ 2 \in Suites
  <2>1. "first" \in Range(Files) /\ "second" \in Range(Files)
    BY DEF Range, Files
  <2> QED
    BY <1>3, <2>1, NoneAssumption DEF Halves, Unset, Suites
<1>5. /\ TypeOK'
      /\ \A t \in Sessions \ {s} : pc'[t] = pc[t] /\ half'[t] = half[t]
      /\ \/ pc'[s] = "read" /\ half'[s][1] = h /\ half'[s][2] = Unset
         \/ pc'[s] = "evolved" /\ half'[s][1] = h /\ half'[s][2] = h
  <2>1. CASE half[s][1] = Unset
    <3>1. half' = [half EXCEPT ![s][1] = h] /\ pc' = pc
      BY <1>4, <2>1 DEF Read
    <3> QED
      BY <1>1, <1>2, <1>4, <3>1 DEF TypeOK, Suites
  <2>2. CASE half[s][1] # Unset
    <3>1. half' = [half EXCEPT ![s][2] = h] /\ pc' = [pc EXCEPT ![s] = "evolved"]
      BY <1>4, <2>2 DEF Read, Goto
    <3> QED
      BY <1>1, <1>2, <1>4, <2>2, <3>1 DEF TypeOK, Suites, Places
  <2> QED
    BY <2>1, <2>2
<1>6. Decisive(h)' /\ Reported(h)'
  BY <1>2, <1>3 DEF Decisive, Reported, Reports
<1>7. Holds(s)' /\ Judged(s)'
  BY <1>1, <1>2, <1>3, <1>4, <1>5, <1>6 DEF Holds, Judged
<1> QED
  BY <1>1, <1>2, <1>5, <1>7, StoredFrame, ResultFrame

\* A session computes a half of its own.
LEMMA ComputeSound ==
  ASSUME Sound, NEW s \in Sessions, Compute(s)
  PROVE  Sound' /\ Stays
<1>1. TypeOK /\ Stored /\ Judged(s) /\ Holds(s)
  BY DEF Sound
<1>2. PICK out \in [Suites -> Outcomes] :
         /\ \A i \in Suites : out[i] \in Reports(i, truth[i])
         /\ half' = [half EXCEPT ![s] = [i \in Suites |-> [by |-> s, out |-> out]]]
         /\ pc' = [pc EXCEPT ![s] = IF s \notin AA /\ decisive(out) THEN "publish" ELSE "evolved"]
  BY DEF Compute, Goto
<1>3. pc[s] = "compute" /\ UNCHANGED <<parts, READY, lock, base, results, given, partial, verdict>>
  BY DEF Compute
<1> DEFINE h == [by |-> s, out |-> out]
           place == IF s \notin AA /\ decisive(out) THEN "publish" ELSE "evolved"
<1>4. h \in Halves /\ h.by = s /\ Reported(h) /\ (place = "publish" => Decisive(h))
  BY <1>2 DEF Halves, Reported, Decisive
<1>5. place \in {"publish", "evolved"}
  OBVIOUS
<1> HIDE DEF h, place
<1>6. /\ TypeOK' /\ pc'[s] = place /\ half'[s][1] = h /\ half'[s][2] = h
      /\ \A t \in Sessions \ {s} : pc'[t] = pc[t] /\ half'[t] = half[t]
  <2>1. half' = [half EXCEPT ![s] = [i \in Suites |-> h]] /\ pc' = [pc EXCEPT ![s] = place]
    BY <1>2 DEF h, place
  <2> QED
    BY <1>1, <1>3, <1>4, <1>5, <2>1 DEF TypeOK, Places, Suites
<1>7. Reported(h)' /\ (place = "publish" => Decisive(h)')
  BY <1>3, <1>4 DEF Decisive, Reported, Reports
<1>8. partial'[s] = Empty /\ \A f \in Range(Files) : Empty[f] = Unset
  BY <1>1, <1>3 DEF Holds, Empty
<1>9. Holds(s)' /\ Judged(s)'
  <2>1. verdict'[s] = Unjudged
    BY <1>1, <1>3 DEF Judged
  <2> QED
    BY <1>4, <1>5, <1>6, <1>7, <1>8, <2>1 DEF Holds, Judged
<1> QED
  BY <1>1, <1>3, <1>6, <1>9, StoredFrame, ResultFrame

\* An entry that exists is left alone.
LEMMA PublishSound ==
  ASSUME Sound, NEW s \in Sessions, Publish(s)
  PROVE  Sound' /\ Stays
<1>1. TypeOK /\ Stored /\ Judged(s) /\ Holds(s)
  BY DEF Sound
<1>2. /\ pc[s] = "publish" /\ pc' = [pc EXCEPT ![s] = IF Published THEN "evolved" ELSE "fill"]
      /\ UNCHANGED <<parts, READY, lock, base, results, given, half, partial, verdict>>
  BY DEF Publish, Goto
<1>3. /\ TypeOK' /\ pc'[s] \in {"evolved", "fill"}
      /\ \A t \in Sessions \ {s} : pc'[t] = pc[t]
  BY <1>1, <1>2 DEF TypeOK, Places
<1>4. Decisive(half[s][1]) /\ Decisive(half[s][1])' /\ Reported(half[s][1])'
  BY <1>1, <1>2 DEF Holds, Decisive, Reported, Reports
<1>5. Holds(s)' /\ Judged(s)'
  BY <1>1, <1>2, <1>3, <1>4 DEF Holds, Judged
<1> QED
  BY <1>1, <1>2, <1>3, <1>5, StoredFrame, ResultFrame

\* The files are written in order, provenance.json the last, from one decisive half.
LEMMA FillSound ==
  ASSUME Sound, NEW s \in Sessions, Fill(s)
  PROVE  Sound' /\ Stays
<1>1. TypeOK /\ Stored /\ Judged(s) /\ Holds(s)
  BY DEF Sound
<1> DEFINE h == half[s][1]
<1>2. PICK i \in DOMAIN Files :
         /\ partial[s][Files[i]] = Unset /\ \A j \in 1 .. i - 1 : partial[s][Files[j]] # Unset
         /\ partial' = [partial EXCEPT ![s][Files[i]] = h]
         /\ IF i = Len(Files) THEN pc' = [pc EXCEPT ![s] = "rename"] ELSE UNCHANGED pc
  BY DEF Fill, Goto
<1>3. pc[s] = "fill" /\ UNCHANGED <<parts, READY, lock, base, results, given, half, verdict>>
  BY DEF Fill
<1>4. /\ half[s][1] = half[s][2] /\ h \in Halves /\ h.by = s /\ Decisive(h)
      /\ \A f \in Range(Files) : partial[s][f] \in {Unset, h}
  BY <1>1, <1>3 DEF Holds
<1> HIDE DEF h
<1>5. Files[i] \in Range(Files)
  BY DEF Range
<1>6. /\ \A f \in Range(Files) : partial'[s][f] \in {Unset, h}
      /\ i = Len(Files) => \A f \in Range(Files) : partial'[s][f] = h
  <2>1. \A f \in Range(Files) : partial'[s][f] = IF f = Files[i] THEN h ELSE partial[s][f]
    BY <1>1, <1>2, <1>5 DEF TypeOK
  <2>2. ASSUME i = Len(Files), NEW j \in DOMAIN Files
        PROVE  partial'[s][Files[j]] = h
    <3>1. Files[j] \in Range(Files) /\ (j = i \/ j \in 1 .. i - 1)
      BY <2>2 DEF Range, Files
    <3> QED
      BY <1>2, <1>4, <2>1, <3>1
  <2> QED
    BY <1>4, <2>1, <2>2 DEF Range
<1>7. /\ TypeOK' /\ pc'[s] = IF i = Len(Files) THEN "rename" ELSE "fill"
      /\ \A t \in Sessions \ {s} : pc'[t] = pc[t] /\ partial'[t] = partial[t]
  <2>1. partial' \in [Sessions -> [Range(Files) -> Halves \cup {Unset}]]
    BY <1>1, <1>2, <1>4, <1>5 DEF TypeOK
  <2>2. /\ pc' \in [Sessions -> Places] /\ pc'[s] = IF i = Len(Files) THEN "rename" ELSE "fill"
        /\ \A t \in Sessions \ {s} : pc'[t] = pc[t] /\ partial'[t] = partial[t]
    BY <1>1, <1>2, <1>3 DEF TypeOK, Places
  <2> QED
    BY <1>1, <1>3, <2>1, <2>2 DEF TypeOK
<1>8. Holds(s)' /\ Judged(s)'
  <2>1. Decisive(h)'
    BY <1>3, <1>4 DEF Decisive, Reported, Reports, h
  <2>2. half'[s][1] = h /\ half'[s][2] = h /\ h' = h
    BY <1>3, <1>4 DEF h
  <2> QED
    BY <1>1, <1>3, <1>4, <1>6, <1>7, <2>1, <2>2 DEF Holds, Judged
<1> QED
  BY <1>1, <1>3, <1>7, <1>8, StoredFrame, ResultFrame

\* The rename makes the whole entry at once, or leaves the one that is there.
LEMMA RenameSound ==
  ASSUME Sound, NEW s \in Sessions, Rename(s)
  PROVE  Sound' /\ Stays
<1>1. TypeOK /\ Stored /\ Judged(s) /\ Holds(s)
  BY DEF Sound
<1>2. /\ pc[s] = "rename" /\ pc' = [pc EXCEPT ![s] = "evolved"]
      /\ partial' = [partial EXCEPT ![s] = Empty]
      /\ results' = IF Published THEN results ELSE partial[s]
      /\ UNCHANGED <<parts, READY, lock, base, given, half, verdict>>
  BY DEF Rename, Goto
<1>3. /\ half[s][1] = half[s][2] /\ half[s][1] \in Halves /\ Decisive(half[s][1])
      /\ half[s][1].by = s /\ \A f \in Range(Files) : partial[s][f] = half[s][1]
  BY <1>1, <1>2 DEF Holds
<1>4. /\ TypeOK' /\ pc'[s] = "evolved"
      /\ \A t \in Sessions \ {s} : pc'[t] = pc[t] /\ partial'[t] = partial[t]
  BY <1>1, <1>2 DEF TypeOK, Places, Empty
<1>5. Decisive(half[s][1])' /\ Reported(half[s][1])'
  BY <1>2, <1>3 DEF Decisive, Reported, Reports
<1>6. Holds(s)' /\ Judged(s)'
  BY <1>1, <1>2, <1>3, <1>4, <1>5 DEF Holds, Judged
<1>7. ~Published => results = Empty
  BY <1>1 DEF Published, TypeOK, Empty
<1>8. Stored'
  <2>1. CASE Published
    BY <1>1, <1>2, <2>1, StoredFrame
  <2>2. CASE ~Published
    BY <1>2, <1>3, <1>5, <2>2 DEF Stored
  <2> QED
    BY <2>1, <2>2
<1> QED
  BY <1>2, <1>4, <1>6, <1>7, <1>8, ResultFrame

\* The evolved half is judged against the baseline half in hand.
LEMMA EvolvedSound ==
  ASSUME Sound, NEW s \in Sessions, Evolved(s)
  PROVE  Sound' /\ Stays
<1>1. TypeOK /\ Stored /\ Judged(s) /\ Holds(s)
  BY DEF Sound
<1>2. PICK run \in EvolvedRuns :
         verdict' = [verdict EXCEPT ![s] =
            [result |-> Result(s, run[2]), end |-> run[1], seen |-> run[2]]]
  BY DEF Evolved
<1>3. /\ pc[s] = "evolved" /\ pc' = [pc EXCEPT ![s] = "done"]
      /\ UNCHANGED <<parts, READY, lock, base, results, given, half, partial>>
  BY DEF Evolved, Goto
<1> DEFINE v == [result |-> Result(s, run[2]), end |-> run[1], seen |-> run[2]]
<1>4. v \in Verdicts
  <2>1. run[1] \in [Suites -> {"good", "bad", "gone"}] /\ run[2] \in [Suites -> Outcomes]
    BY DEF EvolvedRuns
  <2>2. Result(s, run[2]) \in {"unchecked", "failed", "passed", "unresolved"}
    BY DEF Result, Joined
  <2> QED
    BY <2>1, <2>2 DEF Verdicts
<1>5. verdict' = [verdict EXCEPT ![s] = v]
  BY <1>2
<1> HIDE DEF v
<1>6. /\ TypeOK' /\ pc'[s] = "done" /\ verdict'[s] = v
      /\ \A t \in Sessions \ {s} : pc'[t] = pc[t] /\ verdict'[t] = verdict[t]
  BY <1>1, <1>3, <1>4, <1>5 DEF TypeOK, Places
<1>7. \A h : (Reported(h)' <=> Reported(h)) /\ (Decisive(h)' <=> Decisive(h))
  BY <1>3 DEF Reported, Decisive, Reports
<1>8. Holds(s)'
  BY <1>1, <1>3, <1>6, <1>7 DEF Holds
<1>9. Judged(s)'
  <2>1. EvolvedRuns' = EvolvedRuns
    BY <1>3 DEF EvolvedRuns, Reports
  <2>2. \A seen : Result(s, seen)' = Result(s, seen)
    BY <1>3 DEF Result, PreflightFailed, Seen
  <2>3. v = [result |-> Result(s, run[2])', end |-> run[1], seen |-> run[2]]
    BY <2>2 DEF v
  <2> QED
    BY <1>6, <2>1, <2>3 DEF Judged
<1> QED
  BY <1>1, <1>3, <1>6, <1>8, <1>9, StoredFrame, ResultFrame

\* A kill frees the lock, and leaves a part of a build that is not ready.
LEMMA KillSound ==
  ASSUME Sound, NEW s \in Sessions, Kill(s)
  PROVE  Sound' /\ Stays
<1>1. TypeOK /\ Locked /\ Stored /\ Judged(s) /\ Holds(s)
  BY DEF Sound
<1>2. /\ pc[s] \notin {"off", "done"} /\ pc' = [pc EXCEPT ![s] = "off"]
      /\ base' = [base EXCEPT ![s] = "done"]
      /\ lock' = IF lock = s THEN None ELSE lock
      /\ UNCHANGED <<parts, READY, results, given, half, partial, verdict>>
  BY DEF Kill, Goto, Base
<1>3. /\ TypeOK' /\ pc'[s] = "off" /\ base'[s] = "done"
      /\ \A t \in Sessions \ {s} : pc'[t] = pc[t] /\ base'[t] = base[t]
  BY <1>1, <1>2 DEF TypeOK, Places, BuildPlaces
<1>4. Locked' /\ Stays
  <2>1. \A t \in Sessions \ {s} : lock' = t <=> lock = t
    BY <1>2, NoneAssumption
  <2>2. lock' # s
    BY <1>2, NoneAssumption
  <2> QED
    BY <1>1, <1>2, <1>3, <2>1, <2>2 DEF Locked, Builds, Whole, Stays
<1>5. \A t \in Sessions \ {s} : Holds(t)' /\ Judged(t)'
  BY <1>2, <1>3, OthersSound
<1>6. Holds(s)' /\ Judged(s)'
  <2>1. verdict'[s] = Unjudged
    BY <1>1, <1>2 DEF Judged
  <2> QED
    BY <1>3, <2>1 DEF Holds, Judged
<1>7. Stored'
  BY <1>1, <1>2, StoredFrame
<1> QED
  BY <1>3, <1>4, <1>5, <1>6, <1>7 DEF Sound

\* Every step keeps the invariant, and a ready build.
LEMMA NextSound == Sound /\ [Next]_vars => Sound' /\ Stays
<1> SUFFICES ASSUME Sound, [Next]_vars PROVE Sound' /\ Stays
  OBVIOUS
<1>1. CASE UNCHANGED vars
  <2>1. TypeOK' /\ Locked' /\ Stays
    BY <1>1 DEF Sound, vars, TypeOK, Locked, Builds, Whole, Stays
  <2>2. Stored'
    BY <1>1, StoredFrame DEF Sound, vars
  <2>3. \A t \in Sessions : Holds(t)' /\ Judged(t)'
    BY <1>1, OthersSound DEF vars
  <2> QED
    BY <2>1, <2>2, <2>3 DEF Sound
<1>2. ASSUME NEW s \in Sessions, BuildStep(s) \/ ResultStep(s) \/ Kill(s)
      PROVE  Sound' /\ Stays
  <2>1. CASE \/ LookUp(s) \/ Lock(s) \/ Repair(s) \/ Build(s) \/ MarkReady(s) \/ Verify(s)
             \/ BuildFails(s)
    <3>1. /\ TypeOK' /\ Locked' /\ Stays
          /\ UNCHANGED <<results, given, pc, half, partial, verdict>>
      BY <2>1, TaskSound
    <3>2. \A t \in Sessions : Holds(t)' /\ Judged(t)'
      BY <3>1, OthersSound
    <3>3. Stored'
      BY <3>1, StoredFrame DEF Sound
    <3> QED
      BY <3>1, <3>2, <3>3 DEF Sound
  <2>2. CASE Start(s) \/ EndCompile(s) \/ StartEvolved(s) \/ EndEvolved(s)
    BY <2>2, CompileSound
  <2>3. CASE ResultStep(s)
    BY <2>3, LookSound, ReadSound, ComputeSound, PublishSound, FillSound, RenameSound, EvolvedSound
       DEF ResultStep
  <2>4. CASE Kill(s)
    BY <2>4, KillSound
  <2> QED
    BY <1>2, <2>1, <2>2, <2>3, <2>4 DEF BuildStep
<1> QED
  BY <1>1, <1>2 DEF Next

\* The invariant holds of every reachable state.
THEOREM StoreIsSound == Spec => []Sound
<1> QED
  BY InitSound, NextSound, PTL DEF Spec

(* ReadyStays: a ready build entry is one session's whole build, and no session, with or     *)
(* without the lock, waiting, repairing or killed, changes it.                             *)
THEOREM ReadyIsFinal == Spec => ReadyStays
<1>1. Sound /\ [Next]_vars => [READY => Whole /\ UNCHANGED <<parts, READY>>]_vars
  BY NextSound DEF Stays
<1> QED
  BY StoreIsSound, <1>1, PTL DEF Spec, ReadyStays

(* ReplayedIsTrue: a session judges by one half, and by a decisive one, which tells the      *)
(* truth about the baseline but for a cut Rust suite, when it took it from the store.      *)
LEMMA SoundReplayed == Sound => ReplayedIsTrue
<1> SUFFICES ASSUME Sound, NEW s \in Sessions, verdict[s] # Unjudged
             PROVE  /\ half[s][1] = half[s][2]
                    /\ half[s][1].by # s =>
                         \A i \in Suites :
                           Seen(s, i) \in {truth[i]} \cup IF i = Rust THEN {"cut"} ELSE {}
  BY DEF ReplayedIsTrue
<1>1. /\ half[s][1] = half[s][2]
      /\ half[s][1].by # s => Decisive(half[s][1])
  BY DEF Sound, Judged, Holds
<1>2. ASSUME Decisive(half[s][1]), NEW i \in Suites
      PROVE  Seen(s, i) \in {truth[i]} \cup IF i = Rust THEN {"cut"} ELSE {}
  <2>1. i \in {1, 2} /\ half[s][i] = half[s][1]
    BY <1>1 DEF Suites
  <2>2. Seen(s, i) \in Reports(i, truth[i]) /\ Seen(s, i) \notin {"lost", "crashed"}
    BY <1>2, <2>1 DEF Decisive, Reported, decisive, Seen
  <2> QED
    BY <2>2 DEF Reports
<1> QED
  BY <1>1, <1>2

(* A half that a session judges by is one whole half, and one from the store is true. *)
THEOREM ReplayIsTrue == Spec => []ReplayedIsTrue
<1> QED
  BY StoreIsSound, SoundReplayed, PTL

\* What a passed or failed result of the join says of its parts.
LEMMA JoinedParts ==
  ASSUME NEW rs
  PROVE  /\ Joined(rs) = "passed" => rs = {"passed"}
         /\ Joined(rs) = "failed" => "failed" \in rs
BY DEF Joined

(* VerdictIsTrue: what passed is not worse than the baseline, unless this very suite was cut *)
(* or had no complete result there; what failed is worse, was cut or crashed.              *)
LEMMA SoundVerdict == Sound => VerdictIsTrue
<1> SUFFICES ASSUME Sound, NEW s \in Sessions, verdict[s] # Unjudged
             PROVE  LET v == verdict[s] IN
                    /\ v.result = "passed" => \A i \in Suites :
                          \/ v.end[i] = "good" \/ truth[i] = "bad"
                          \/ v.seen[i] = "cut"
                          \/ (v.end[i] = "gone" /\ Seen(s, i) \in {"lost", "cut"})
                    /\ v.result = "failed" => \E i \in Suites :
                          v.end[i] # "good" \/ v.seen[i] \in {"cut", "crashed"}
  BY DEF VerdictIsTrue, Unjudged
<1>1. PICK run \in EvolvedRuns :
         verdict[s] = [result |-> Result(s, run[2]), end |-> run[1], seen |-> run[2]]
  BY DEF Sound, Judged
<1> DEFINE end == run[1]
           seen == run[2]
<1>2. /\ verdict[s].result = Result(s, seen) /\ verdict[s].end = end /\ verdict[s].seen = seen
      /\ \A i \in Suites : end[i] \in {"good", "bad", "gone"} /\ seen[i] \in Reports(i, end[i])
      /\ stage = "correctness" => \A i \in Suites : end[i] # "gone"
  BY <1>1 DEF EvolvedRuns
<1>3. \A i \in Suites : Seen(s, i) \in Reports(i, truth[i]) /\ truth[i] \in {"good", "bad"}
  <2>1. half[s][1] = half[s][2] /\ Reported(half[s][1]) /\ TypeOK
    BY DEF Sound, Judged, Holds
  <2>2. \A i \in Suites : half[s][i] = half[s][1]
    BY <2>1 DEF Suites
  <2> QED
    BY <2>1, <2>2 DEF Reported, Seen, TypeOK
<1> HIDE DEF end, seen
<1>4. CASE stage = "correctness"
  <2> DEFINE part(i) == IF seen[i] \in {"bad", "crashed"} THEN "failed"
                        ELSE IF seen[i] = "good" /\ Seen(s, i) = "good" THEN "passed"
                        ELSE "unresolved"
  <2>1. Result(s, seen) = IF PreflightFailed(s) THEN "unchecked" ELSE Joined({part(i) : i \in Suites})
    BY <1>4 DEF Result
  <2>2. ASSUME Result(s, seen) = "passed", NEW i \in Suites
        PROVE  end[i] = "good"
    <3>1. part(i) = "passed"
      BY <2>1, <2>2, JoinedParts
    <3>2. seen[i] = "good"
      BY <3>1
    <3> QED
      BY <1>2, <1>4, <3>2 DEF Reports
  <2>3. ASSUME Result(s, seen) = "failed"
        PROVE  \E i \in Suites : end[i] # "good" \/ seen[i] \in {"cut", "crashed"}
    <3>1. PICK i \in Suites : part(i) = "failed"
      BY <2>1, <2>3, JoinedParts
    <3>2. seen[i] \in {"bad", "crashed"}
      BY <3>1
    <3> QED
      BY <1>2, <1>4, <3>2 DEF Reports
  <2> QED
    BY <1>2, <2>2, <2>3
<1>5. CASE stage # "correctness"
  <2> DEFINE part(i) == judge(Seen(s, i), seen[i])
  <2>1. Result(s, seen) = Joined({part(i) : i \in Suites})
    BY <1>5 DEF Result
  <2>2. ASSUME Result(s, seen) = "passed", NEW i \in Suites
        PROVE  \/ end[i] = "good" \/ truth[i] = "bad" \/ seen[i] = "cut"
               \/ (end[i] = "gone" /\ Seen(s, i) \in {"lost", "cut"})
    <3>1. part(i) = "passed"
      BY <2>1, <2>2, JoinedParts
    <3>2. \/ seen[i] = "cut" \/ seen[i] = end[i] \/ seen[i] = "lost"
      BY <1>2, <1>5 DEF Reports
    <3>3. \/ Seen(s, i) = truth[i] \/ Seen(s, i) \in {"lost", "cut"}
      BY <1>3, <1>5 DEF Reports
    <3> QED
      BY <1>2, <1>3, <3>1, <3>2, <3>3 DEF judge, Completed, Failed, Passed
  <2>3. ASSUME Result(s, seen) = "failed"
        PROVE  \E i \in Suites : end[i] # "good" \/ seen[i] \in {"cut", "crashed"}
    <3>1. PICK i \in Suites : part(i) = "failed"
      BY <2>1, <2>3, JoinedParts
    <3>2. \/ seen[i] = "cut" \/ seen[i] = end[i] \/ seen[i] = "lost"
      BY <1>2, <1>5 DEF Reports
    <3> QED
      BY <3>1, <3>2 DEF judge, Completed, Failed, Passed
  <2> QED
    BY <1>2, <2>2, <2>3
<1> QED
  BY <1>4, <1>5

(* A verdict against such a half says how the evolved suite really compares. *)
THEOREM VerdictsAreTrue == Spec => []VerdictIsTrue
<1> QED
  BY StoreIsSound, SoundVerdict, PTL
=============================================================================
