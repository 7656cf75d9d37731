-------------------------- MODULE WorkerRun_proofs --------------------------
(***************************************************************************)
(* A batch of any size is answered once, entry by entry, and the call that *)
(* runs it keeps the contract its callers rely on, however often the child *)
(* is replaced, torn in the middle of a line or killed.                    *)
(*                                                                         *)
(* The inductive invariant is an account of the entries: what results      *)
(* holds and what is still to do share them out, and the lines of the      *)
(* child are the answers to the entries of its job below the one it is at. *)
(***************************************************************************)
EXTENDS WorkerRun, TLAPS, FiniteSetTheorems, SequenceTheorems

-----------------------------------------------------------------------------
(* Sets of entries and sequences of answers *)

SeedsOf(seq) == {seq[i].seed : i \in DOMAIN seq}
Distinct(seq) == \A i, j \in DOMAIN seq : seq[i].seed = seq[j].seed => i = j

\* Sets of entries are finite.
LEMMA EntriesFinite ==
  ASSUME NEW S \in SUBSET Entries
  PROVE  IsFiniteSet(S) /\ S \subseteq Nat
<1>1. IsFiniteSet(Entries)
  BY NAssumption, FS_Interval DEF Entries
<1>2. IsFiniteSet(S)
  BY <1>1, FS_Subset
<1>3. Entries \subseteq Nat
  BY NAssumption DEF Entries
<1> QED
  BY <1>2, <1>3

\* There is a first of some entries.
LEMMA MinIs ==
  ASSUME NEW S \in SUBSET Entries, S # {}
  PROVE  Min(S) \in S /\ \A y \in S : Min(S) <= y
<1>1. S \subseteq Nat \ {0}
  BY NAssumption DEF Entries
<1> DEFINE T == {1 .. x : x \in S}
<1>2. \A x \in S : IsFiniteSet(1 .. x) /\ 1 .. x \in SUBSET Nat
  BY <1>1, FS_Interval
<1>3. T \subseteq FiniteSubsetsOf(Nat) /\ T # {}
  BY <1>1, <1>2 DEF FiniteSubsetsOf
<1>4. PICK t \in T : \A u \in T : ~ (<<u, t>> \in StrictSubsetOrdering(Nat))
  BY <1>3, FS_StrictSubsetOrderingWellFounded, WFMin
<1>5. PICK x \in S : t = 1 .. x
  BY <1>4
<1>6. ASSUME NEW y \in S, y < x PROVE FALSE
  <2>1. 1 .. y \subseteq 1 .. x /\ 1 .. y # 1 .. x
    BY <1>1, <1>6
  <2>2. 1 .. y \in T /\ 1 .. y \subseteq Nat /\ 1 .. x \subseteq Nat
    BY <1>1
  <2>3. <<1 .. y, 1 .. x>> \in StrictSubsetOrdering(Nat)
    BY <2>1, <2>2 DEF StrictSubsetOrdering
  <2> QED
    BY <1>4, <1>5, <2>2, <2>3
<1>7. \A y \in S : x <= y
  BY <1>1, <1>6
<1> QED
  BY <1>7 DEF Min

\* SetToSeq lists a finite set, each element once.
LEMMA SetToSeqIs ==
  ASSUME NEW S, IsFiniteSet(S)
  PROVE  /\ SetToSeq(S) \in Seq(S)
         /\ \A x \in S : \E i \in DOMAIN SetToSeq(S) : SetToSeq(S)[i] = x
         /\ \A i \in DOMAIN SetToSeq(S) : SetToSeq(S)[i] \in S
         /\ \A i, j \in DOMAIN SetToSeq(S) : SetToSeq(S)[i] = SetToSeq(S)[j] => i = j
<1> DEFINE n == Cardinality(S)
<1>1. n \in Nat /\ ExistsBijection(1 .. n, S)
  BY FS_CardinalityType
<1>2. PICK f \in [1 .. n -> S] : IsInjective(f)
  BY <1>1 DEF ExistsBijection, Bijection, Injection, IsInjective
<1>3. SetToSeq(S) \in [1 .. n -> S] /\ IsInjective(SetToSeq(S))
  BY <1>2 DEF SetToSeq
<1>4. SetToSeq(S) \in Injection(1 .. n, S)
  BY <1>3 DEF Injection
<1>5. IsFiniteSet(1 .. n) /\ Cardinality(1 .. n) = n
  BY <1>1, FS_Interval
<1>6. SetToSeq(S) \in Surjection(1 .. n, S)
  BY <1>4, <1>5, FS_Injection
<1> QED
  BY <1>1, <1>3, <1>6 DEF Surjection, IsInjective

\* Two lists of answers to different entries make one.
LEMMA ConcatDistinct ==
  ASSUME NEW s \in Seq(Result), NEW t \in Seq(Result), Distinct(s), Distinct(t),
         SeedsOf(s) \cap SeedsOf(t) = {}
  PROVE  /\ s \o t \in Seq(Result) /\ Distinct(s \o t)
         /\ SeedsOf(s \o t) = SeedsOf(s) \cup SeedsOf(t)
         /\ Range(s \o t) = Range(s) \cup Range(t)
         /\ DOMAIN s \subseteq DOMAIN (s \o t) /\ \A i \in DOMAIN s : (s \o t)[i] = s[i]
<1>1. /\ s \o t \in Seq(Result)
      /\ Len(s) \in Nat /\ Len(t) \in Nat
      /\ DOMAIN s = 1 .. Len(s) /\ DOMAIN t = 1 .. Len(t)
      /\ DOMAIN (s \o t) = 1 .. (Len(s) + Len(t))
      /\ \A i \in 1 .. (Len(s) + Len(t)) :
            (s \o t)[i] = IF i <= Len(s) THEN s[i] ELSE t[i - Len(s)]
  BY ConcatProperties, LenProperties
<1>2. \A i \in DOMAIN s : i \in DOMAIN (s \o t) /\ (s \o t)[i] = s[i]
  BY <1>1
<1>3. \A i \in DOMAIN t : Len(s) + i \in DOMAIN (s \o t) /\ (s \o t)[Len(s) + i] = t[i]
  BY <1>1
<1>4. \A i \in DOMAIN (s \o t) :
         i \in DOMAIN s \/ \E k \in DOMAIN t : i = Len(s) + k
  <2> TAKE i \in DOMAIN (s \o t)
  <2>1. i <= Len(s) => i \in DOMAIN s
    BY <1>1
  <2>2. i > Len(s) => i - Len(s) \in DOMAIN t /\ i = Len(s) + (i - Len(s))
    BY <1>1
  <2> QED
    BY <1>1, <2>1, <2>2
<1>5. SeedsOf(s \o t) = SeedsOf(s) \cup SeedsOf(t)
  <2>1. ASSUME NEW i \in DOMAIN (s \o t)
        PROVE  (s \o t)[i].seed \in SeedsOf(s) \cup SeedsOf(t)
    BY <1>2, <1>3, <1>4 DEF SeedsOf
  <2>2. ASSUME NEW i \in DOMAIN s PROVE s[i].seed \in SeedsOf(s \o t)
    BY <1>2 DEF SeedsOf
  <2>3. ASSUME NEW i \in DOMAIN t PROVE t[i].seed \in SeedsOf(s \o t)
    BY <1>3 DEF SeedsOf
  <2> QED
    BY <2>1, <2>2, <2>3 DEF SeedsOf
<1>6. Range(s \o t) = Range(s) \cup Range(t)
  <2>1. ASSUME NEW i \in DOMAIN (s \o t) PROVE (s \o t)[i] \in Range(s) \cup Range(t)
    BY <1>2, <1>3, <1>4 DEF Range
  <2>2. ASSUME NEW i \in DOMAIN s PROVE s[i] \in Range(s \o t)
    BY <1>2 DEF Range
  <2>3. ASSUME NEW i \in DOMAIN t PROVE t[i] \in Range(s \o t)
    BY <1>3 DEF Range
  <2> QED
    BY <2>1, <2>2, <2>3 DEF Range
<1>7. Distinct(s \o t)
  <2> SUFFICES ASSUME NEW i \in DOMAIN (s \o t), NEW j \in DOMAIN (s \o t),
                      (s \o t)[i].seed = (s \o t)[j].seed
               PROVE  i = j
    BY DEF Distinct
  <2>1. ASSUME NEW a \in DOMAIN s, NEW b \in DOMAIN t PROVE s[a].seed # t[b].seed
    BY DEF SeedsOf
  <2>2. CASE i \in DOMAIN s /\ j \in DOMAIN s
    BY <1>2, <2>2 DEF Distinct
  <2>3. CASE i \in DOMAIN s /\ j \notin DOMAIN s
    BY <1>2, <1>3, <1>4, <2>1, <2>3
  <2>4. CASE i \notin DOMAIN s /\ j \in DOMAIN s
    BY <1>2, <1>3, <1>4, <2>1, <2>4
  <2>5. CASE i \notin DOMAIN s /\ j \notin DOMAIN s
    <3>1. PICK a \in DOMAIN t : i = Len(s) + a
      BY <1>4, <2>5
    <3>2. PICK b \in DOMAIN t : j = Len(s) + b
      BY <1>4, <2>5
    <3>3. a = b
      BY <1>3, <3>1, <3>2 DEF Distinct
    <3> QED
      BY <3>1, <3>2, <3>3
  <2> QED
    BY <2>2, <2>3, <2>4, <2>5
<1> QED
  BY <1>1, <1>2, <1>5, <1>6, <1>7

\* A list of distinct entries is as long as their set.
LEMMA DistinctCounts ==
  ASSUME NEW seq \in Seq(Row), Distinct(seq)
  PROVE  Cardinality(SeedsOf(seq)) = Len(seq) /\ Len(seq) <= N
<1> DEFINE f == [i \in 1 .. Len(seq) |-> seq[i].seed]
<1>1. Len(seq) \in Nat /\ DOMAIN seq = 1 .. Len(seq) /\ seq \in [1 .. Len(seq) -> Row]
  BY LenProperties
<1>2. f \in Bijection(1 .. Len(seq), SeedsOf(seq))
  BY <1>1 DEF Distinct, SeedsOf, Bijection, Injection, Surjection, IsInjective
<1>3. IsFiniteSet(1 .. Len(seq)) /\ Cardinality(1 .. Len(seq)) = Len(seq)
  BY <1>1, FS_Interval
<1>4. Cardinality(SeedsOf(seq)) = Len(seq)
  BY <1>2, <1>3, FS_Bijection DEF ExistsBijection
<1>5. SeedsOf(seq) \in SUBSET Entries
  BY <1>1 DEF SeedsOf, Row
<1>6. IsFiniteSet(Entries) /\ Cardinality(Entries) = N
  BY NAssumption, FS_Interval DEF Entries
<1> QED
  BY <1>4, <1>5, <1>6, FS_Subset

-----------------------------------------------------------------------------
(* The invariant *)

\* A child has been launched and is not yet collected.
Running == pc \in {"poll", "watch", "reap"}

\* The child's complete lines answer the entries of its job below the one it is at.
Answering ==
    /\ child = "alive" => pc \in {"poll", "watch"}
    /\ Running => /\ Distinct(rows)
                  /\ doing # "exit" => at \in todo /\ SeedsOf(rows) = {s \in todo : s < at}
                  /\ doing = "exit" => SeedsOf(rows) = todo

\* The entries are either answered or still to do.
Account ==
    /\ Distinct(results)
    /\ pc # "done" => todo # {} /\ SeedsOf(results) = Entries \ todo
    /\ pc = "done" => SeedsOf(results) = Entries

\* The call never raises, and no answer of a child is lost.
Kept ==
    /\ pc # "raised"
    /\ written \subseteq Range(results) \cup (IF Running THEN Range(rows) ELSE {})

\* What a caller that kills its workers relies on too: module CostMonitor.
Core == TypeOK /\ Answering /\ Account

Sound == Core /\ Kept

\* At the start everything is to do.
LEMMA InitSound == Init => Sound
<1> SUFFICES ASSUME Init PROVE Sound
  OBVIOUS
<1>1. Entries # {} /\ N \in Nat
  BY NAssumption DEF Entries
<1>2. <<>> \in Seq(Result) /\ <<>> \in Seq(Row) /\ SeedsOf(<<>>) = {} /\ Distinct(<<>>)
  BY DEF SeedsOf, Distinct
<1>3. TypeOK
  <2>1. results \in Seq(Result) /\ rows \in Seq(Row)
    BY <1>2 DEF Init
  <2>2. completed \in 0 .. N /\ at \in 0 .. N
    BY <1>1 DEF Init
  <2> QED
    BY <2>1, <2>2 DEF Init, TypeOK, Places, Doings, Statuses
<1>4. Answering /\ Account /\ Kept
  BY <1>1, <1>2 DEF Init, Answering, Account, Kept, Running
<1> QED
  BY <1>3, <1>4 DEF Sound, Core

\* A step that neither launches nor collects a child, nor finishes a row, keeps the core.
LEMMA MoveCore ==
  ASSUME Core, UNCHANGED <<kind, todo, results, at, rows, written>>,
         doing' \in Doings, doing = "exit" <=> doing' = "exit", half' \in Statuses,
         completed' \in 0 .. N, fresh' \in BOOLEAN, timed_out' \in BOOLEAN,
         child' \in {child, "dead"}, pc' = "reap" => child' # "alive",
         pc' = pc \/ {pc, pc'} \subseteq {"poll", "watch", "reap"}
  PROVE  Core' /\ (Running' <=> Running)
<1>1. TypeOK /\ Answering /\ Account
  BY DEF Core
<1>2. (Running' <=> Running) /\ (pc' = "done" <=> pc = "done")
  BY DEF Running
<1>3. TypeOK'
  BY <1>1 DEF TypeOK, Places
<1>4. Answering'
  BY <1>1, <1>2 DEF Answering, Running
<1>5. Account'
  BY <1>1, <1>2 DEF Account
<1> QED
  BY <1>2, <1>3, <1>4, <1>5 DEF Core

\* The counts of the coordinator stay counts.
LEMMA Counting ==
  ASSUME Core, Boot \/ RunSeed \/ BeginRow \/ Exit \/ Poll \/ Sleep \/ ExitSeen \/ Timeout
  PROVE  completed' \in 0 .. N /\ fresh' \in BOOLEAN /\ timed_out' \in BOOLEAN
<1>1. completed \in 0 .. N /\ fresh \in BOOLEAN /\ timed_out \in BOOLEAN
  BY DEF Core, TypeOK
<1>2. CASE Poll
  <2>1. rows \in Seq(Row) /\ Distinct(rows)
    BY <1>2 DEF Poll, Core, TypeOK, Answering, Running
  <2>2. Len(rows) \in 0 .. N
    BY <2>1, DistinctCounts, LenProperties, NAssumption
  <2> QED
    BY <1>1, <1>2, <2>2 DEF Poll
<1>3. CASE Boot \/ RunSeed \/ BeginRow \/ Exit \/ Sleep \/ ExitSeen \/ Timeout
  BY <1>1, <1>3 DEF Boot, RunSeed, BeginRow, Exit, Sleep, ExitSeen, Timeout, caller
<1> QED
  BY <1>2, <1>3

\* A step of the child between its rows, or of the coordinator beside a child, keeps the core.
LEMMA WaitingCore ==
  ASSUME Core, Boot \/ RunSeed \/ BeginRow \/ Exit \/ Poll \/ Sleep \/ ExitSeen \/ Timeout
  PROVE  Core' /\ (Running' <=> Running)
<1>1. UNCHANGED <<kind, todo, results, at, rows, written>>
  BY DEF Boot, RunSeed, BeginRow, Exit, Poll, Sleep, ExitSeen, Timeout, caller, worker
<1>2. doing' \in Doings /\ half' \in Statuses /\ (doing = "exit" <=> doing' = "exit")
  BY DEF Boot, RunSeed, BeginRow, Exit, Poll, Sleep, ExitSeen, Timeout, worker, Doings, Core, TypeOK
<1>3. /\ child' \in {child, "dead"} /\ (pc' = "reap" => child' # "alive")
      /\ pc' = pc \/ {pc, pc'} \subseteq {"poll", "watch", "reap"}
  BY DEF Boot, RunSeed, BeginRow, Exit, Poll, Sleep, ExitSeen, Timeout, caller, worker, Core, Answering
<1> QED
  BY <1>1, <1>2, <1>3, Counting, MoveCore

\* A finished row is the answer to the entry the child was at.
LEMMA FinishCore ==
  ASSUME Core, FinishRow
  PROVE  /\ Core' /\ Running /\ Running'
         /\ rows' = Append(rows, [seed |-> at, status |-> half])
         /\ Len(rows') = Len(rows) + 1
         /\ Range(rows') = Range(rows) \cup {[seed |-> at, status |-> half]}
         /\ SeedsOf(rows') = SeedsOf(rows) \cup {at}
<1>t. TypeOK /\ Answering /\ Account
  BY DEF Core
<1> DEFINE row == [seed |-> at, status |-> half]
           later == {s \in todo : s > at}
<1>1. /\ child = "alive" /\ doing # "exit" /\ Running
      /\ at \in todo /\ SeedsOf(rows) = {s \in todo : s < at}
      /\ rows' = Append(rows, row) /\ written' = written \cup {row}
      /\ later = {} => doing' = "exit" /\ at' = 0
      /\ later # {} => doing' = "work" /\ at' = Min(later)
      /\ UNCHANGED <<kind, pc, todo, completed, fresh, timed_out, results, child, half>>
  BY <1>t DEF FinishRow, caller, Answering, Running
<1>2. row \in Row /\ rows \in Seq(Row) /\ Distinct(rows) /\ later \in SUBSET Entries
  BY <1>t, <1>1 DEF TypeOK, Row, Answering
<1>3. /\ rows' \in Seq(Row) /\ Len(rows) \in Nat
      /\ DOMAIN rows = 1 .. Len(rows) /\ DOMAIN rows' = 1 .. (Len(rows) + 1)
      /\ rows'[Len(rows) + 1] = row /\ \A i \in DOMAIN rows : rows'[i] = rows[i]
  BY <1>1, <1>2
<1>4. SeedsOf(rows') = SeedsOf(rows) \cup {at}
  <2>1. \A i \in DOMAIN rows' : i \in DOMAIN rows \/ i = Len(rows) + 1
    BY <1>3
  <2>2. Len(rows) + 1 \in DOMAIN rows' /\ DOMAIN rows \subseteq DOMAIN rows'
    BY <1>3
  <2>3. ASSUME NEW i \in DOMAIN rows' PROVE rows'[i].seed \in SeedsOf(rows) \cup {at}
    BY <1>3, <2>1 DEF SeedsOf
  <2>4. ASSUME NEW i \in DOMAIN rows PROVE rows[i].seed \in SeedsOf(rows')
    BY <1>3, <2>2 DEF SeedsOf
  <2>5. at \in SeedsOf(rows')
    BY <1>3, <2>2 DEF SeedsOf
  <2> QED
    BY <2>3, <2>4, <2>5 DEF SeedsOf
<1>5. Distinct(rows')
  <2> SUFFICES ASSUME NEW i \in DOMAIN rows', NEW j \in DOMAIN rows',
                      rows'[i].seed = rows'[j].seed
               PROVE  i = j
    BY DEF Distinct
  <2>1. \A k \in DOMAIN rows : rows[k].seed < at
    BY <1>1 DEF SeedsOf
  <2>2. at \in Nat
    BY <1>1, <1>t, NAssumption DEF TypeOK, Entries
  <2>3. \A k \in DOMAIN rows' : k \in DOMAIN rows \/ k = Len(rows) + 1
    BY <1>3
  <2> QED
    BY <1>2, <1>3, <2>1, <2>2, <2>3 DEF Distinct
<1>6. Answering'
  <2>n. todo \subseteq Nat
    BY <1>t, EntriesFinite DEF TypeOK
  <2>1. doing' = "exit" => SeedsOf(rows') = todo
    <3>1. ASSUME later = {} PROVE \A s \in todo : s < at \/ s = at
      BY <1>1, <2>n, <3>1
    <3> QED
      BY <1>1, <1>4, <3>1
  <2>2. doing' # "exit" => at' \in todo /\ SeedsOf(rows') = {s \in todo : s < at'}
    <3>1. later # {} => at' \in later /\ \A y \in later : at' <= y
      BY <1>1, <1>2, MinIs
    <3>2. ASSUME later # {} PROVE \A s \in todo : s < at' <=> s < at \/ s = at
      <4>1. at \in Nat /\ at' \in Nat /\ at < at'
        BY <1>1, <2>n, <3>1, <3>2
      <4>2. \A s \in todo : s \in Nat /\ (s > at => at' <= s)
        BY <2>n, <3>1, <3>2
      <4> HIDE DEF row, later
      <4> QED
        BY <4>1, <4>2
    <3> QED
      BY <1>1, <1>4, <3>1, <3>2
  <2>3. /\ child' = child /\ pc' = pc /\ todo' = todo
        /\ child = "alive" => pc \in {"poll", "watch"}
    BY <1>t, <1>1 DEF Answering
  <2> HIDE DEF row, later
  <2> QED
    BY <1>5, <2>1, <2>2, <2>3 DEF Answering
<1>7. Range(rows') = Range(rows) \cup {row} /\ Account'
  <2>1. \A i \in DOMAIN rows : i \in DOMAIN rows'
    BY <1>3
  <2>2. Len(rows) + 1 \in DOMAIN rows'
    BY <1>3
  <2>3. \A i \in DOMAIN rows' : i \in DOMAIN rows \/ i = Len(rows) + 1
    BY <1>3
  <2>4. Range(rows') = Range(rows) \cup {row}
    BY <1>3, <2>1, <2>2, <2>3 DEF Range
  <2> QED
    BY <1>t, <1>1, <2>4 DEF Account
<1>8. TypeOK'
  <2>1. at' \in 0 .. N /\ doing' \in Doings
    <3>1. later # {} => Min(later) \in Entries
      BY <1>2, MinIs
    <3> QED
      BY <1>1, <3>1, NAssumption DEF Entries, Doings
  <2> QED
    BY <1>t, <1>1, <1>2, <1>3, <2>1 DEF TypeOK
<1>9. Running' /\ Len(rows') = Len(rows) + 1
  BY <1>1, <1>2 DEF Running
<1> QED
  BY <1>1, <1>3, <1>4, <1>6, <1>7, <1>8, <1>9 DEF Core

\* The made-up answers are for the blamed entry and, where no fresh process takes the rest, for
\* all of the rest.
LEMMA MadeUpIs ==
  ASSUME NEW blamed \in Entries, NEW rest \in SUBSET Entries, blamed \notin rest
  PROVE  /\ MadeUp(blamed, rest) \in Seq(Result) /\ Distinct(MadeUp(blamed, rest))
         /\ SeedsOf(MadeUp(blamed, rest)) =
               {blamed} \cup (IF kind = "worker" /\ ~timed_out THEN rest ELSE {})
         /\ \A r \in Range(MadeUp(blamed, rest)) : r.status \notin Statuses
<1> DEFINE one == <<Answer(blamed, IF timed_out THEN "timed_out" ELSE "exited")>>
           R == {Answer(s, "not_attempted") : s \in rest}
           more == IF kind = "worker" /\ ~timed_out THEN SetToSeq(R) ELSE <<>>
<1>1. /\ one \in Seq(Result) /\ Distinct(one) /\ SeedsOf(one) = {blamed}
      /\ \A r \in Range(one) : r.status \notin Statuses
  BY DEF Answer, Result, Statuses, Distinct, SeedsOf, Range
<1>2. R \subseteq Result /\ \A r \in R : r.seed \in rest /\ r = Answer(r.seed, "not_attempted")
  BY DEF Answer, Result, Statuses
<1>3. IsFiniteSet(R)
  <2>1. [s \in rest |-> Answer(s, "not_attempted")] \in Surjection(rest, R)
    BY DEF Surjection
  <2> QED
    BY <2>1, EntriesFinite, FS_Surjection
<1>4. /\ SetToSeq(R) \in Seq(R)
      /\ \A x \in R : \E i \in DOMAIN SetToSeq(R) : SetToSeq(R)[i] = x
      /\ \A i \in DOMAIN SetToSeq(R) : SetToSeq(R)[i] \in R
      /\ \A i, j \in DOMAIN SetToSeq(R) : SetToSeq(R)[i] = SetToSeq(R)[j] => i = j
  BY <1>3, SetToSeqIs
<1>5. SetToSeq(R) \in Seq(Result)
  BY <1>2, <1>4, SeqMonotonic
<1>6. Distinct(SetToSeq(R))
  <2> SUFFICES ASSUME NEW i \in DOMAIN SetToSeq(R), NEW j \in DOMAIN SetToSeq(R),
                      SetToSeq(R)[i].seed = SetToSeq(R)[j].seed
               PROVE  i = j
    BY DEF Distinct
  <2>1. SetToSeq(R)[i] = SetToSeq(R)[j]
    BY <1>2, <1>4
  <2> QED
    BY <1>4, <2>1
<1>7. SeedsOf(SetToSeq(R)) = rest
  <2>1. ASSUME NEW i \in DOMAIN SetToSeq(R) PROVE SetToSeq(R)[i].seed \in rest
    BY <1>2, <1>4
  <2>2. ASSUME NEW s \in rest PROVE s \in SeedsOf(SetToSeq(R))
    <3>1. PICK i \in DOMAIN SetToSeq(R) : SetToSeq(R)[i] = Answer(s, "not_attempted")
      BY <1>4
    <3>2. SetToSeq(R)[i].seed = s
      BY <3>1 DEF Answer
    <3> HIDE DEF R
    <3> QED
      BY <3>2 DEF SeedsOf
  <2> QED
    BY <2>1, <2>2 DEF SeedsOf
<1>8. /\ more \in Seq(Result) /\ Distinct(more)
      /\ SeedsOf(more) = IF kind = "worker" /\ ~timed_out THEN rest ELSE {}
      /\ \A r \in Range(more) : r.status \notin Statuses
  <2>1. <<>> \in Seq(Result) /\ Distinct(<<>>) /\ SeedsOf(<<>>) = {} /\ Range(<<>>) = {}
    BY DEF Distinct, SeedsOf, Range
  <2>2. \A r \in Range(SetToSeq(R)) : r.status \notin Statuses
    <3>1. \A r \in R : r.status \notin Statuses
      BY DEF Answer, Statuses
    <3> HIDE DEF R
    <3> QED
      BY <1>4, <3>1 DEF Range
  <2> QED
    BY <1>5, <1>6, <1>7, <2>1, <2>2
<1>9. MadeUp(blamed, rest) = one \o more
  BY DEF MadeUp
<1> HIDE DEF one, more
<1> QED
  BY <1>1, <1>8, <1>9, ConcatDistinct

\* Collecting a child keeps the core: never "duplicate/unrequested results", what is not answered
\* is still to do, no answer is lost, and none is made up that looks like a child's own; a fresh
\* process starts after the entry the child was at.
LEMMA CollectCore ==
  ASSUME Core, Collect
  PROVE  /\ Core' /\ pc' \in {"launch", "done"}
         /\ DOMAIN results \subseteq DOMAIN results'
         /\ \A i \in DOMAIN results : results'[i] = results[i]
         /\ Range(results) \cup Range(rows) \subseteq Range(results')
         /\ \A r \in Range(results') :
               r.status \in Statuses => r \in Range(results) \cup Range(rows)
         /\ pc' = "launch" => todo' \subseteq todo \ (SeedsOf(rows) \cup {at})
<1>t. /\ todo \subseteq Entries /\ results \in Seq(Result) /\ rows \in Seq(Row)
      /\ rows \in Seq(Result) /\ Distinct(rows) /\ SeedsOf(rows) \subseteq todo
      /\ Distinct(results) /\ todo # {} /\ SeedsOf(results) = Entries \ todo
      /\ pc = "reap"
      /\ doing # "exit" => at \in todo /\ SeedsOf(rows) = {s \in todo : s < at}
      /\ doing = "exit" => SeedsOf(rows) = todo
  <2>1. TypeOK /\ Answering /\ Account /\ pc = "reap"
    BY DEF Core, Collect
  <2>2. Row \subseteq Result
    BY DEF Row, Result
  <2>3. Distinct(rows) /\ SeedsOf(rows) \subseteq todo
    BY <2>1 DEF Answering, Running
  <2> QED
    BY <2>1, <2>2, <2>3, SeqMonotonic DEF TypeOK, Answering, Account, Running
<1>1. Seen = SeedsOf(rows)
  BY DEF Seen, Complete, SeedsOf
<1>2. ~Unsound
  BY <1>t, <1>1, DistinctCounts DEF Unsound, Complete
<1> DEFINE pending == todo \ Seen
           blamed == Min(pending)
           rest == pending \ {blamed}
           answered == results \o rows
<1>3. /\ answered \in Seq(Result) /\ Distinct(answered)
      /\ SeedsOf(answered) = Entries \ pending
      /\ Range(answered) = Range(results) \cup Range(rows)
      /\ DOMAIN results \subseteq DOMAIN answered
      /\ \A i \in DOMAIN results : answered[i] = results[i]
  <2>1. SeedsOf(results) \cap SeedsOf(rows) = {}
    BY <1>t
  <2> QED
    BY <1>t, <1>1, <2>1, ConcatDistinct
<1>c. /\ child' = "none" /\ ~Running'
      /\ UNCHANGED <<kind, completed, fresh, timed_out, at, doing, half, rows, written>>
  BY <1>1, <1>2 DEF Collect, Running
<1>4. ASSUME todo' \subseteq Entries, results' \in Seq(Result), pc' \in {"launch", "done"},
             Account'
      PROVE  Core'
  <2>1. TypeOK'
    BY <1>4, <1>c DEF Core, TypeOK, Places
  <2>2. Answering'
    BY <1>c DEF Answering
  <2> QED
    BY <1>4, <2>1, <2>2 DEF Core
<1>5. CASE pending = {}
  <2>1. results' = answered /\ pc' = "done" /\ todo' = todo
    BY <1>2, <1>5 DEF Collect, Complete
  <2>2. Account'
    BY <1>3, <1>5, <2>1 DEF Account
  <2> HIDE DEF answered
  <2> QED
    BY <1>t, <1>3, <1>4, <2>1, <2>2
<1>6. CASE pending # {}
  <2> DEFINE made == MadeUp(blamed, rest)
  <2>1. blamed \in pending /\ pending \subseteq Entries /\ \A y \in pending : blamed <= y
    BY <1>t, <1>6, MinIs
  <2>2. /\ results' = answered \o made
        /\ Again(rest) => todo' = rest /\ pc' = "launch"
        /\ ~Again(rest) => pc' = "done" /\ todo' = todo
    BY <1>2, <1>6 DEF Collect, Complete
  <2>3. /\ made \in Seq(Result) /\ Distinct(made)
        /\ SeedsOf(made) = {blamed} \cup (IF kind = "worker" /\ ~timed_out THEN rest ELSE {})
        /\ \A r \in Range(made) : r.status \notin Statuses
    BY <2>1, MadeUpIs
  <2>4. SeedsOf(made) = IF Again(rest) THEN {blamed} ELSE pending
    <3>1. kind \in {"worker", "verifier"}
      BY DEF Core, TypeOK, Kinds
    <3> HIDE DEF made
    <3> QED
      BY <2>1, <2>3, <3>1 DEF Again
  <2>5. /\ results' \in Seq(Result) /\ Distinct(results')
        /\ SeedsOf(results') = (Entries \ pending) \cup SeedsOf(made)
        /\ Range(results') = Range(answered) \cup Range(made)
        /\ DOMAIN answered \subseteq DOMAIN results'
        /\ \A i \in DOMAIN answered : results'[i] = answered[i]
    <3>1. SeedsOf(answered) \cap SeedsOf(made) = {}
      BY <1>3, <2>1, <2>4
    <3> HIDE DEF made, pending, answered
    <3> DEFINE all == answered \o made
    <3>3. /\ all \in Seq(Result) /\ Distinct(all)
          /\ SeedsOf(all) = (Entries \ pending) \cup SeedsOf(made)
          /\ Range(all) = Range(answered) \cup Range(made)
          /\ DOMAIN answered \subseteq DOMAIN all
          /\ \A i \in DOMAIN answered : all[i] = answered[i]
      BY <1>3, <2>3, <3>1, ConcatDistinct
    <3>4. results' = all
      BY <2>2
    <3> HIDE DEF all
    <3> QED
      BY <3>3, <3>4
  <2>6. /\ Range(results) \cup Range(rows) \subseteq Range(results')
        /\ \A r \in Range(results') : r.status \in Statuses => r \in Range(results) \cup Range(rows)
        /\ DOMAIN results \subseteq DOMAIN results'
        /\ \A i \in DOMAIN results : results'[i] = results[i]
    <3> HIDE DEF made, pending, answered
    <3> QED
      BY <1>3, <2>3, <2>5
  <2>7. CASE Again(rest)
    <3>1. rest # {} /\ SeedsOf(results') = Entries \ rest
      BY <2>1, <2>4, <2>5, <2>7 DEF Again
    <3>2. Account' /\ todo' \subseteq Entries
      BY <2>1, <2>2, <2>5, <2>7, <3>1 DEF Account
    <3>3. blamed = at
      <4>1. todo \subseteq Nat
        BY <1>t, EntriesFinite
      <4>2. at \in pending /\ \A y \in pending : ~(y < at)
        <5>1. doing # "exit"
          BY <1>t, <1>1, <1>6
        <5>2. at \in todo /\ Seen = {s \in todo : s < at}
          BY <1>t, <1>1, <5>1
        <5> QED
          BY <4>1, <5>2
      <4>3. blamed \in Nat /\ at \in Nat
        BY <2>1, <4>1, <4>2
      <4> HIDE DEF blamed, pending
      <4> QED
        BY <2>1, <4>2, <4>3
    <3>4. todo' \subseteq todo \ (SeedsOf(rows) \cup {at})
      BY <1>1, <2>2, <2>7, <3>3
    <3> QED
      BY <1>4, <2>2, <2>5, <2>6, <2>7, <3>2, <3>4
  <2>8. CASE ~Again(rest)
    <3>1. SeedsOf(results') = Entries
      BY <2>1, <2>4, <2>5, <2>8
    <3>2. Account' /\ todo' \subseteq Entries
      BY <1>t, <2>2, <2>5, <2>8, <3>1 DEF Account
    <3> QED
      BY <1>4, <2>2, <2>5, <2>6, <2>8, <3>2
  <2> QED
    BY <2>7, <2>8
<1> QED
  BY <1>5, <1>6

\* A launched child is at the first entry of its job.
LEMMA LaunchCore ==
  ASSUME Core, Launch
  PROVE  /\ Core' /\ Running' /\ at' \in todo'
         /\ rows' = <<>> /\ SeedsOf(rows') = {} /\ Range(rows') = {}
<1>t. TypeOK /\ Answering /\ Account
  BY DEF Core
<1>1. /\ pc = "launch" /\ pc' = "poll" /\ child' = "alive" /\ at' = Min(todo) /\ doing' = "boot"
      /\ half' = "ok" /\ rows' = <<>> /\ completed' = 0 /\ fresh' = FALSE /\ timed_out' = FALSE
      /\ UNCHANGED <<kind, todo, results, written>>
  BY DEF Launch
<1>2. Min(todo) \in todo /\ \A s \in todo : Min(todo) <= s
  BY <1>t, <1>1, MinIs DEF TypeOK, Account
<1>3. Min(todo) \in 0 .. N /\ 0 \in 0 .. N /\ todo \subseteq Nat
  <2>1. todo \in SUBSET Entries
    BY <1>t DEF TypeOK
  <2>2. todo \subseteq Nat /\ Min(todo) \in Entries
    BY <1>2, <2>1, EntriesFinite
  <2> QED
    BY <2>2, NAssumption DEF Entries
<1>4. <<>> \in Seq(Row) /\ SeedsOf(<<>>) = {} /\ Distinct(<<>>) /\ Range(<<>>) = {}
  BY DEF SeedsOf, Distinct, Range
<1>5. TypeOK'
  <2>1. rows' \in Seq(Row) /\ completed' \in 0 .. N /\ at' \in 0 .. N
    BY <1>1, <1>3, <1>4
  <2>2. UNCHANGED <<kind, todo, results, written>>
    BY <1>1
  <2>3. /\ pc' \in Places /\ child' \in {"none", "alive", "dead"} /\ doing' \in Doings
        /\ half' \in Statuses /\ fresh' \in BOOLEAN /\ timed_out' \in BOOLEAN
    BY <1>1 DEF Places, Doings, Statuses
  <2> QED
    BY <1>t, <2>1, <2>2, <2>3 DEF TypeOK
<1>6. SeedsOf(<<>>) = {s \in todo : s < Min(todo)}
  <2>1. \A s \in todo : s \in Nat /\ Min(todo) \in Nat /\ Min(todo) <= s
    BY <1>2, <1>3
  <2>2. \A s \in todo : ~(s < Min(todo))
    BY <2>1
  <2> QED
    BY <1>4, <2>2
<1>7. Answering'
  <2>1. /\ child' = "alive" /\ pc' = "poll" /\ doing' = "boot" /\ at' \in todo'
        /\ Distinct(rows') /\ SeedsOf(rows') = {s \in todo' : s < at'}
    BY <1>1, <1>2, <1>4, <1>6
  <2> QED
    BY <2>1 DEF Answering
<1>8. Account'
  BY <1>t, <1>1 DEF Account
<1>9. SeedsOf(rows') = {} /\ Range(rows') = {}
  BY <1>1, <1>4
<1> QED
  BY <1>1, <1>2, <1>5, <1>7, <1>8, <1>9 DEF Core, Running

\* Every step keeps the invariant.
LEMMA NextSound ==
  ASSUME Sound, [Next]_vars
  PROVE  Sound'
<1>t. Core /\ Kept
  BY DEF Sound
<1>1. CASE Boot \/ RunSeed \/ BeginRow \/ Exit \/ Poll \/ Sleep \/ ExitSeen \/ Timeout
  <2>1. Core' /\ (Running' <=> Running)
    BY <1>t, <1>1, WaitingCore
  <2>2. UNCHANGED <<results, rows, written>> /\ pc' # "raised"
    BY <1>t, <1>1 DEF Boot, RunSeed, BeginRow, Exit, Poll, Sleep, ExitSeen, Timeout, caller, worker,
         Kept
  <2> QED
    BY <1>t, <2>1, <2>2 DEF Sound, Kept
<1>2. CASE FinishRow
  <2>1. /\ Core' /\ Running /\ Running'
        /\ Range(rows') = Range(rows) \cup {[seed |-> at, status |-> half]}
    BY <1>t, <1>2, FinishCore
  <2>2. /\ written' = written \cup {[seed |-> at, status |-> half]}
        /\ UNCHANGED <<pc, results>>
    BY <1>2 DEF FinishRow, caller
  <2> QED
    BY <1>t, <2>1, <2>2 DEF Sound, Kept
<1>3. CASE Launch
  <2>1. Core' /\ Running' /\ Range(rows') = {}
    BY <1>t, <1>3, LaunchCore
  <2>2. ~Running /\ pc' # "raised" /\ UNCHANGED <<results, written>>
    BY <1>3 DEF Launch, Running
  <2> QED
    BY <1>t, <2>1, <2>2 DEF Sound, Kept
<1>4. CASE Collect
  <2>1. /\ Core' /\ pc' \in {"launch", "done"}
        /\ Range(results) \cup Range(rows) \subseteq Range(results')
    BY <1>t, <1>4, CollectCore
  <2>2. written' = written /\ Running
    BY <1>4 DEF Collect, Running
  <2> QED
    BY <1>t, <2>1, <2>2 DEF Sound, Kept
<1>5. CASE UNCHANGED vars
  BY <1>5, <1>t DEF vars, caller, worker, Sound, Core, TypeOK, Answering, Account, Kept, Running
<1> QED
  BY <1>1, <1>2, <1>3, <1>4, <1>5 DEF Next, Watching, Working

-----------------------------------------------------------------------------
(* The theorems *)

\* What run_worker and verify_chunk return has exactly one row for every entry, and no answer
\* that a child completed is lost, for a batch of any size.
THEOREM BatchesAreAnswered == Spec => []AnsweredOnce
<1>1. Sound => AnsweredOnce
  <2> SUFFICES ASSUME Sound, pc = "done" PROVE AnsweredOnce
    BY DEF AnsweredOnce
  <2>1. Distinct(results) /\ SeedsOf(results) = Entries /\ written \subseteq Range(results)
    BY DEF Sound, Core, Account, Kept, Running
  <2>2. ASSUME NEW s \in Entries
        PROVE  Cardinality({i \in DOMAIN results : results[i].seed = s}) = 1
    <3>1. PICK i \in DOMAIN results : results[i].seed = s
      BY <2>1 DEF SeedsOf
    <3>2. {j \in DOMAIN results : results[j].seed = s} = {i}
      BY <2>1, <3>1 DEF Distinct
    <3> QED
      BY <3>2, FS_Singleton
  <2> QED
    BY <2>1, <2>2 DEF AnsweredOnce
<1> QED
  BY InitSound, NextSound, <1>1, PTL DEF Spec

-----------------------------------------------------------------------------
(* Refinement *)

\* The answer a list of results gives an entry.
AnswerIn(seq, s) ==
    LET given == {i \in DOMAIN seq : seq[i].seed = s}
    IN IF given = {} THEN "none" ELSE seq[Max(given)].status

\* In a list of distinct entries, an entry has the answer of its row, or none.
LEMMA AnswerInIs ==
  ASSUME NEW seq \in Seq(Result), Distinct(seq)
  PROVE  /\ \A i \in DOMAIN seq : AnswerIn(seq, seq[i].seed) = seq[i].status
         /\ \A s \in SeedsOf(seq) : AnswerIn(seq, s) \in {r.status : r \in Result}
         /\ \A s \in Entries \ SeedsOf(seq) : AnswerIn(seq, s) = "none"
<1>1. DOMAIN seq \subseteq Nat /\ \A i \in DOMAIN seq : seq[i] \in Result
  BY LenProperties, ElementOfSeq
<1>2. ASSUME NEW i \in DOMAIN seq
      PROVE  AnswerIn(seq, seq[i].seed) = seq[i].status
  <2>1. {j \in DOMAIN seq : seq[j].seed = seq[i].seed} = {i}
    BY DEF Distinct
  <2>2. Max({i}) = i
    BY <1>1 DEF Max
  <2> QED
    BY <2>1, <2>2 DEF AnswerIn
<1>3. ASSUME NEW s \in SeedsOf(seq)
      PROVE  AnswerIn(seq, s) \in {r.status : r \in Result}
  BY <1>1, <1>2 DEF SeedsOf
<1>4. ASSUME NEW s \in Entries \ SeedsOf(seq)
      PROVE  AnswerIn(seq, s) = "none"
  <2>1. {j \in DOMAIN seq : seq[j].seed = s} = {}
    BY DEF SeedsOf
  <2> QED
    BY <2>1 DEF AnswerIn
<1> QED
  BY <1>2, <1>3, <1>4

\* The answers of the contract.
Given == Statuses \cup {"timed_out", "exited", "not_attempted"}

\* Every step of the program is a step of the contract, or none.
LEMMA NextRefines ==
  ASSUME Sound, [Next]_vars
  PROVE  [Contract!Step]_<<[s \in Entries |-> AnswerOf(s)], ~Ended>>
<1>a. /\ \A s \in Entries : AnswerOf(s) = AnswerIn(results, s)
      /\ \A s \in Entries : AnswerOf(s)' = AnswerIn(results', s)
  BY DEF AnswerOf, AnswerIn
<1>1. CASE results' = results /\ (Ended' <=> Ended)
  <2>1. [s \in Entries |-> AnswerOf(s)]' = [s \in Entries |-> AnswerOf(s)]
    BY <1>a, <1>1
  <2> QED
    BY <1>1, <2>1
<1>2. CASE Collect
  <2>1. /\ results \in Seq(Result) /\ Distinct(results) /\ SeedsOf(results) = Entries \ todo
        /\ pc = "reap" /\ todo \subseteq Entries /\ todo # {}
    BY <1>2 DEF Sound, Core, TypeOK, Account, Collect
  <2>2. /\ results' \in Seq(Result) /\ Distinct(results') /\ pc' \in {"launch", "done"}
        /\ pc' = "done" => SeedsOf(results') = Entries
        /\ pc' # "done" => todo' # {} /\ todo' \subseteq Entries
                           /\ SeedsOf(results') = Entries \ todo'
        /\ DOMAIN results \subseteq DOMAIN results'
        /\ \A i \in DOMAIN results : results'[i] = results[i]
    BY <1>2, CollectCore DEF Sound, Core, Account, TypeOK
  <2> DEFINE old == [s \in Entries |-> AnswerIn(results, s)]
             new == [s \in Entries |-> AnswerIn(results', s)]
             some == SeedsOf(results') \ SeedsOf(results)
             given == [s \in some |-> AnswerIn(results', s)]
  <2>3. \A r \in Result : r.status \in Given /\ r.status # "none"
    BY DEF Result, Given, Statuses
  <2>4. \A s \in SeedsOf(results) : old[s] # "none" /\ new[s] = old[s]
    <3> TAKE s \in SeedsOf(results)
    <3>1. PICK i \in DOMAIN results : s = results[i].seed
      BY DEF SeedsOf
    <3>2. AnswerIn(results, s) = results[i].status
      BY <2>1, <3>1, AnswerInIs
    <3>3. AnswerIn(results', s) = results'[i].status
      BY <2>2, <3>1, AnswerInIs
    <3>4. results[i] \in Result /\ s \in Entries
      BY <2>1, LenProperties, ElementOfSeq
    <3> QED
      BY <2>2, <2>3, <3>2, <3>3, <3>4
  <2>5. {s \in Entries : old[s] = "none"} = todo
    <3>1. \A s \in todo : AnswerIn(results, s) = "none"
      BY <2>1, AnswerInIs
    <3> QED
      BY <2>1, <2>4, <3>1
  <2>6. some \in SUBSET todo /\ given \in [some -> Given]
    <3>1. \A s \in some : s \in todo
      BY <2>1, <2>2
    <3>2. \A s \in some : AnswerIn(results', s) \in Given
      BY <2>2, <2>3, AnswerInIs
    <3> QED
      BY <3>1, <3>2
  <2>7. new = [s \in Entries |-> IF s \in some THEN given[s] ELSE old[s]]
    <3>1. ASSUME NEW s \in Entries
          PROVE  new[s] = IF s \in some THEN given[s] ELSE old[s]
      <4>1. CASE s \in SeedsOf(results)
        BY <2>4, <4>1
      <4>2. CASE s \in some
        BY <4>2
      <4>3. CASE s \notin SeedsOf(results') \cup SeedsOf(results)
        BY <2>1, <2>2, <4>3, AnswerInIs
      <4> QED
        BY <4>1, <4>2, <4>3
    <3> QED
      BY <3>1
  <2>8. ~Ended /\ (~Ended' <=> some # todo)
    <3>1. \A s \in SeedsOf(results) : s \in SeedsOf(results')
      BY <2>2 DEF SeedsOf
    <3>2. CASE pc' = "done"
      BY <2>1, <2>2, <3>2 DEF Ended
    <3>3. CASE pc' = "launch"
      <4>1. PICK t \in todo' : t \in Entries /\ t \notin SeedsOf(results')
        BY <2>2, <3>3
      <4>2. t \in todo /\ t \notin some
        BY <2>1, <3>1, <4>1
      <4> HIDE DEF some
      <4> QED
        BY <2>1, <3>3, <4>2 DEF Ended
    <3> QED
      BY <2>2, <3>2, <3>3
  <2>9. /\ [s \in Entries |-> AnswerOf(s)] = old
        /\ [s \in Entries |-> AnswerOf(s)]' = new
    BY <1>a
  <2>10. Contract!Step
    <3> HIDE DEF old, new, some, given
    <3> QED
      BY <2>5, <2>6, <2>7, <2>8, <2>9 DEF Contract!Step, Contract!Unanswered, Given
  <2> QED
    BY <2>10
<1>3. CASE UNCHANGED vars \/ Working \/ Launch \/ Poll \/ Sleep \/ Timeout \/ ExitSeen
  <2>1. results' = results /\ (Ended' <=> Ended)
    BY <1>3 DEF vars, caller, worker, Working, Boot, RunSeed, BeginRow, FinishRow, Exit, Launch,
         Poll, Sleep, Timeout, ExitSeen, Ended
  <2> QED
    BY <1>1, <2>1
<1> QED
  BY <1>2, <1>3 DEF Next, Watching

\* A call is a batch of the contract: answers come once and stand, and the call returns with all
\* of them, never by raising "duplicate/unrequested results".
THEOREM CallsKeepTheContract == Spec => ImplementsContract
<1>1. Init => Contract!Init
  <2> SUFFICES ASSUME Init PROVE Contract!Init
    OBVIOUS
  <2>1. \A s \in Entries : AnswerOf(s) = "none"
    BY DEF Init, AnswerOf
  <2> QED
    BY <2>1 DEF Contract!Init, Init, Ended
<1> QED
  BY InitSound, NextSound, NextRefines, <1>1, PTL DEF Spec, ImplementsContract, Contract!Spec
=============================================================================
