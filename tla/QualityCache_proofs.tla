------------------------ MODULE QualityCache_proofs ------------------------
(***************************************************************************)
(* Proofs about QualityCache, for any sessions over one entry, any number   *)
(* of seeds and any kills: a completed stage observed every item once and   *)
(* has the evidence of its failures, and an entry that an audit blames is   *)
(* invalid for good.                                                       *)
(*                                                                         *)
(* The inductive invariant keeps two accounts for each session.  Booked:    *)
(* what observations.jsonl holds and what is still to do are all items,     *)
(* and share none but the one that is being stored.  Storing: who writes    *)
(* into the entry holds its lock, and the entry is not invalid.            *)
(***************************************************************************)
EXTENDS QualityCache, TLAPS, FiniteSetTheorems, SequenceTheorems

\* The items with an observation.
Seen(s) == {obs[s][n].item : n \in DOMAIN obs[s]}

Storing == {"copy", "hash", "write"}
Committed == {"store"} \cup Storing
Judging == {"audit", "invalidate", "aggregate", "complete"}

Booked(s) ==
    /\ \A n, m \in DOMAIN obs[s] : obs[s][n].item = obs[s][m].item => n = m
    /\ \A n \in DOMAIN obs[s] : obs[s][n].out = Error => obs[s][n].item \in failures[s]
    /\ pc[s] # "off" => Items \subseteq Seen(s) \cup todo[s]
    /\ \A i \in todo[s] : i \in Seen(s) => pc[s] \in Committed /\ i = Next_item(s)
    /\ \A k \in look[s] : <<"baseline", k>> \in todo[s]
    /\ pc[s] # "replay" => look[s] = {}
    /\ pc[s] \in Judging => todo[s] = {}
    /\ pc[s] = "complete" /\ C0[s] = "passed" => \A n \in DOMAIN obs[s] : obs[s][n].out \in Sound

Stores(s) ==
    /\ pc[s] \in Committed =>
          /\ Next_item(s) \in todo[s] \cap Seen(s) /\ Next_item(s)[1] = "baseline"
          /\ made[s][Next_item(s)] \in Outputs
    /\ pc[s] \in Storing => s \in readers /\ exists /\ ~invalid
    /\ pc[s] \in {"hash", "write"} => files[Next_item(s)[2]] \in Outputs
    /\ pc[s] = "write" => sha[s] \in Outputs
    /\ touched[s] => exists
    /\ pc[s] \in {"aggregate", "complete"} /\ audit[s] = "unresolved" /\ touched[s] => invalid

Entry ==
    /\ invalid => exists
    /\ \A k \in Seeds : rows[k] # NoRow => exists

Consistent == TypeOK /\ Entry /\ \A s \in Sessions : Booked(s) /\ Stores(s)

-----------------------------------------------------------------------------
(* Items, seeds and rows *)

\* Some positive numbers have a least one.
LEMMA LeastIs ==
  ASSUME NEW S \in SUBSET (Nat \ {0}), S # {}
  PROVE  \E x \in S : \A y \in S : x <= y
<1> DEFINE T == {1 .. x : x \in S}
<1>2. \A x \in S : IsFiniteSet(1 .. x) /\ 1 .. x \in SUBSET Nat
  BY FS_Interval
<1>3. T \subseteq FiniteSubsetsOf(Nat) /\ T # {}
  BY <1>2 DEF FiniteSubsetsOf
<1>4. PICK t \in T : \A u \in T : ~ (<<u, t>> \in StrictSubsetOrdering(Nat))
  BY <1>3, FS_StrictSubsetOrderingWellFounded, WFMin
<1>5. PICK x \in S : t = 1 .. x
  BY <1>4
<1>6. ASSUME NEW y \in S, y < x PROVE FALSE
  <2>1. 1 .. y \subseteq 1 .. x /\ 1 .. y # 1 .. x
    BY <1>6
  <2>2. 1 .. y \in T /\ 1 .. y \subseteq Nat /\ 1 .. x \subseteq Nat
    OBVIOUS
  <2>3. <<1 .. y, 1 .. x>> \in StrictSubsetOrdering(Nat)
    BY <2>1, <2>2 DEF StrictSubsetOrdering
  <2> QED
    BY <1>4, <1>5, <2>2, <2>3
<1> QED
  BY <1>6

\* The least of some seeds is one of them.
LEMMA MinIs ==
  ASSUME NEW S \in SUBSET Seeds, S # {}
  PROVE  Min(S) \in S
<1>1. \E x \in S : \A y \in S : x <= y
  BY LeastIs, NAssumption DEF Seeds
<1> QED
  BY <1>1 DEF Min

\* The earliest of some items is one of them.
LEMMA EarliestIs ==
  ASSUME NEW items \in SUBSET Items, items # {}
  PROVE  Earliest(items) \in items
<1> DEFINE places == {Place(i) : i \in items}
<1>1. \A i \in items : Place(i) \in Nat \ {0}
  BY NAssumption DEF Items, Seeds, Place
<1>2. places \in SUBSET (Nat \ {0}) /\ places # {}
  BY <1>1
<1>3. PICK x \in places : \A y \in places : x <= y
  BY <1>2, LeastIs
<1>4. PICK i \in items : x = Place(i)
  BY <1>3
<1>5. \A j \in items : Place(i) <= Place(j)
  BY <1>3, <1>4
<1> HIDE DEF places
<1> QED
  BY <1>5 DEF Earliest

\* A row at the end of some others.
LEMMA AppendIs ==
  ASSUME NEW seq \in Seq(Row), NEW row \in Row
  PROVE  /\ Append(seq, row) \in Seq(Row)
         /\ DOMAIN Append(seq, row) = DOMAIN seq \cup {Len(seq) + 1}
         /\ Len(seq) + 1 \notin DOMAIN seq
         /\ \A n \in DOMAIN seq : Append(seq, row)[n] = seq[n]
         /\ Append(seq, row)[Len(seq) + 1] = row
<1>1. Len(seq) \in Nat /\ DOMAIN seq = 1 .. Len(seq)
  BY LenProperties
<1>2. /\ Append(seq, row) \in Seq(Row) /\ Len(Append(seq, row)) = Len(seq) + 1
      /\ \A n \in 1 .. Len(seq) : Append(seq, row)[n] = seq[n]
      /\ Append(seq, row)[Len(seq) + 1] = row
  BY AppendProperties
<1>3. DOMAIN Append(seq, row) = 1 .. Len(seq) + 1
  BY <1>2, LenProperties
<1> QED
  BY <1>1, <1>2, <1>3

-----------------------------------------------------------------------------
(* Steps *)

LEMMA InitSound == Init => Consistent
<1> SUFFICES ASSUME Init PROVE Consistent
  OBVIOUS
<1>1. TypeOK
  <2>1. obs \in [Sessions -> Seq(Row)]
    BY EmptySeq DEF Init
  <2>2. 0 \in 0 .. MaxOdd /\ 0 \in 0 .. MaxKills
    BY BoundsAssumption
  <2> QED
    BY <2>1, <2>2 DEF Init, TypeOK, Nothing, Places, None
<1>2. \A s \in Sessions : DOMAIN obs[s] = {}
  BY DEF Init
<1> QED
  BY <1>1, <1>2 DEF Init, Consistent, Entry, Booked, Stores, Seen, Judging, Committed, Storing

\* A step of another session leaves a session's accounts in order.
LEMMA OthersSound ==
  ASSUME Consistent, NEW t \in Sessions,
         pc'[t] = pc[t], look'[t] = look[t], todo'[t] = todo[t], made'[t] = made[t],
         sha'[t] = sha[t], obs'[t] = obs[t], failures'[t] = failures[t], audit'[t] = audit[t],
         C0'[t] = C0[t], touched'[t] = touched[t],
         t \in readers => t \in readers', exists => exists', invalid => invalid',
         invalid' => invalid \/ readers = {},
         \A k \in Seeds : files[k] \in Outputs => files'[k] \in Outputs
  PROVE  Booked(t)' /\ Stores(t)'
<1>1. Booked(t) /\ Stores(t) /\ TypeOK
  BY DEF Consistent
<1>2. Next_item(t)' = Next_item(t) /\ Seen(t)' = Seen(t)
  BY DEF Next_item, Seen
<1>3. Booked(t)'
  BY <1>1, <1>2 DEF Booked
<1>4. pc[t] \in Committed => Next_item(t)[2] \in Seeds
  BY <1>1 DEF Stores, TypeOK, Items
<1>5. pc'[t] \in Storing => t \in readers' /\ exists' /\ ~invalid'
  BY <1>1 DEF Stores
<1>6. pc'[t] \in {"hash", "write"} => files'[Next_item(t)[2]] \in Outputs
  BY <1>1, <1>4 DEF Stores, Committed, Storing
<1>7. Stores(t)'
  BY <1>1, <1>2, <1>5, <1>6 DEF Stores
<1> QED
  BY <1>3, <1>7

\* What a step may do: keep the invariant, and nothing to an entry that is invalid.
Safe == Consistent' /\ (invalid => invalid' /\ UNCHANGED <<rows, files>>)

\* A session begins: nothing is planned or observed.
LEMMA BeginSound ==
  ASSUME Consistent, NEW s \in Sessions, Begin(s)
  PROVE  Safe
<1>1. TypeOK /\ Entry /\ Booked(s) /\ Stores(s)
  BY DEF Consistent
<1>2. /\ pc[s] = "off" /\ pc' = [pc EXCEPT ![s] = "replay"]
      /\ todo' = [todo EXCEPT ![s] = Missing(s)]
      /\ look' = [look EXCEPT ![s] =
                    IF invalid THEN {} ELSE {k \in Seeds : <<"baseline", k>> \in Missing(s)}]
      /\ cache' = [cache EXCEPT ![s] = ~invalid] /\ made' = [made EXCEPT ![s] = Nothing]
      /\ UNCHANGED <<sha, obs, torn, failures, audit, C0, touched, rows, files, exists, invalid,
                     readers, odd, kills>>
  BY DEF Begin, Goto, disk, entry
<1>3. Missing(s) \subseteq Items /\ Nothing \in [Items -> Outputs \cup {None, Error}]
  BY DEF Missing, Nothing
<1>4. TypeOK'
  BY <1>1, <1>2, <1>3 DEF TypeOK, Places
<1>5. /\ pc'[s] = "replay" /\ todo'[s] = Missing(s)
      /\ \A k \in look'[s] : <<"baseline", k>> \in todo'[s]
  BY <1>1, <1>2 DEF TypeOK
<1>6. Booked(s)'
  <2>1. Seen(s)' = Seen(s)
    BY <1>2 DEF Seen
  <2>2. Items \subseteq Seen(s) \cup Missing(s) /\ \A i \in Missing(s) : i \notin Seen(s)
    BY DEF Seen, Missing
  <2> QED
    BY <1>1, <1>2, <1>5, <2>1, <2>2 DEF Booked, Judging
<1>7. Stores(s)'
  BY <1>1, <1>2, <1>5 DEF Stores, Committed, Storing
<1>8. \A t \in Sessions \ {s} : Booked(t)' /\ Stores(t)'
  BY <1>1, <1>2, OthersSound DEF TypeOK
<1>9. Entry'
  BY <1>1, <1>2 DEF Entry
<1> QED
  BY <1>2, <1>4, <1>6, <1>7, <1>8, <1>9 DEF Consistent, Safe

\* A stored item is replayed: its observation is the store's.
LEMMA ReplaySound ==
  ASSUME Consistent, NEW s \in Sessions, Replay(s)
  PROVE  Safe
<1>1. TypeOK /\ Entry /\ Booked(s) /\ Stores(s)
  BY DEF Consistent
<1> DEFINE k == Min(look[s])
           item == <<"baseline", k>>
           row == [item |-> item, out |-> rows[k].out, cached |-> TRUE]
<1>2. /\ pc[s] = "replay" /\ look[s] # {} /\ look[s] \in SUBSET Seeds
      /\ look' = [look EXCEPT ![s] = @ \ {k}]
      /\ UNCHANGED <<pc, cache, made, sha, failures, audit, C0, rows, files, exists, invalid,
                     readers, odd, kills>>
  BY <1>1 DEF Replay, TypeOK, entry
<1>3. k \in look[s]
  BY <1>2, MinIs
<1>4. k \in Seeds /\ item \in todo[s] /\ item \in Items
  BY <1>1, <1>2, <1>3 DEF Booked, TypeOK
<1> HIDE DEF k
<1>5. CASE Reusable(k)
  <2>1. /\ obs' = [obs EXCEPT ![s] = Append(@, row)] /\ torn' = [torn EXCEPT ![s] = FALSE]
        /\ todo' = [todo EXCEPT ![s] = @ \ {item}]
        /\ touched' = [touched EXCEPT ![s] = TRUE]
    BY <1>5 DEF Replay, Appended, k
  <2>2. rows[k] \in Stored /\ rows[k] # NoRow
    BY <1>1, <1>4, <1>5 DEF Reusable, TypeOK
  <2>3. row \in Row /\ row.out # Error /\ row.item = item
    BY <1>4, <2>2, OutputsAssumption DEF Row, Stored, Error
  <2> HIDE DEF row
  <2>4. obs[s] \in Seq(Row) /\ obs'[s] = Append(obs[s], row)
    BY <1>1, <2>1 DEF TypeOK
  <2>5. /\ obs'[s] \in Seq(Row) /\ DOMAIN obs'[s] = DOMAIN obs[s] \cup {Len(obs[s]) + 1}
        /\ Len(obs[s]) + 1 \notin DOMAIN obs[s]
        /\ \A n \in DOMAIN obs[s] : obs'[s][n] = obs[s][n]
        /\ obs'[s][Len(obs[s]) + 1] = row
    BY <2>3, <2>4, AppendIs
  <2>6. TypeOK'
    <3>1. obs' \in [Sessions -> Seq(Row)]
      BY <1>1, <2>1, <2>4, <2>5 DEF TypeOK
    <3> QED
      BY <1>1, <1>2, <2>1, <3>1 DEF TypeOK
  <2>7. todo'[s] = todo[s] \ {item} /\ look'[s] = look[s] \ {k} /\ touched'[s] = TRUE
    BY <1>1, <1>2, <2>1 DEF TypeOK
  <2>8. Seen(s)' = Seen(s) \cup {item} /\ item \notin Seen(s)
    <3>1. Seen(s)' = Seen(s) \cup {item}
      BY <2>3, <2>5 DEF Seen
    <3>2. item \notin Seen(s)
      BY <1>1, <1>2, <1>4 DEF Booked, Committed, Storing
    <3> QED
      BY <3>1, <3>2
  <2>9. Booked(s)'
    <3>1. \A n \in DOMAIN obs[s] : obs[s][n].item # item
      BY <2>8 DEF Seen
    <3>2. \A n, m \in DOMAIN obs'[s] : obs'[s][n].item = obs'[s][m].item => n = m
      BY <1>1, <2>3, <2>5, <3>1 DEF Booked
    <3>3. \A n \in DOMAIN obs'[s] : obs'[s][n].out = Error => obs'[s][n].item \in failures[s]
      BY <1>1, <2>3, <2>5 DEF Booked
    <3>4. Items \subseteq Seen(s)' \cup todo'[s] /\ \A i \in todo'[s] : i \notin Seen(s)'
      BY <1>1, <1>2, <2>7, <2>8 DEF Booked, Committed, Storing
    <3>5. \A j \in look'[s] : <<"baseline", j>> \in todo'[s]
      <4>1. \A j \in look[s] \ {k} : <<"baseline", j>> # item /\ <<"baseline", j>> \in todo[s]
        BY <1>1 DEF Booked
      <4> QED
        BY <2>7, <4>1
    <3> QED
      BY <1>2, <3>2, <3>3, <3>4, <3>5 DEF Booked, Judging
  <2>10. Stores(s)'
    BY <1>1, <1>2, <1>4, <2>2 DEF Stores, Committed, Storing, Entry
  <2>11. \A t \in Sessions \ {s} : Booked(t)' /\ Stores(t)'
    BY <1>1, <1>2, <2>1, OthersSound DEF TypeOK
  <2>12. Entry'
    BY <1>1, <1>2 DEF Entry
  <2> QED
    BY <1>2, <2>6, <2>9, <2>10, <2>11, <2>12 DEF Consistent, Safe
<1>6. CASE ~Reusable(k)
  <2>1. UNCHANGED <<obs, torn, todo, touched>>
    BY <1>6 DEF Replay, k
  <2>2. TypeOK'
    BY <1>1, <1>2, <2>1 DEF TypeOK
  <2>3. look'[s] = look[s] \ {k}
    BY <1>1, <1>2 DEF TypeOK
  <2>4. Booked(s)' /\ Stores(s)'
    <3>1. Seen(s)' = Seen(s) /\ Next_item(s)' = Next_item(s)
      BY <2>1 DEF Seen, Next_item
    <3>2. Booked(s)'
      BY <1>1, <1>2, <2>1, <2>3, <3>1 DEF Booked
    <3>3. Stores(s)'
      BY <1>1, <1>2, <2>1, <3>1 DEF Stores
    <3> QED
      BY <3>2, <3>3
  <2>5. \A t \in Sessions \ {s} : Booked(t)' /\ Stores(t)'
    BY <1>1, <1>2, <2>1, OthersSound DEF TypeOK
  <2>6. Entry'
    BY <1>1, <1>2 DEF Entry
  <2> QED
    BY <1>2, <2>2, <2>4, <2>5, <2>6 DEF Consistent, Safe
<1> QED
  BY <1>5, <1>6

\* Every stored item was looked at; what is left is compiled.
LEMMA PlannedSound ==
  ASSUME Consistent, NEW s \in Sessions, Planned(s)
  PROVE  Safe
<1>1. TypeOK /\ Entry /\ Booked(s) /\ Stores(s)
  BY DEF Consistent
<1>2. /\ pc[s] = "replay" /\ look[s] = {} /\ pc' = [pc EXCEPT ![s] = "work"] /\ pc'[s] = "work"
      /\ UNCHANGED <<cache, look, todo, made, sha, obs, torn, failures, audit, C0, touched, rows,
                     files, exists, invalid, readers, odd, kills>>
  BY <1>1 DEF Planned, Goto, TypeOK, disk, entry
<1>3. TypeOK'
  BY <1>1, <1>2 DEF TypeOK, Places
<1>4. Booked(s)' /\ Stores(s)'
  <2>1. Seen(s)' = Seen(s) /\ Next_item(s)' = Next_item(s)
    BY <1>2 DEF Seen, Next_item
  <2> QED
    BY <1>1, <1>2, <2>1 DEF Booked, Stores, Judging, Committed, Storing
<1>5. \A t \in Sessions \ {s} : Booked(t)' /\ Stores(t)'
  BY <1>1, <1>2, OthersSound DEF TypeOK
<1> QED
  BY <1>1, <1>2, <1>3, <1>4, <1>5 DEF Consistent, Safe, Entry

\* A pool thread compiles an item: it records nothing.
LEMMA CompileSound ==
  ASSUME Consistent, NEW s \in Sessions, NEW i \in Items, Compile(s, i)
  PROVE  Safe
<1>1. TypeOK /\ Entry /\ Booked(s) /\ Stores(s)
  BY DEF Consistent
<1>2. PICK o \in Outputs \cup {Error} :
         /\ o # Usual => odd < MaxOdd
         /\ odd' = IF o = Usual THEN odd ELSE odd + 1
         /\ made' = [made EXCEPT ![s][i] = o]
  BY DEF Compile
<1>3. /\ made[s][i] = None
      /\ UNCHANGED <<pc, cache, look, todo, sha, obs, torn, failures, audit, C0, touched, rows,
                     files, exists, invalid, readers, kills>>
  BY DEF Compile, disk, entry
<1>4. TypeOK'
  <2>1. odd' \in 0 .. MaxOdd
    BY <1>1, <1>2, BoundsAssumption DEF TypeOK
  <2>2. made' \in [Sessions -> [Items -> Outputs \cup {None, Error}]]
    BY <1>1, <1>2 DEF TypeOK
  <2> QED
    BY <1>1, <1>3, <2>1, <2>2 DEF TypeOK
<1>5. Booked(s)' /\ Stores(s)'
  <2>1. Seen(s)' = Seen(s) /\ Next_item(s)' = Next_item(s)
    BY <1>3 DEF Seen, Next_item
  <2>2. pc[s] \in Committed => made'[s][Next_item(s)] = made[s][Next_item(s)]
    BY <1>1, <1>2, <1>3, OutputsAssumption DEF Stores, TypeOK, None
  <2>3. Booked(s)'
    BY <1>1, <1>3, <2>1 DEF Booked
  <2>4. Stores(s)'
    BY <1>1, <1>3, <2>1, <2>2 DEF Stores
  <2> QED
    BY <2>3, <2>4
<1>6. \A t \in Sessions \ {s} : Booked(t)' /\ Stores(t)'
  BY <1>1, <1>2, <1>3, OthersSound DEF TypeOK
<1> QED
  BY <1>1, <1>3, <1>4, <1>5, <1>6 DEF Consistent, Safe, Entry

\* A failed item's evidence is written before its observation.
LEMMA RecordFailureSound ==
  ASSUME Consistent, NEW s \in Sessions, RecordFailure(s)
  PROVE  Safe
<1>1. TypeOK /\ Entry /\ Booked(s) /\ Stores(s)
  BY DEF Consistent
<1>2. /\ failures' = [failures EXCEPT ![s] = @ \cup {Next_item(s)}] /\ todo[s] # {}
      /\ UNCHANGED <<pc, cache, look, todo, made, sha, obs, torn, audit, C0, touched, rows,
                     files, exists, invalid, readers, odd, kills>>
  BY DEF RecordFailure, Ready, memory, entry
<1>3. Next_item(s) \in Items
  BY <1>1, <1>2, EarliestIs DEF Next_item, TypeOK
<1>4. TypeOK'
  BY <1>1, <1>2, <1>3 DEF TypeOK
<1>5. Booked(s)' /\ Stores(s)'
  <2>1. Seen(s)' = Seen(s) /\ Next_item(s)' = Next_item(s) /\ failures[s] \subseteq failures'[s]
    BY <1>1, <1>2 DEF Seen, Next_item, TypeOK
  <2>2. Booked(s)'
    BY <1>1, <1>2, <2>1 DEF Booked
  <2>3. Stores(s)'
    BY <1>1, <1>2, <2>1 DEF Stores
  <2> QED
    BY <2>2, <2>3
<1>6. \A t \in Sessions \ {s} : Booked(t)' /\ Stores(t)'
  BY <1>1, <1>2, OthersSound DEF TypeOK
<1> QED
  BY <1>1, <1>2, <1>4, <1>5, <1>6 DEF Consistent, Safe, Entry

\* The first planned item's observation is appended: it had none.
LEMMA CommitSound ==
  ASSUME Consistent, NEW s \in Sessions, Commit(s)
  PROVE  Safe
<1>1. TypeOK /\ Entry /\ Booked(s) /\ Stores(s)
  BY DEF Consistent
<1> DEFINE item == Next_item(s)
           out == made[s][item]
           row == [item |-> item, out |-> out, cached |-> FALSE]
           stores == item[1] = "baseline" /\ cache[s] /\ out # Error
<1>2. /\ pc[s] = "work" /\ todo[s] # {} /\ out # None /\ (out = Error => item \in failures[s])
      /\ obs' = [obs EXCEPT ![s] = Append(@, row)] /\ torn' = [torn EXCEPT ![s] = FALSE]
      /\ IF stores THEN pc' = [pc EXCEPT ![s] = "store"] /\ UNCHANGED todo
         ELSE todo' = [todo EXCEPT ![s] = @ \ {item}] /\ UNCHANGED pc
      /\ UNCHANGED <<cache, look, made, sha, failures, audit, C0, touched, rows, files, exists,
                     invalid, readers, odd, kills>>
  BY DEF Commit, Ready, Recorded, Appended, Goto, entry
<1>3. item \in todo[s] /\ item \in Items
  BY <1>1, <1>2, EarliestIs DEF Next_item, TypeOK
<1>4. row \in Row /\ row.item = item /\ row.out = out /\ out \in Outputs \cup {Error}
  BY <1>1, <1>2, <1>3 DEF TypeOK, Row
<1> HIDE DEF row, item, out
<1>5. obs[s] \in Seq(Row) /\ obs'[s] = Append(obs[s], row)
  BY <1>1, <1>2 DEF TypeOK
<1>6. /\ obs'[s] \in Seq(Row) /\ DOMAIN obs'[s] = DOMAIN obs[s] \cup {Len(obs[s]) + 1}
      /\ Len(obs[s]) + 1 \notin DOMAIN obs[s]
      /\ \A n \in DOMAIN obs[s] : obs'[s][n] = obs[s][n]
      /\ obs'[s][Len(obs[s]) + 1] = row
  BY <1>4, <1>5, AppendIs
<1>7. TypeOK'
  <2>1. obs' \in [Sessions -> Seq(Row)]
    BY <1>1, <1>2, <1>5, <1>6 DEF TypeOK
  <2>2. pc' \in [Sessions -> Places]
    <3>1. pc \in [Sessions -> Places] /\ "store" \in Places
      BY <1>1 DEF TypeOK, Places
    <3>2. pc' = pc \/ pc' = [pc EXCEPT ![s] = "store"]
      BY <1>2
    <3> QED
      BY <3>1, <3>2
  <2>3. todo' \in [Sessions -> SUBSET Items]
    <3>1. todo \in [Sessions -> SUBSET Items] /\ todo[s] \ {item} \in SUBSET Items
      BY <1>1 DEF TypeOK
    <3> QED
      BY <1>2, <3>1
  <2> QED
    BY <1>1, <1>2, <2>1, <2>2, <2>3 DEF TypeOK
<1>8. item \notin Seen(s)
  BY <1>1, <1>2, <1>3 DEF Booked, Committed, Storing
<1>9. Seen(s)' = Seen(s) \cup {item}
  BY <1>4, <1>6 DEF Seen
<1>10. /\ \A n, m \in DOMAIN obs'[s] : obs'[s][n].item = obs'[s][m].item => n = m
       /\ \A n \in DOMAIN obs'[s] : obs'[s][n].out = Error => obs'[s][n].item \in failures[s]
  <2>1. \A n \in DOMAIN obs[s] : obs[s][n].item # item
    BY <1>8 DEF Seen
  <2> QED
    BY <1>1, <1>2, <1>4, <1>6, <2>1 DEF Booked
<1>11. Booked(s)' /\ Stores(s)'
  <2>1. look[s] = {} /\ \A i \in todo[s] : i \notin Seen(s)
    BY <1>1, <1>2 DEF Booked, Committed, Storing
  <2>2. CASE stores
    <3>1. pc'[s] = "store" /\ todo'[s] = todo[s]
      BY <1>1, <1>2, <2>2 DEF TypeOK
    <3>2. Next_item(s)' = item
      BY <3>1 DEF Next_item, item
    <3>3. Booked(s)'
      BY <1>1, <1>2, <1>9, <1>10, <2>1, <3>1, <3>2 DEF Booked, Committed, Judging
    <3>4. made'[s][item] \in Outputs
      BY <1>2, <1>4, <2>2 DEF out
    <3>5. Stores(s)'
      BY <1>1, <1>2, <1>3, <1>9, <2>2, <3>1, <3>2, <3>4 DEF Stores, Storing
    <3> QED
      BY <3>3, <3>5
  <2>3. CASE ~stores
    <3>1. pc'[s] = "work" /\ todo'[s] = todo[s] \ {item}
      BY <1>1, <1>2, <2>3 DEF TypeOK
    <3>2. Booked(s)'
      BY <1>1, <1>2, <1>9, <1>10, <2>1, <3>1 DEF Booked, Judging
    <3>3. Stores(s)'
      BY <1>1, <1>2, <3>1 DEF Stores, Committed, Storing
    <3> QED
      BY <3>2, <3>3
  <2> QED
    BY <2>2, <2>3
<1>12. \A t \in Sessions \ {s} : Booked(t)' /\ Stores(t)'
  <2> SUFFICES ASSUME NEW t \in Sessions \ {s} PROVE Booked(t)' /\ Stores(t)'
    OBVIOUS
  <2>1. pc'[t] = pc[t] /\ todo'[t] = todo[t] /\ obs'[t] = obs[t]
    BY <1>1, <1>2 DEF TypeOK
  <2> QED
    BY <1>2, <2>1, OthersSound
<1> QED
  BY <1>1, <1>2, <1>7, <1>11, <1>12 DEF Consistent, Safe, Entry

\* The entry's shared lock is taken, or the entry is invalid and left.
LEMMA StoreLockSound ==
  ASSUME Consistent, NEW s \in Sessions, StoreLock(s)
  PROVE  Safe
<1>1. TypeOK /\ Entry /\ Booked(s) /\ Stores(s)
  BY DEF Consistent
<1>2. /\ pc[s] = "store" /\ exists' = TRUE
      /\ IF invalid
         THEN /\ pc' = [pc EXCEPT ![s] = "work"]
              /\ todo' = [todo EXCEPT ![s] = @ \ {Next_item(s)}] /\ readers' = readers
         ELSE pc' = [pc EXCEPT ![s] = "copy"] /\ readers' = readers \cup {s} /\ todo' = todo
      /\ UNCHANGED <<cache, look, made, sha, obs, torn, failures, audit, C0, touched, rows, files,
                     invalid, odd, kills>>
  BY DEF StoreLock, Goto, disk
<1>3. TypeOK'
  <2>1. pc' \in [Sessions -> Places]
    <3>1. pc \in [Sessions -> Places] /\ "work" \in Places /\ "copy" \in Places
      BY <1>1 DEF TypeOK, Places
    <3>2. pc' = [pc EXCEPT ![s] = "work"] \/ pc' = [pc EXCEPT ![s] = "copy"]
      BY <1>2
    <3> QED
      BY <3>1, <3>2
  <2>2. readers' \subseteq Sessions
    BY <1>1, <1>2 DEF TypeOK
  <2>3. todo' \in [Sessions -> SUBSET Items]
    <3>1. todo \in [Sessions -> SUBSET Items] /\ todo[s] \ {Next_item(s)} \in SUBSET Items
      BY <1>1 DEF TypeOK
    <3> QED
      BY <1>2, <3>1
  <2> QED
    BY <1>1, <1>2, <2>1, <2>2, <2>3 DEF TypeOK
<1>4. Seen(s)' = Seen(s)
  BY <1>2 DEF Seen
<1>5. CASE invalid
  <2>1. pc'[s] = "work" /\ todo'[s] = todo[s] \ {Next_item(s)}
    BY <1>1, <1>2, <1>5 DEF TypeOK
  <2>2. Booked(s)'
    <3>1. look[s] = {} /\ Next_item(s) \in Seen(s)
      BY <1>1, <1>2 DEF Booked, Stores, Committed
    <3> QED
      BY <1>1, <1>2, <1>4, <2>1, <3>1 DEF Booked, Judging
  <2>3. Stores(s)'
    BY <1>1, <1>2, <2>1 DEF Stores, Committed, Storing
  <2> QED
    BY <2>2, <2>3, <1>1, <1>2, <1>3, <1>5, OthersSound DEF Consistent, Safe, Entry, TypeOK
<1>6. CASE ~invalid
  <2>1. pc'[s] = "copy" /\ todo'[s] = todo[s] /\ s \in readers'
    BY <1>1, <1>2, <1>6 DEF TypeOK
  <2>2. Next_item(s)' = Next_item(s)
    BY <2>1 DEF Next_item
  <2>3. Booked(s)'
    BY <1>1, <1>2, <1>4, <2>1, <2>2 DEF Booked, Committed, Storing, Judging
  <2>4. Stores(s)'
    BY <1>1, <1>2, <1>4, <1>6, <2>1, <2>2 DEF Stores, Committed, Storing
  <2> QED
    BY <2>3, <2>4, <1>1, <1>2, <1>3, <1>6, OthersSound DEF Consistent, Safe, Entry, TypeOK
<1> QED
  BY <1>5, <1>6

\* The output is copied into the entry under the shared lock.
LEMMA CopySound ==
  ASSUME Consistent, NEW s \in Sessions, Copy(s)
  PROVE  Safe
<1>1. TypeOK /\ Entry /\ Booked(s) /\ Stores(s)
  BY DEF Consistent
<1> DEFINE out == made[s][Next_item(s)]
           k == Next_item(s)[2]
<1>2. /\ pc[s] = "copy" /\ files' = [files EXCEPT ![k] = out]
      /\ pc' = [pc EXCEPT ![s] = "hash"] /\ pc'[s] = "hash"
      /\ UNCHANGED <<cache, look, todo, made, sha, obs, torn, failures, audit, C0, touched, rows,
                     exists, invalid, readers, odd, kills>>
  BY <1>1 DEF Copy, Goto, disk, TypeOK
<1>3. /\ out \in Outputs /\ Next_item(s) \in Items /\ k \in Seeds
      /\ s \in readers /\ exists /\ ~invalid
  BY <1>1, <1>2 DEF Stores, Committed, Storing, TypeOK, Items
<1> HIDE DEF out, k
<1>4. TypeOK'
  <2>1. files' \in [Seeds -> Outputs \cup {None}] /\ pc' \in [Sessions -> Places]
    BY <1>1, <1>2, <1>3 DEF TypeOK, Places
  <2> QED
    BY <1>1, <1>2, <2>1 DEF TypeOK
<1>5. files'[k] \in Outputs /\ \A j \in Seeds : files[j] \in Outputs => files'[j] \in Outputs
  BY <1>1, <1>2, <1>3 DEF TypeOK
<1>6. Booked(s)' /\ Stores(s)'
  <2>1. Seen(s)' = Seen(s) /\ Next_item(s)' = Next_item(s)
    BY <1>2 DEF Seen, Next_item
  <2>2. Booked(s)'
    BY <1>1, <1>2, <2>1 DEF Booked, Committed, Storing, Judging
  <2>3. Stores(s)'
    BY <1>1, <1>2, <1>3, <1>5, <2>1 DEF Stores, Committed, Storing, k
  <2> QED
    BY <2>2, <2>3
<1>7. \A t \in Sessions \ {s} : Booked(t)' /\ Stores(t)'
  BY <1>1, <1>2, <1>5, OthersSound DEF TypeOK
<1> QED
  BY <1>1, <1>2, <1>3, <1>4, <1>6, <1>7 DEF Consistent, Safe, Entry

\* The hash of a copy is taken from what is there.
LEMMA HashSound ==
  ASSUME Consistent, NEW s \in Sessions, Hash(s)
  PROVE  Safe
<1>1. TypeOK /\ Entry /\ Booked(s) /\ Stores(s)
  BY DEF Consistent
<1>2. /\ pc[s] = "hash" /\ sha' = [sha EXCEPT ![s] = files[Next_item(s)[2]]]
      /\ pc' = [pc EXCEPT ![s] = "write"] /\ pc'[s] = "write"
      /\ UNCHANGED <<cache, look, todo, made, obs, torn, failures, audit, C0, touched, rows, files,
                     exists, invalid, readers, odd, kills>>
  BY <1>1 DEF Hash, Goto, disk, entry, TypeOK
<1>3. files[Next_item(s)[2]] \in Outputs
  BY <1>1, <1>2 DEF Stores
<1>4. TypeOK' /\ sha'[s] \in Outputs
  <2>1. sha' \in [Sessions -> Outputs \cup {None}] /\ pc' \in [Sessions -> Places]
    BY <1>1, <1>2, <1>3 DEF TypeOK, Places
  <2> QED
    BY <1>1, <1>2, <1>3, <2>1 DEF TypeOK
<1>5. Booked(s)' /\ Stores(s)'
  <2>1. Seen(s)' = Seen(s) /\ Next_item(s)' = Next_item(s)
    BY <1>2 DEF Seen, Next_item
  <2>2. Booked(s)'
    BY <1>1, <1>2, <2>1 DEF Booked, Committed, Storing, Judging
  <2>3. Stores(s)'
    BY <1>1, <1>2, <1>3, <1>4, <2>1 DEF Stores, Committed, Storing
  <2> QED
    BY <2>2, <2>3
<1>6. \A t \in Sessions \ {s} : Booked(t)' /\ Stores(t)'
  BY <1>1, <1>2, OthersSound DEF TypeOK
<1> QED
  BY <1>1, <1>2, <1>4, <1>5, <1>6 DEF Consistent, Safe, Entry

\* The row is written, the lock given back and the entry touched.
LEMMA WriteSound ==
  ASSUME Consistent, NEW s \in Sessions, Write(s)
  PROVE  Safe
<1>1. TypeOK /\ Entry /\ Booked(s) /\ Stores(s)
  BY DEF Consistent
<1> DEFINE k == Next_item(s)[2]
           stored == [out |-> made[s][Next_item(s)], sha |-> sha[s]]
<1>2. /\ pc[s] = "write" /\ rows' = [rows EXCEPT ![k] = stored]
      /\ readers' = readers \ {s} /\ touched' = [touched EXCEPT ![s] = TRUE]
      /\ sha' = [sha EXCEPT ![s] = None] /\ todo' = [todo EXCEPT ![s] = @ \ {Next_item(s)}]
      /\ pc' = [pc EXCEPT ![s] = "work"]
      /\ UNCHANGED <<cache, look, made, obs, torn, failures, audit, C0, files, exists, invalid,
                     odd, kills>>
  BY DEF Write, Goto
<1>3. /\ Next_item(s) \in Items /\ k \in Seeds /\ stored \in Stored /\ exists /\ ~invalid
      /\ Next_item(s) \in Seen(s) /\ look[s] = {}
  BY <1>1, <1>2 DEF Stores, Committed, Storing, TypeOK, Items, Stored, Booked
<1> HIDE DEF k, stored
<1>4. TypeOK'
  <2>1. rows' \in [Seeds -> Stored \cup {NoRow}]
    BY <1>1, <1>2, <1>3 DEF TypeOK
  <2>2. todo' \in [Sessions -> SUBSET Items]
    <3>1. todo \in [Sessions -> SUBSET Items] /\ todo[s] \ {Next_item(s)} \in SUBSET Items
      BY <1>1 DEF TypeOK
    <3> QED
      BY <1>2, <3>1
  <2>3. /\ sha' \in [Sessions -> Outputs \cup {None}] /\ pc' \in [Sessions -> Places]
        /\ touched' \in [Sessions -> BOOLEAN] /\ readers' \subseteq Sessions
    BY <1>1, <1>2 DEF TypeOK, Places
  <2> QED
    BY <1>1, <1>2, <2>1, <2>2, <2>3 DEF TypeOK
<1>5. pc'[s] = "work" /\ todo'[s] = todo[s] \ {Next_item(s)} /\ Seen(s)' = Seen(s)
  BY <1>1, <1>2 DEF TypeOK, Seen
<1>6. Booked(s)'
  BY <1>1, <1>2, <1>3, <1>5 DEF Booked, Judging
<1>7. Stores(s)'
  BY <1>2, <1>3, <1>5 DEF Stores, Committed, Storing
<1>8. \A t \in Sessions \ {s} : Booked(t)' /\ Stores(t)'
  <2> SUFFICES ASSUME NEW t \in Sessions \ {s} PROVE Booked(t)' /\ Stores(t)'
    OBVIOUS
  <2>1. /\ pc'[t] = pc[t] /\ todo'[t] = todo[t] /\ sha'[t] = sha[t] /\ touched'[t] = touched[t]
        /\ t \in readers => t \in readers'
    BY <1>1, <1>2 DEF TypeOK
  <2> QED
    BY <1>2, <2>1, OthersSound
<1>9. Entry'
  BY <1>2, <1>3 DEF Entry
<1> QED
  BY <1>2, <1>3, <1>4, <1>6, <1>7, <1>8, <1>9 DEF Consistent, Safe

\* Nothing is left to do: every item has its observation.
LEMMA ObservedSound ==
  ASSUME Consistent, NEW s \in Sessions, Observed(s)
  PROVE  Safe
<1>1. TypeOK /\ Entry /\ Booked(s) /\ Stores(s)
  BY DEF Consistent
<1>2. /\ pc[s] = "work" /\ todo[s] = {} /\ made' = [made EXCEPT ![s] = Nothing]
      /\ cache' = [cache EXCEPT ![s] = FALSE]
      /\ pc' = [pc EXCEPT ![s] = "audit"] /\ pc'[s] = "audit"
      /\ UNCHANGED <<look, todo, sha, obs, torn, failures, audit, C0, touched, rows, files,
                     exists, invalid, readers, odd, kills>>
  BY <1>1 DEF Observed, Goto, disk, entry, TypeOK
<1>3. TypeOK'
  <2>1. Nothing \in [Items -> Outputs \cup {None, Error}]
    BY DEF Nothing
  <2> QED
    BY <1>1, <1>2, <2>1 DEF TypeOK, Places
<1>4. Booked(s)' /\ Stores(s)'
  <2>1. Seen(s)' = Seen(s)
    BY <1>2 DEF Seen
  <2> QED
    BY <1>1, <1>2, <2>1 DEF Booked, Stores, Committed, Storing, Judging
<1>5. \A t \in Sessions \ {s} : Booked(t)' /\ Stores(t)'
  BY <1>1, <1>2, OthersSound DEF TypeOK
<1> QED
  BY <1>1, <1>2, <1>3, <1>4, <1>5 DEF Consistent, Safe, Entry

\* The audit passes or not, and a failed one goes on to the entry.
LEMMA AuditSound ==
  ASSUME Consistent, NEW s \in Sessions, Audit(s)
  PROVE  Safe
<1>1. TypeOK /\ Entry /\ Booked(s) /\ Stores(s)
  BY DEF Consistent
<1>2. PICK result \in {"passed", "unresolved"} :
         /\ audit' = [audit EXCEPT ![s] = result]
         /\ pc' = [pc EXCEPT ![s] = IF result = "unresolved" THEN "invalidate" ELSE "aggregate"]
  BY DEF Audit, Goto, Blames
<1>3. /\ pc[s] = "audit"
      /\ UNCHANGED <<cache, look, todo, made, sha, obs, torn, failures, C0, touched, rows, files,
                     exists, invalid, readers, odd, kills>>
  BY DEF Audit, entry
<1>4. /\ audit'[s] = result
      /\ pc'[s] = IF result = "unresolved" THEN "invalidate" ELSE "aggregate"
  BY <1>1, <1>2 DEF TypeOK
<1>5. TypeOK'
  BY <1>1, <1>2, <1>3 DEF TypeOK, Places
<1>6. Booked(s)' /\ Stores(s)'
  <2>1. Seen(s)' = Seen(s)
    BY <1>3 DEF Seen
  <2> QED
    BY <1>1, <1>3, <1>4, <2>1 DEF Booked, Stores, Committed, Storing, Judging
<1>7. \A t \in Sessions \ {s} : Booked(t)' /\ Stores(t)'
  BY <1>1, <1>2, <1>3, OthersSound DEF TypeOK
<1> QED
  BY <1>1, <1>3, <1>5, <1>6, <1>7 DEF Consistent, Safe, Entry

\* A flagged entry is marked invalid, and stays so.
LEMMA InvalidateSound ==
  ASSUME Consistent, NEW s \in Sessions, Invalidate(s)
  PROVE  Safe
<1>1. TypeOK /\ Entry /\ Booked(s) /\ Stores(s)
  BY DEF Consistent
<1>2. /\ pc[s] = "invalidate" /\ (exists => readers = {}) /\ invalid' = exists
      /\ pc' = [pc EXCEPT ![s] = "aggregate"] /\ pc'[s] = "aggregate"
      /\ UNCHANGED <<cache, look, todo, made, sha, obs, torn, failures, audit, C0, touched, rows,
                     files, exists, readers, odd, kills>>
  BY <1>1 DEF Invalidate, Goto, disk, TypeOK
<1>3. TypeOK'
  BY <1>1, <1>2 DEF TypeOK, Places
<1>4. Booked(s)' /\ Stores(s)'
  <2>1. Seen(s)' = Seen(s)
    BY <1>2 DEF Seen
  <2> QED
    BY <1>1, <1>2, <2>1 DEF Booked, Stores, Committed, Storing, Judging
<1>5. \A t \in Sessions \ {s} : Booked(t)' /\ Stores(t)'
  BY <1>1, <1>2, OthersSound DEF TypeOK, Entry
<1> QED
  BY <1>1, <1>2, <1>3, <1>4, <1>5 DEF Consistent, Safe, Entry

\* As many verified checks as there are items, each item observed once, are checks of them all.
LEMMA AllChecked ==
  ASSUME TypeOK, NEW s \in Sessions, Booked(s),
         Cardinality({n \in DOMAIN obs[s] : obs[s][n].out # Error}) = 2 * N
  PROVE  \A n \in DOMAIN obs[s] : obs[s][n].out # Error
<1> DEFINE checked == {n \in DOMAIN obs[s] : obs[s][n].out # Error}
           f == [n \in DOMAIN obs[s] |-> Place(obs[s][n].item)]
<1>1. /\ Len(obs[s]) \in Nat /\ DOMAIN obs[s] = 1 .. Len(obs[s])
      /\ \A n \in DOMAIN obs[s] : obs[s][n].item \in Items
  <2>1. obs[s] \in Seq(Row)
    BY DEF TypeOK
  <2>2. \A n \in DOMAIN obs[s] : obs[s][n] \in Row
    BY <2>1, ElementOfSeq, LenProperties
  <2> QED
    BY <2>1, <2>2, LenProperties DEF Row
<1>2. /\ \A i \in Items : Place(i) \in 1 .. 2 * N
      /\ \A i, j \in Items : Place(i) = Place(j) => i = j
  <2>1. \A i \in Items : /\ i = <<i[1], i[2]>> /\ i[1] \in {"baseline", "evolved"}
                         /\ i[2] \in Nat /\ 1 <= i[2] /\ i[2] <= N
    BY NAssumption DEF Items, Revisions, Seeds
  <2> QED
    BY <2>1, NAssumption DEF Place
<1>3. f \in Injection(DOMAIN obs[s], 1 .. 2 * N)
  BY <1>1, <1>2 DEF Booked, Injection, IsInjective
<1>4. /\ IsFiniteSet(DOMAIN obs[s]) /\ Cardinality(DOMAIN obs[s]) = Len(obs[s])
      /\ IsFiniteSet(1 .. 2 * N) /\ Cardinality(1 .. 2 * N) = 2 * N
  <2>1. ASSUME NEW m \in Nat
        PROVE  IsFiniteSet(1 .. m) /\ Cardinality(1 .. m) = m
    <3>1. /\ IsFiniteSet(1 .. m)
          /\ Cardinality(1 .. m) = IF 1 <= m THEN m - 1 + 1 ELSE 0
      BY FS_Interval
    <3> QED
      BY <3>1
  <2>2. 2 * N \in Nat
    BY NAssumption
  <2> QED
    BY <1>1, <2>1, <2>2
<1>5. Cardinality(DOMAIN obs[s]) <= 2 * N
  BY <1>3, <1>4, FS_Injection DEF ExistsInjection
<1>6. checked \subseteq DOMAIN obs[s]
  OBVIOUS
<1>7. checked = DOMAIN obs[s]
  BY <1>1, <1>4, <1>5, <1>6, NAssumption, FS_Subset
<1> QED
  BY <1>7

\* A session ends when every item is observed.
LEMMA AggregateSound ==
  ASSUME Consistent, NEW s \in Sessions, Aggregate(s)
  PROVE  Safe
<1>1. TypeOK /\ Entry /\ Booked(s) /\ Stores(s)
  BY DEF Consistent
<1> DEFINE checked == {n \in DOMAIN obs[s] : obs[s][n].out # Error}
           result == IF Cardinality(checked) = 2 * N /\ \A n \in checked : obs[s][n].out \in Sound
                     THEN "passed" ELSE "unresolved"
<1>2. /\ pc[s] = "aggregate" /\ C0' = [C0 EXCEPT ![s] = result]
      /\ pc' = [pc EXCEPT ![s] = "complete"]
      /\ UNCHANGED <<cache, look, todo, made, sha, obs, torn, failures, audit, touched, rows,
                     files, exists, invalid, readers, odd, kills>>
  BY DEF Aggregate, Goto, entry
<1>3. result = "passed" => \A n \in DOMAIN obs[s] : obs[s][n].out \in Sound
  BY <1>1, AllChecked
<1>4. result \in {"passed", "unresolved"}
  OBVIOUS
<1> HIDE DEF result
<1>5. TypeOK' /\ C0'[s] = result /\ pc'[s] = "complete"
  BY <1>1, <1>2, <1>4 DEF TypeOK, Places
<1>6. Booked(s)' /\ Stores(s)'
  <2>1. Seen(s)' = Seen(s)
    BY <1>2 DEF Seen
  <2>2. Booked(s)'
    BY <1>1, <1>2, <1>3, <1>5, <2>1 DEF Booked, Judging
  <2>3. Stores(s)'
    BY <1>1, <1>2, <1>5 DEF Stores, Committed, Storing
  <2> QED
    BY <2>2, <2>3
<1>7. \A t \in Sessions \ {s} : Booked(t)' /\ Stores(t)'
  BY <1>1, <1>2, OthersSound DEF TypeOK
<1> QED
  BY <1>1, <1>2, <1>5, <1>6, <1>7 DEF Consistent, Safe, Entry

\* A kill loses the memory of a session and no file.
LEMMA KillSound ==
  ASSUME Consistent, NEW s \in Sessions, Kill(s)
  PROVE  Safe
<1>1. TypeOK /\ Entry /\ Booked(s) /\ Stores(s)
  BY DEF Consistent
<1>2. PICK part \in BOOLEAN : torn' = [torn EXCEPT ![s] = @ \/ part]
  BY DEF Kill
<1>3. /\ kills < MaxKills /\ kills' = kills + 1
      /\ pc' = [pc EXCEPT ![s] = "off"] /\ cache' = [cache EXCEPT ![s] = FALSE]
      /\ look' = [look EXCEPT ![s] = {}] /\ todo' = [todo EXCEPT ![s] = {}]
      /\ made' = [made EXCEPT ![s] = Nothing] /\ sha' = [sha EXCEPT ![s] = None]
      /\ readers' = readers \ {s}
      /\ UNCHANGED <<obs, failures, audit, C0, touched, rows, files, exists, invalid, odd>>
  BY DEF Kill, Goto
<1>4. TypeOK'
  <2>1. kills' \in 0 .. MaxKills /\ Nothing \in [Items -> Outputs \cup {None, Error}]
    BY <1>1, <1>3, BoundsAssumption DEF TypeOK, Nothing
  <2>2. torn' \in [Sessions -> BOOLEAN]
    BY <1>1, <1>2 DEF TypeOK
  <2>3. /\ pc' \in [Sessions -> Places] /\ cache' \in [Sessions -> BOOLEAN]
        /\ look' \in [Sessions -> SUBSET Seeds] /\ todo' \in [Sessions -> SUBSET Items]
        /\ made' \in [Sessions -> [Items -> Outputs \cup {None, Error}]]
        /\ sha' \in [Sessions -> Outputs \cup {None}] /\ readers' \subseteq Sessions
    BY <1>1, <1>3, <2>1 DEF TypeOK, Places
  <2> QED
    BY <1>1, <1>3, <2>1, <2>2, <2>3 DEF TypeOK
<1>5. pc'[s] = "off" /\ look'[s] = {} /\ todo'[s] = {}
  BY <1>1, <1>3 DEF TypeOK
<1>6. Booked(s)' /\ Stores(s)'
  BY <1>1, <1>3, <1>5 DEF Booked, Stores, Committed, Storing, Judging
<1>7. \A t \in Sessions \ {s} : Booked(t)' /\ Stores(t)'
  <2> SUFFICES ASSUME NEW t \in Sessions \ {s} PROVE Booked(t)' /\ Stores(t)'
    OBVIOUS
  <2>1. /\ pc'[t] = pc[t] /\ todo'[t] = todo[t] /\ look'[t] = look[t] /\ made'[t] = made[t]
        /\ sha'[t] = sha[t] /\ (t \in readers => t \in readers')
    BY <1>1, <1>3 DEF TypeOK
  <2> QED
    BY <1>3, <2>1, OthersSound
<1> QED
  BY <1>1, <1>3, <1>4, <1>6, <1>7 DEF Consistent, Safe, Entry

\* Every step keeps the invariant.
LEMMA NextSound ==
  ASSUME Consistent, [Next]_vars
  PROVE  Safe
<1>1. CASE UNCHANGED vars
  <2>1. TypeOK' /\ Entry'
    BY <1>1 DEF Consistent, TypeOK, Entry, vars, memory, disk, entry
  <2>2. \A s \in Sessions : Booked(s)' /\ Stores(s)'
    BY <1>1, OthersSound DEF Consistent, vars, memory, disk, entry
  <2> QED
    BY <1>1, <2>1, <2>2 DEF Consistent, Safe, vars, entry
<1>2. ASSUME NEW s \in Sessions, Step(s) \/ Kill(s)
      PROVE  Safe
  BY <1>2, BeginSound, ReplaySound, PlannedSound, CompileSound, RecordFailureSound, CommitSound,
     StoreLockSound, CopySound, HashSound, WriteSound, ObservedSound, AuditSound,
     InvalidateSound, AggregateSound, KillSound DEF Step, Items, Seeds
<1> QED
  BY <1>1, <1>2 DEF Next

-----------------------------------------------------------------------------
(* The theorems *)

\* Every session's files and memory, and the entry, keep their types.
THEOREM TypeCorrect == Spec => []TypeOK
<1>1. Consistent => TypeOK
  BY DEF Consistent
<1>2. Consistent /\ [Next]_vars => Consistent'
  BY NextSound DEF Safe
<1> QED
  BY InitSound, <1>1, <1>2, PTL DEF Spec

\* However a quality stage replays, stores, fails, is killed and resumed: complete, it has one
\* observation of every item, and C0 passed only if every one of them is sound.
THEOREM EveryItemOnce == Spec => []ObservedOnce
<1>1. Consistent => ObservedOnce
  <2> SUFFICES ASSUME Consistent, NEW s \in Sessions, pc[s] = "complete"
               PROVE  /\ \A i \in Items : Cardinality({n \in DOMAIN obs[s] : obs[s][n].item = i}) = 1
                      /\ C0[s] = "passed" => \A n \in DOMAIN obs[s] : obs[s][n].out \in Sound
    BY DEF ObservedOnce
  <2>1. Booked(s)
    BY DEF Consistent
  <2>2. ASSUME NEW i \in Items
        PROVE  Cardinality({n \in DOMAIN obs[s] : obs[s][n].item = i}) = 1
    <3>1. i \in Seen(s)
      BY <2>1 DEF Booked, Judging
    <3>2. PICK n \in DOMAIN obs[s] : obs[s][n].item = i
      BY <3>1 DEF Seen
    <3>3. {m \in DOMAIN obs[s] : obs[s][m].item = i} = {n}
      BY <2>1, <3>2 DEF Booked
    <3> QED
      BY <3>3, FS_Singleton
  <2> QED
    BY <2>1, <2>2 DEF Booked
<1>2. Consistent /\ [Next]_vars => Consistent'
  BY NextSound DEF Safe
<1> QED
  BY InitSound, <1>1, <1>2, PTL DEF Spec

\* No kill leaves an observation of a failure without its evidence.
THEOREM FailuresAreRecorded == Spec => []FailureIsRecorded
<1>1. Consistent => FailureIsRecorded
  BY DEF Consistent, Booked, FailureIsRecorded
<1>2. Consistent /\ [Next]_vars => Consistent'
  BY NextSound DEF Safe
<1> QED
  BY InitSound, <1>1, <1>2, PTL DEF Spec

\* A session that completed with a failed audit left no valid entry that it used.
THEOREM FlaggedStaysInvalid == Spec => []FlaggedIsInvalid
<1>1. Consistent => FlaggedIsInvalid
  BY DEF Consistent, Stores, FlaggedIsInvalid
<1>2. Consistent /\ [Next]_vars => Consistent'
  BY NextSound DEF Safe
<1> QED
  BY InitSound, <1>1, <1>2, PTL DEF Spec

\* Nobody writes into an entry after its invalidation, nor lifts it.
THEOREM InvalidIsFinal == Spec => InvalidStays
<1>1. Consistent /\ [Next]_vars => Consistent' /\ [invalid => invalid' /\ UNCHANGED <<rows, files>>]_vars
  BY NextSound DEF Safe
<1> QED
  BY InitSound, <1>1, PTL DEF Spec, InvalidStays
=============================================================================
