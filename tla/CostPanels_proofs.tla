------------------------- MODULE CostPanels_proofs -------------------------
(***************************************************************************)
(* Proofs about CostPanels, for any panels, contracts and bounds: decide    *)
(* replays what the stage recorded, on evidence run.json requires, and no   *)
(* admissible measurement is ever replaced.                                *)
(*                                                                         *)
(* The argument follows one panel along its regimes.  Asked(p, r) says that *)
(* every regime before r has an admissible bundle that breached; it reads   *)
(* only admissible bundles, and those are never overwritten, because a      *)
(* session measures only where Consult found none.  So what a judgement     *)
(* rested on still stands when the stage completes, and replay_costs, which *)
(* walks the same regimes from the first, ends at the same bundle.          *)
(***************************************************************************)
EXTENDS CostPanels, TLAPS, SequenceTheorems

USE DEF files, counts

Decided == {"passed", "passed_on_rerun", "failed"}
Bundles == [session : Nat, breached : BOOLEAN, evidence : Contracts \cup {"unclean", None}]

TypeOK ==
    /\ saved \in [Names -> [REGIMES -> Bundles]]
    /\ status \in {"not_started", "running", "complete", "noisy", "failed"}
    /\ records \in [Names -> Decided \cup {"none", "unresolved", "not_evaluated"}]
    /\ required \in Contracts \cup {None}
    /\ pc \in {"off", "regime", "measuring", "judge"}
    /\ todo \in Seq(Names) /\ regime \in REGIMES
    /\ sessions \in Nat

\* The regimes before r of panel p are measured, admissibly, and each asked for the next.
Asked(p, r) ==
    /\ r \in {First(p), "normal", "rerun"}
    /\ r # "screen" /\ p \in Screened =>
          Valid(saved[p]["screen"]) /\ saved[p]["screen"].breached
    /\ r = "rerun" => p \in Guarded /\ Valid(saved[p]["normal"]) /\ saved[p]["normal"].breached

\* Bundle r settles panel p.
Settles(p, r) ==
    Asked(p, r) /\ Valid(saved[p][r]) /\ Follows(p, r, saved[p][r]) = None

\* Every bundle is of a session of its own, and of an earlier one than that which runs.
Numbered ==
    /\ \A p \in Names, r \in REGIMES :
          saved[p][r] # Unsaved =>
             saved[p][r].session <= sessions /\ (pc = "measuring" => saved[p][r].session < sessions)
    /\ \A p \in Names, r, t \in REGIMES :
          r # t /\ saved[p][r] # Unsaved /\ saved[p][t] # Unsaved =>
             saved[p][r].session # saved[p][t].session

\* An attempt is at a regime that was asked for, and measures only what has no bundle.
Measuring ==
    pc # "off" =>
        /\ status = "running" /\ todo # <<>> /\ Asked(Panel, regime)
        /\ pc = "measuring" => ~Valid(saved[Panel][regime]) /\ sessions > 0

\* It has decided every guarded panel it has passed.
Judged ==
    pc # "off" => \A p \in Guarded : records[p] \in Decided \/ p \in Range(todo)

\* What it decided rests on bundles that still stand.
Standing ==
    pc # "off" \/ status = "complete" =>
        \A p \in Guarded : records[p] \notin {"none", "unresolved"} =>
            \E r \in REGIMES : Settles(p, r) /\ records[p] = Settled(p, r, saved[p][r])

\* A complete stage decided every guarded panel, or stopped at a regime without a bundle.
Ended ==
    status = "complete" =>
        /\ pc = "off"
        /\ \/ \A p \in Guarded : records[p] \in Decided
           \/ /\ records[Head(Panels)] = "unresolved"
              /\ \E p \in Guarded, r \in REGIMES : Asked(p, r) /\ ~Valid(saved[p][r])

Sound == TypeOK /\ Numbered /\ Measuring /\ Judged /\ Standing /\ Ended
-----------------------------------------------------------------------------
(* What replay_costs makes of the bundles *)

\* The regime that follows one, case by case.
LEMMA FollowsIs ==
  ASSUME NEW p, NEW r \in REGIMES, NEW b
  PROVE  /\ Follows(p, r, b) \in {None, "normal", "rerun"}
         /\ Follows(p, r, b) = None <=> ~b.breached \/ r = "rerun" \/ (r = "normal" /\ p \notin Guarded)
         /\ Follows(p, r, b) = "normal" <=> b.breached /\ r = "screen"
         /\ Follows(p, r, b) = "rerun" <=> b.breached /\ r = "normal" /\ p \in Guarded
BY NoneAssumption DEF Follows, REGIMES

\* Short sequences put together.
LEMMA Tuples ==
  ASSUME NEW S, NEW a \in S, NEW b \in S, NEW c \in S
  PROVE  /\ <<a>> \o <<>> = <<a>>
         /\ <<a>> \o (<<b>> \o <<>>) = <<a, b>>
         /\ <<a>> \o (<<b>> \o <<c>>) = <<a, b, c>>
<1>1. /\ <<a>> \in Seq(S) /\ Len(<<a>>) = 1 /\ <<b>> \in Seq(S) /\ Len(<<b>>) = 1
      /\ <<c>> \in Seq(S) /\ Len(<<c>>) = 1
  OBVIOUS
<1>2. <<a>> \o <<>> = <<a>> /\ <<b>> \o <<>> = <<b>>
  BY <1>1, ConcatEmptySeq
<1>3. /\ \A x, y \in S : /\ <<x>> \in Seq(S) /\ Len(<<x>>) = 1
                         /\ <<x, y>> \in Seq(S) /\ Len(<<x, y>>) = 2
      /\ <<a, b, c>> \in Seq(S) /\ Len(<<a, b, c>>) = 3
  OBVIOUS
<1>4. ASSUME NEW x \in S, NEW y \in S
      PROVE  <<x>> \o <<y>> = <<x, y>>
  <2>1. \A i \in 1 .. 2 : (<<x>> \o <<y>>)[i] = <<x, y>>[i]
    BY <1>3, ConcatProperties
  <2>2. <<x>> \o <<y>> \in Seq(S) /\ Len(<<x>> \o <<y>>) = 2
    BY <1>3, ConcatProperties
  <2>3. <<x, y>> \in Seq(S)
    BY <1>3
  <2> QED
    BY <2>1, <2>2, <2>3, SeqEqual
<1>5. <<a>> \o <<b, c>> = <<a, b, c>>
  <2>1. \A i \in 1 .. 3 : (<<a>> \o <<b, c>>)[i] = <<a, b, c>>[i]
    BY <1>3, ConcatProperties
  <2>2. <<a>> \o <<b, c>> \in Seq(S) /\ Len(<<a>> \o <<b, c>>) = 3
    BY <1>3, ConcatProperties
  <2> QED
    BY <1>3, <2>1, <2>2, SeqEqual
<1> QED
  BY <1>2, <1>4, <1>5

\* The regimes a guarded panel is judged by.
LEMMA PathIs ==
  ASSUME NEW p \in Guarded
  PROVE  LET screen == saved[p]["screen"].breached
             normal == saved[p]["normal"].breached
         IN Path(p) = IF p \in Screened
                      THEN IF screen THEN IF normal THEN <<"screen", "normal", "rerun">>
                                                    ELSE <<"screen", "normal">>
                                     ELSE <<"screen">>
                      ELSE IF normal THEN <<"normal", "rerun">> ELSE <<"normal">>
<1> DEFINE to(r) == Follows(p, r, saved[p][r])
<1>1. /\ to("screen") = IF saved[p]["screen"].breached THEN "normal" ELSE None
      /\ to("normal") = IF saved[p]["normal"].breached THEN "rerun" ELSE None
      /\ to("rerun") = None
  BY DEF Follows
<1>2. Path(p) = <<First(p)>> \o IF to(First(p)) = None THEN <<>>
                 ELSE <<to(First(p))>> \o IF to(to(First(p))) = None \/ First(p) = "normal" THEN <<>>
                                          ELSE <<to(to(First(p)))>>
  BY DEF Path
<1>3. \A a, b, c \in REGIMES : /\ <<a>> \o <<>> = <<a>>
                               /\ <<a>> \o (<<b>> \o <<>>) = <<a, b>>
                               /\ <<a>> \o (<<b>> \o <<c>>) = <<a, b, c>>
  BY Tuples DEF REGIMES
<1> HIDE DEF to
<1>4. CASE p \in Screened
  <2>1. First(p) = "screen"
    BY <1>4 DEF First
  <2> QED
    BY <1>1, <1>2, <1>3, <1>4, <2>1, NoneAssumption DEF REGIMES
<1>5. CASE p \notin Screened
  <2>1. First(p) = "normal"
    BY <1>5 DEF First
  <2> QED
    BY <1>1, <1>2, <1>3, <1>5, <2>1, NoneAssumption DEF REGIMES
<1> QED
  BY <1>4, <1>5

\* A result that replay_costs finds is that of the regime that settles the panel, reached over
\* admissible bundles of different sessions.
LEMMA ReplayRests ==
  ASSUME NEW p \in Guarded, Replay(p) \in Decided
  PROVE  \E r \in REGIMES :
            /\ Settles(p, r) /\ Replay(p) = Settled(p, r, saved[p][r])
            /\ r = "rerun" => saved[p]["normal"].session # saved[p]["rerun"].session
<1> DEFINE path == Path(p)
           last == path[Len(path)]
<1>1. /\ \A i \in DOMAIN path : Valid(saved[p][path[i]])
      /\ \A i \in 1 .. Len(path) - 1 :
            saved[p][path[i]].session # saved[p][path[i + 1]].session
      /\ Replay(p) = Settled(p, last, saved[p][last])
  BY DEF Replay, Decided
<1> HIDE DEF path
<1>2. CASE p \in Screened /\ ~saved[p]["screen"].breached
  <2>1. path = <<"screen">>
    BY <1>2, PathIs DEF path
  <2>2. Settles(p, "screen") /\ last = "screen"
    BY <1>1, <1>2, <2>1, FollowsIs DEF Settles, Asked, First, REGIMES
  <2> QED
    BY <1>1, <2>2 DEF REGIMES
<1>3. CASE p \in Screened /\ saved[p]["screen"].breached /\ ~saved[p]["normal"].breached
  <2>1. path = <<"screen", "normal">>
    BY <1>3, PathIs DEF path
  <2>2. Settles(p, "normal") /\ last = "normal"
    BY <1>1, <1>3, <2>1, FollowsIs DEF Settles, Asked, First, REGIMES
  <2> QED
    BY <1>1, <2>2 DEF REGIMES
<1>4. CASE p \in Screened /\ saved[p]["screen"].breached /\ saved[p]["normal"].breached
  <2>1. path = <<"screen", "normal", "rerun">>
    BY <1>4, PathIs DEF path
  <2>2. Settles(p, "rerun") /\ last = "rerun"
    BY <1>1, <1>4, <2>1, FollowsIs DEF Settles, Asked, First, REGIMES
  <2>3. saved[p]["normal"].session # saved[p]["rerun"].session
    BY <1>1, <2>1
  <2> QED
    BY <1>1, <2>2, <2>3 DEF REGIMES
<1>5. CASE p \notin Screened /\ ~saved[p]["normal"].breached
  <2>1. path = <<"normal">>
    BY <1>5, PathIs DEF path
  <2>2. Settles(p, "normal") /\ last = "normal"
    BY <1>1, <1>5, <2>1, FollowsIs DEF Settles, Asked, First, REGIMES
  <2> QED
    BY <1>1, <2>2 DEF REGIMES
<1>6. CASE p \notin Screened /\ saved[p]["normal"].breached
  <2>1. path = <<"normal", "rerun">>
    BY <1>6, PathIs DEF path
  <2>2. Settles(p, "rerun") /\ last = "rerun"
    BY <1>1, <1>6, <2>1, FollowsIs DEF Settles, Asked, First, REGIMES
  <2>3. saved[p]["normal"].session # saved[p]["rerun"].session
    BY <1>1, <2>1
  <2> QED
    BY <1>1, <2>2, <2>3 DEF REGIMES
<1> QED
  BY <1>2, <1>3, <1>4, <1>5, <1>6

\* A bundle that settles a panel is where replay_costs ends.
LEMMA ReplayFinds ==
  ASSUME Numbered, NEW p \in Guarded, NEW r \in REGIMES, Settles(p, r)
  PROVE  Replay(p) = Settled(p, r, saved[p][r])
<1>1. p \in Names /\ saved[p][r] # Unsaved
  BY PanelsAssumption DEF Settles, Valid
<1>2. \A x, t \in REGIMES : x # t /\ Valid(saved[p][x]) /\ Valid(saved[p][t]) =>
         saved[p][x].session # saved[p][t].session
  BY <1>1 DEF Numbered, Valid
<1>3. Follows(p, r, saved[p][r]) = None /\ Valid(saved[p][r]) /\ Asked(p, r)
  BY DEF Settles
<1>4. CASE r = "screen"
  <2>1. Path(p) = <<"screen">>
    BY <1>3, <1>4, PathIs, FollowsIs DEF Asked, First
  <2> QED
    BY <1>1, <1>3, <1>4, <2>1 DEF Replay
<1>5. CASE r = "normal" /\ p \in Screened
  <2>1. Path(p) = <<"screen", "normal">>
    BY <1>3, <1>5, PathIs, FollowsIs DEF Asked, First
  <2>2. Valid(saved[p]["screen"])
    BY <1>3, <1>5 DEF Asked
  <2> QED
    BY <1>1, <1>2, <1>3, <1>5, <2>1, <2>2 DEF Replay, REGIMES
<1>6. CASE r = "normal" /\ p \notin Screened
  <2>1. Path(p) = <<"normal">>
    BY <1>3, <1>6, PathIs, FollowsIs DEF Asked, First
  <2> QED
    BY <1>1, <1>3, <1>6, <2>1 DEF Replay
<1>7. CASE r = "rerun" /\ p \in Screened
  <2>1. Path(p) = <<"screen", "normal", "rerun">>
    BY <1>3, <1>7, PathIs DEF Asked
  <2>2. Valid(saved[p]["screen"]) /\ Valid(saved[p]["normal"])
    BY <1>3, <1>7 DEF Asked
  <2> QED
    BY <1>1, <1>2, <1>3, <1>7, <2>1, <2>2 DEF Replay, REGIMES
<1>8. CASE r = "rerun" /\ p \notin Screened
  <2>1. Path(p) = <<"normal", "rerun">>
    BY <1>3, <1>8, PathIs DEF Asked
  <2>2. Valid(saved[p]["normal"])
    BY <1>3, <1>8 DEF Asked
  <2> QED
    BY <1>1, <1>2, <1>3, <1>8, <2>1, <2>2 DEF Replay, REGIMES
<1> QED
  BY <1>4, <1>5, <1>6, <1>7, <1>8 DEF REGIMES

\* Where a bundle is asked for and not there, or not admissible, replay_costs decides nothing.
LEMMA ReplayMisses ==
  ASSUME NEW p \in Guarded, NEW r \in REGIMES, Asked(p, r), ~Valid(saved[p][r])
  PROVE  Replay(p) \notin Decided
<1> SUFFICES ASSUME Replay(p) \in Decided PROVE FALSE
  OBVIOUS
<1>1. PICK t \in REGIMES : Settles(p, t)
  BY ReplayRests
<1> QED
  BY <1>1, FollowsIs DEF Settles, Asked, First, REGIMES

-----------------------------------------------------------------------------
(* The invariant *)

LEMMA InitSound == Init => Sound
<1> SUFFICES ASSUME Init PROVE Sound
  OBVIOUS
<1>1. TypeOK
  BY EmptySeq DEF Init, TypeOK, Unsaved, Bundles, REGIMES
<1>2. Numbered
  BY DEF Init, Numbered
<1> QED
  BY <1>1, <1>2 DEF Init, Sound, Measuring, Judged, Standing, Ended

\* Bundles that are replaced only where they were not admissible, under the same contract, leave
\* what was asked for and what is settled as they were.
LEMMA Kept ==
  ASSUME required' = required,
         \A p \in Names, r \in REGIMES : Valid(saved[p][r]) => saved'[p][r] = saved[p][r]
  PROVE  \A p \in Names, r \in REGIMES :
            /\ Valid(saved[p][r]) => Valid(saved[p][r])' /\ saved'[p][r] = saved[p][r]
            /\ Asked(p, r) => Asked(p, r)'
            /\ Settles(p, r) => Settles(p, r)'
<1>1. \A p \in Names, r \in REGIMES : Valid(saved[p][r]) => Valid(saved[p][r])'
  BY DEF Valid
<1>2. \A p \in Names, r \in REGIMES : Asked(p, r) => Asked(p, r)'
  BY <1>1 DEF Asked, REGIMES
<1> QED
  BY <1>1, <1>2 DEF Settles

\* The regime after one whose admissible bundle does not settle the panel is asked for.
LEMMA AskedNext ==
  ASSUME NEW p \in Names, NEW r \in REGIMES, Asked(p, r), Valid(saved[p][r]),
         Follows(p, r, saved[p][r]) # None
  PROVE  /\ Follows(p, r, saved[p][r]) \in REGIMES
         /\ Asked(p, Follows(p, r, saved[p][r]))
<1>1. CASE r = "screen" /\ Follows(p, r, saved[p][r]) = "normal" /\ saved[p][r].breached
  BY <1>1 DEF Asked, REGIMES
<1>2. CASE r = "normal" /\ Follows(p, r, saved[p][r]) = "rerun" /\ saved[p][r].breached /\ p \in Guarded
  BY <1>2 DEF Asked, REGIMES
<1> QED
  BY <1>1, <1>2, FollowsIs, NoneAssumption DEF REGIMES

\* A panel's first regime is asked for.
LEMMA AskedFirst ==
  ASSUME NEW p \in Names
  PROVE  First(p) \in REGIMES /\ Asked(p, First(p))
BY DEF First, Asked, REGIMES

\* The panels still to judge.
LEMMA TodoIs ==
  ASSUME NEW seq \in Seq(Names), seq # <<>>
  PROVE  /\ Head(seq) \in Names /\ Tail(seq) \in Seq(Names)
         /\ Range(seq) = {Head(seq)} \cup Range(Tail(seq))
         /\ Len(seq) = 1 => Range(Tail(seq)) = {}
         /\ Len(seq) # 1 => Tail(seq) # <<>> /\ Head(Tail(seq)) = seq[2]
<1>1. /\ Len(seq) \in Nat \ {0} /\ DOMAIN seq = 1 .. Len(seq)
      /\ Head(seq) = seq[1] /\ Head(seq) \in Names
  BY LenProperties, EmptySeq, ElementOfSeq
<1>2. /\ Tail(seq) \in Seq(Names) /\ Len(Tail(seq)) = Len(seq) - 1
      /\ \A i \in 1 .. Len(Tail(seq)) : Tail(seq)[i] = seq[i + 1]
  BY HeadTailProperties
<1>3. DOMAIN Tail(seq) = 1 .. Len(seq) - 1
  BY <1>2, LenProperties
<1>4. Range(seq) = {Head(seq)} \cup Range(Tail(seq))
  <2>1. ASSUME NEW i \in DOMAIN seq
        PROVE  seq[i] \in {Head(seq)} \cup Range(Tail(seq))
    <3>1. CASE i = 1
      BY <1>1, <3>1
    <3>2. CASE i # 1
      <4>1. i - 1 \in DOMAIN Tail(seq) /\ Tail(seq)[i - 1] = seq[i]
        BY <1>1, <1>2, <1>3, <3>2
      <4> QED
        BY <4>1 DEF Range
    <3> QED
      BY <3>1, <3>2
  <2>2. ASSUME NEW i \in DOMAIN Tail(seq)
        PROVE  Tail(seq)[i] \in Range(seq)
    <3>1. i + 1 \in DOMAIN seq /\ Tail(seq)[i] = seq[i + 1]
      BY <1>1, <1>2, <1>3
    <3> QED
      BY <3>1 DEF Range
  <2>3. Head(seq) \in Range(seq)
    BY <1>1 DEF Range
  <2> QED
    BY <2>1, <2>2, <2>3 DEF Range
<1>5. Len(seq) = 1 => Range(Tail(seq)) = {}
  BY <1>3 DEF Range
<1>6. Len(seq) # 1 => Tail(seq) # <<>> /\ Head(Tail(seq)) = seq[2]
  <2> SUFFICES ASSUME Len(seq) # 1 PROVE Tail(seq) # <<>> /\ Head(Tail(seq)) = seq[2]
    OBVIOUS
  <2>1. Len(Tail(seq)) \in Nat \ {0}
    BY <1>1, <1>2
  <2>2. \A t \in Seq(Names) : Len(t) # 0 => t # <<>> /\ Head(t) = t[1]
    OBVIOUS
  <2>3. Tail(seq)[1] = seq[2]
    BY <1>2, <2>1
  <2> DEFINE rest == Tail(seq)
  <2>4. rest \in Seq(Names) /\ Len(rest) # 0 /\ rest[1] = seq[2]
    BY <1>2, <2>1, <2>3
  <2> HIDE DEF rest
  <2>5. rest # <<>> /\ Head(rest) = seq[2]
    BY <2>2, <2>4
  <2> QED
    BY <2>5 DEF rest
<1> QED
  BY <1>1, <1>2, <1>4, <1>5, <1>6

\* Going on with the panels, or ending the stage, after the current one has a result that its
\* bundle supports when it is guarded.
LEMMA OnwardSound ==
  ASSUME Sound, pc # "off", Onward, UNCHANGED <<saved, required, sessions>>,
         NEW result \in Decided \cup {"not_evaluated"},
         records' = [records EXCEPT ![Panel] = result],
         Panel \in Guarded =>
            Settles(Panel, regime) /\ result = Settled(Panel, regime, saved[Panel][regime])
  PROVE  Sound'
<1>1. TypeOK /\ Numbered /\ Measuring /\ Judged /\ Standing /\ Ended
  BY DEF Sound
<1>2. /\ todo \in Seq(Names) /\ todo # <<>> /\ regime \in REGIMES /\ status = "running"
      /\ Guarded \subseteq Names
  BY <1>1, PanelsAssumption DEF TypeOK, Measuring
<1>3. /\ Panel \in Names /\ Tail(todo) \in Seq(Names)
      /\ Range(todo) = {Panel} \cup Range(Tail(todo))
      /\ Len(todo) = 1 => Range(Tail(todo)) = {}
      /\ Len(todo) # 1 => Tail(todo) # <<>> /\ Head(Tail(todo)) = todo[2]
  BY <1>2, TodoIs DEF Panel
<1>4. /\ records' \in [Names -> Decided \cup {"none", "unresolved", "not_evaluated"}]
      /\ records'[Panel] = result
      /\ \A p \in Names \ {Panel} : records'[p] = records[p]
  BY <1>1, <1>3 DEF TypeOK
<1>5. Panel \in Guarded => result \in Decided
  BY DEF Settled, Decided
<1>6. \A p \in Guarded : records'[p] \in Decided \/ p \in Range(Tail(todo))
  BY <1>1, <1>2, <1>3, <1>4, <1>5 DEF Judged
<1>7. Standing'
  <2> SUFFICES ASSUME NEW p \in Guarded, records'[p] \notin {"none", "unresolved"}
               PROVE  \E r \in REGIMES : /\ Settles(p, r)'
                                         /\ records'[p] = Settled(p, r, saved'[p][r])
    BY DEF Standing
  <2>1. \E r \in REGIMES : Settles(p, r) /\ records'[p] = Settled(p, r, saved[p][r])
    <3>1. CASE p = Panel
      BY <1>2, <1>4, <3>1
    <3>2. CASE p # Panel
      BY <1>1, <1>2, <1>4, <3>2 DEF Standing
    <3> QED
      BY <3>1, <3>2
  <2> QED
    BY <1>2, <2>1, Kept
<1>8. CASE Len(todo) = 1
  <2>1. pc' = "off" /\ todo' = <<>> /\ regime' = "normal" /\ status' = "complete"
    BY <1>8 DEF Onward, Stop
  <2>2. TypeOK'
    BY <1>1, <1>4, <2>1, EmptySeq DEF TypeOK, REGIMES
  <2>3. Numbered' /\ Measuring' /\ Judged'
    BY <1>1, <2>1 DEF Numbered, Measuring, Judged
  <2>4. Ended'
    BY <1>3, <1>6, <1>8, <2>1 DEF Ended
  <2> QED
    BY <1>7, <2>2, <2>3, <2>4 DEF Sound
<1>9. CASE Len(todo) # 1
  <2>1. pc' = "regime" /\ todo' = Tail(todo) /\ regime' = First(todo[2]) /\ status' = "running"
    BY <1>2, <1>9 DEF Onward
  <2>2. todo[2] \in Names /\ Panel' = todo[2]
    BY <1>3, <1>9, <2>1, TodoIs DEF Panel
  <2>3. regime' \in REGIMES /\ Asked(todo[2], regime')
    BY <2>1, <2>2, AskedFirst
  <2>4. TypeOK'
    BY <1>1, <1>3, <1>4, <2>1, <2>3 DEF TypeOK
  <2>5. Measuring'
    <3>1. Asked(Panel, regime)'
      <4>1. PICK p \in Names, r \in REGIMES : p = todo[2] /\ r = regime'
        BY <2>2, <2>3
      <4>2. Asked(p, r)'
        <5>1. Asked(p, r)
          BY <2>3, <4>1
        <5> QED
          BY <5>1, Kept
      <4> QED
        BY <2>2, <4>1, <4>2 DEF Asked, Valid
    <3> QED
      BY <1>3, <1>9, <2>1, <3>1 DEF Measuring
  <2>6. Numbered' /\ Judged' /\ Ended'
    BY <1>1, <1>6, <2>1 DEF Numbered, Judged, Ended
  <2> QED
    BY <1>7, <2>4, <2>5, <2>6 DEF Sound
<1> QED
  BY <1>8, <1>9

\* Giving up on a panel whose regime has no admissible bundle.
LEMMA IncompleteSound ==
  ASSUME Sound, pc # "off", RaiseIncomplete, UNCHANGED <<saved, required, sessions>>,
         ~Valid(saved[Panel][regime])
  PROVE  Sound'
<1>1. TypeOK /\ Numbered /\ Measuring /\ Judged /\ Standing /\ Ended
  BY DEF Sound
<1>2. Head(Panels) \in Names /\ Head(Panels) \in Guarded /\ Guarded \subseteq Names
  BY PanelsAssumption
<1>3. CASE Panel \in Guarded
  <2>1. /\ pc' = "off" /\ todo' = <<>> /\ regime' = "normal" /\ status' = "complete"
        /\ records' = [records EXCEPT ![Head(Panels)] = "unresolved"]
    BY <1>3 DEF RaiseIncomplete, Stop
  <2>2. TypeOK'
    BY <1>1, <2>1, EmptySeq DEF TypeOK, REGIMES
  <2>3. Numbered' /\ Measuring' /\ Judged'
    BY <1>1, <2>1 DEF Numbered, Measuring, Judged
  <2>4. /\ records'[Head(Panels)] = "unresolved"
        /\ \A p \in Names \ {Head(Panels)} : records'[p] = records[p]
    BY <1>1, <1>2, <2>1 DEF TypeOK
  <2>5. Standing'
    <3> SUFFICES ASSUME NEW p \in Guarded, records'[p] \notin {"none", "unresolved"}
                 PROVE  \E r \in REGIMES : /\ Settles(p, r)'
                                           /\ records'[p] = Settled(p, r, saved'[p][r])
      BY DEF Standing
    <3>1. p \in Names /\ records[p] \notin {"none", "unresolved"} /\ records'[p] = records[p]
      BY <1>2, <2>4
    <3>2. PICK r \in REGIMES : Settles(p, r) /\ records[p] = Settled(p, r, saved[p][r])
      BY <1>1, <3>1 DEF Standing
    <3> QED
      BY <3>1, <3>2, Kept
  <2>6. Ended'
    <3>1. Panel \in Guarded /\ regime \in REGIMES /\ Asked(Panel, regime)
      BY <1>1, <1>3 DEF Measuring, TypeOK
    <3>2. \E p \in Guarded, r \in REGIMES : Asked(p, r)' /\ ~Valid(saved[p][r])'
      <4> DEFINE p == Panel
                 r == regime
      <4>1. Asked(p, r) /\ ~Valid(saved[p][r]) /\ p \in Guarded /\ r \in REGIMES
        BY <3>1
      <4> QED
        BY <4>1 DEF Asked, Valid
    <3> QED
      BY <2>1, <2>4, <3>2 DEF Ended
  <2> QED
    BY <2>2, <2>3, <2>5, <2>6 DEF Sound
<1>4. CASE Panel \notin Guarded
  BY <1>4, OnwardSound DEF RaiseIncomplete
<1> QED
  BY <1>3, <1>4

\* A step that leaves the files alone, inside an attempt.
LEMMA StepSound ==
  ASSUME Sound, UNCHANGED <<files, todo>>, pc # "off", pc' # "off", sessions' \in Nat,
         pc' \in {"regime", "measuring", "judge"},
         NEW r \in REGIMES, regime' = r, Asked(Panel, r),
         pc' = "measuring" => ~Valid(saved[Panel][r]) /\ sessions' = sessions + 1,
         pc' # "measuring" => sessions' = sessions
  PROVE  Sound'
<1>1. TypeOK /\ Numbered /\ Measuring /\ Judged /\ Standing /\ Ended
  BY DEF Sound
<1>2. TypeOK'
  BY <1>1 DEF TypeOK
<1>3. Numbered'
  <2>1. ASSUME NEW p \in Names, NEW t \in REGIMES, saved[p][t] # Unsaved
        PROVE  /\ saved[p][t].session <= sessions'
               /\ pc' = "measuring" => saved[p][t].session < sessions'
    <3>1. saved[p][t].session \in Nat /\ sessions \in Nat
      BY <1>1 DEF TypeOK, Bundles
    <3>2. saved[p][t].session <= sessions
      BY <1>1, <2>1 DEF Numbered
    <3> QED
      BY <3>1, <3>2
  <2> QED
    BY <1>1, <2>1 DEF Numbered
<1>4. Measuring'
  <2>1. Asked(Panel, regime)'
    BY DEF Asked, Valid, Panel
  <2>2. Valid(saved[Panel][regime])' => Valid(saved[Panel][r])
    BY DEF Valid, Panel
  <2> QED
    BY <1>1, <2>1, <2>2 DEF Measuring, TypeOK
<1>5. Judged' /\ Ended'
  BY <1>1 DEF Judged, Ended, Measuring
<1>6. Standing'
  <2> SUFFICES ASSUME NEW p \in Guarded, records[p] \notin {"none", "unresolved"}
               PROVE  \E t \in REGIMES : /\ Settles(p, t)'
                                         /\ records[p] = Settled(p, t, saved[p][t])
    BY DEF Standing
  <2>1. PICK t \in REGIMES : Settles(p, t) /\ records[p] = Settled(p, t, saved[p][t])
    BY <1>1 DEF Standing
  <2> QED
    BY <2>1, PanelsAssumption, Kept
<1> QED
  BY <1>2, <1>3, <1>4, <1>5, <1>6 DEF Sound

\* An attempt that ends without the stage being complete.
LEMMA StopSound ==
  ASSUME Sound, Stop, UNCHANGED <<saved, required, records, sessions>>, status # "complete",
         status' \in {"running", "noisy", "failed", "not_started"}
  PROVE  Sound'
<1>1. TypeOK'
  BY EmptySeq DEF Sound, TypeOK, Stop, REGIMES
<1> QED
  BY <1>1 DEF Sound, Numbered, Measuring, Judged, Standing, Ended, Stop

\* A session's bundle takes the place of one that was not admissible.
LEMMA MeasuredSound ==
  ASSUME Sound, Measured
  PROVE  /\ Sound'
         /\ \A p \in Names, r \in REGIMES : Valid(saved[p][r]) => saved'[p][r] = saved[p][r]
<1>1. TypeOK /\ Numbered /\ Measuring /\ Judged /\ Standing /\ Ended
  BY DEF Sound
<1>2. /\ pc = "measuring" /\ pc' = "judge" /\ status = "running" /\ todo # <<>>
      /\ ~Valid(saved[Panel][regime]) /\ sessions > 0 /\ Asked(Panel, regime)
      /\ UNCHANGED <<status, records, required, todo, regime, sessions>>
  BY <1>1 DEF Measured, Measuring
<1>3. Panel \in Names /\ regime \in REGIMES /\ sessions \in Nat /\ Guarded \subseteq Names
  BY <1>1, <1>2, TodoIs, PanelsAssumption DEF TypeOK, Panel
<1>4. PICK b \in Bundles : /\ saved' = [saved EXCEPT ![Panel][regime] = b]
                           /\ b.session = sessions
  <2>1. PICK breached \in BOOLEAN,
             evidence \in {"unclean"} \cup IF required = None THEN Contracts ELSE {required} :
          saved' = [saved EXCEPT ![Panel][regime] =
                      [session |-> sessions, breached |-> breached, evidence |-> evidence]]
    BY DEF Measured
  <2>2. [session |-> sessions, breached |-> breached, evidence |-> evidence] \in Bundles
    BY <1>1, <1>3 DEF TypeOK, Bundles
  <2> QED
    BY <2>1, <2>2
<1>5. /\ saved'[Panel][regime] = b
      /\ \A p \in Names, r \in REGIMES :
            p # Panel \/ r # regime => saved'[p][r] = saved[p][r]
      /\ saved' \in [Names -> [REGIMES -> Bundles]]
  BY <1>1, <1>3, <1>4 DEF TypeOK
<1>6. \A p \in Names, r \in REGIMES : Valid(saved[p][r]) => saved'[p][r] = saved[p][r]
  BY <1>2, <1>5
<1>7. TypeOK'
  BY <1>1, <1>2, <1>5 DEF TypeOK
<1>8. Numbered'
  <2>1. ASSUME NEW p \in Names, NEW r \in REGIMES, saved'[p][r] # Unsaved
        PROVE  saved'[p][r].session <= sessions
    BY <1>1, <1>2, <1>3, <1>4, <1>5, <2>1 DEF Numbered, TypeOK, Bundles
  <2>2. ASSUME NEW p \in Names, NEW r \in REGIMES, NEW t \in REGIMES, r # t,
               saved'[p][r] # Unsaved, saved'[p][t] # Unsaved
        PROVE  saved'[p][r].session # saved'[p][t].session
    <3>1. CASE p = Panel /\ r = regime
      <4>1. saved'[p][t] = saved[p][t] /\ saved[p][t].session < sessions
        BY <1>1, <1>2, <1>5, <2>2, <3>1 DEF Numbered
      <4> QED
        BY <1>1, <1>3, <1>4, <1>5, <3>1, <4>1 DEF TypeOK, Bundles
    <3>2. CASE p = Panel /\ t = regime
      <4>1. saved'[p][r] = saved[p][r] /\ saved[p][r].session < sessions
        BY <1>1, <1>2, <1>5, <2>2, <3>2 DEF Numbered
      <4> QED
        BY <1>1, <1>3, <1>4, <1>5, <3>2, <4>1 DEF TypeOK, Bundles
    <3>3. CASE p # Panel \/ (r # regime /\ t # regime)
      BY <1>1, <1>5, <2>2, <3>3 DEF Numbered
    <3> QED
      BY <3>1, <3>2, <3>3
  <2> QED
    BY <1>2, <2>1, <2>2 DEF Numbered
<1>9. Measuring'
  <2>1. PICK p \in Names, r \in REGIMES : p = Panel /\ r = regime /\ Panel' = p /\ regime' = r
    BY <1>2, <1>3 DEF Panel
  <2>2. Asked(p, r)'
    BY <1>2, <1>6, <2>1, Kept
  <2>3. Asked(Panel, regime)'
    BY <2>1, <2>2 DEF Asked, Valid
  <2> QED
    BY <1>2, <2>3 DEF Measuring
<1>10. Judged' /\ Ended'
  BY <1>1, <1>2 DEF Judged, Ended
<1>11. Standing'
  <2> SUFFICES ASSUME NEW p \in Guarded, records[p] \notin {"none", "unresolved"}
               PROVE  \E r \in REGIMES : /\ Settles(p, r)'
                                         /\ records[p] = Settled(p, r, saved'[p][r])
    BY <1>2 DEF Standing
  <2>1. PICK r \in REGIMES : Settles(p, r) /\ records[p] = Settled(p, r, saved[p][r])
    BY <1>1, <1>2 DEF Standing
  <2>2. Settles(p, r)' /\ saved'[p][r] = saved[p][r]
    BY <1>2, <1>3, <1>6, <2>1, Kept DEF Settles
  <2> QED
    BY <2>1, <2>2
<1> QED
  BY <1>6, <1>7, <1>8, <1>9, <1>10, <1>11 DEF Sound

\* Every step keeps the invariant, and only Measured changes a bundle.
LEMMA NextSound ==
  ASSUME Sound, [Next]_vars
  PROVE  /\ Sound'
         /\ \A p \in Names, r \in REGIMES : Valid(saved[p][r]) => saved'[p][r] = saved[p][r]
<1>1. TypeOK /\ Numbered /\ Measuring /\ Judged /\ Standing /\ Ended
  BY DEF Sound
<1>2. CASE Start
  <2>1. /\ Head(Panels) \in Names /\ Panels \in Seq(Names) /\ Panels # <<>>
        /\ Guarded \subseteq Range(Panels)
    BY PanelsAssumption DEF Names
  <2>2. PICK p \in Names, r \in REGIMES : p = Head(Panels) /\ r = First(p) /\ Asked(p, r)
    BY <2>1, AskedFirst
  <2>3. TypeOK' /\ Panel' = p /\ regime' = r
    BY <1>1, <1>2, <2>1, <2>2 DEF Start, TypeOK, Panel
  <2>4. Asked(Panel, regime)'
    BY <1>2, <2>2, <2>3 DEF Asked, Valid, Start
  <2>5. Measuring' /\ Judged' /\ Ended'
    BY <1>2, <2>1, <2>4 DEF Start, Measuring, Judged, Ended
  <2>6. Standing'
    <3>1. \A q \in Guarded : records'[q] = "none"
      BY <1>2, PanelsAssumption DEF Start
    <3> QED
      BY <3>1 DEF Standing
  <2>7. Numbered'
    BY <1>1, <1>2 DEF Start, Numbered
  <2> QED
    BY <1>2, <2>3, <2>5, <2>6, <2>7 DEF Sound, Start
<1>3. CASE Consult
  <2>1. /\ pc # "off" /\ UNCHANGED <<files, todo>> /\ regime' = regime /\ regime \in REGIMES
        /\ Asked(Panel, regime) /\ sessions \in Nat
    BY <1>1, <1>3 DEF Consult, TypeOK, Measuring
  <2>2. CASE Reusable(saved[Panel][regime])
    <3>1. pc' = "judge" /\ sessions' = sessions
      BY <1>3, <2>2 DEF Consult
    <3> QED
      BY <2>1, <3>1, StepSound
  <2>3. CASE ~Reusable(saved[Panel][regime])
    <3>1. /\ pc' = "measuring" /\ sessions' = sessions + 1 /\ sessions' \in Nat
          /\ ~Valid(saved[Panel][regime])
      BY <1>3, <2>1, <2>3 DEF Consult, Reusable
    <3> QED
      BY <2>1, <3>1, StepSound
  <2> QED
    BY <2>2, <2>3
<1>4. CASE Measured
  BY <1>4, MeasuredSound
<1>5. CASE NotMeasured
  <2>1. ~Valid(saved[Panel][regime]) /\ pc # "off"
    BY <1>1, <1>5 DEF NotMeasured, Measuring
  <2>2. RaiseIncomplete /\ UNCHANGED <<saved, required, sessions>>
    BY <1>5 DEF NotMeasured
  <2> QED
    BY <2>1, <2>2, IncompleteSound
<1>6. CASE BrokenOff
  <2>1. /\ Stop /\ UNCHANGED <<saved, required, records, sessions>> /\ status # "complete"
        /\ status' \in {"noisy", "failed"}
    BY <1>1, <1>6 DEF BrokenOff, Measuring
  <2> QED
    BY <2>1, StopSound
<1>7. CASE Judge
  <2>1. /\ UNCHANGED <<saved, required, sessions>> /\ pc # "off" /\ Asked(Panel, regime)
        /\ regime \in REGIMES /\ Panel \in Names /\ sessions \in Nat
    BY <1>1, <1>7, TodoIs DEF Judge, TypeOK, Measuring, Panel
  <2> DEFINE b == saved[Panel][regime]
             next == Follows(Panel, regime, b)
  <2>2. CASE ~Valid(b) /\ RaiseIncomplete
    BY <2>1, <2>2, IncompleteSound
  <2>3. CASE Valid(b) /\ next # None /\ regime' = next /\ pc' = "regime"
             /\ UNCHANGED <<status, records, todo>>
    <3>1. next \in REGIMES /\ Asked(Panel, next)
      BY <2>1, <2>3, AskedNext
    <3>2. /\ UNCHANGED <<files, todo>> /\ pc' \in {"regime", "measuring", "judge"}
          /\ regime' = next /\ sessions' = sessions /\ pc' = "regime"
      BY <2>1, <2>3
    <3> HIDE DEF next
    <3> QED
      BY <2>1, <3>1, <3>2, StepSound
  <2>4. CASE /\ Valid(b) /\ next = None
             /\ records' = [records EXCEPT ![Panel] = Settled(Panel, regime, b)]
             /\ Onward
    <3> DEFINE result == Settled(Panel, regime, b)
    <3>1. result \in Decided \cup {"not_evaluated"}
      BY DEF Settled, Decided
    <3>2. Settles(Panel, regime)
      BY <2>1, <2>4 DEF Settles
    <3>3. records' = [records EXCEPT ![Panel] = result] /\ Onward
      BY <2>4
    <3> QED
      BY <2>1, <3>1, <3>2, <3>3, OnwardSound
  <2> QED
    BY <1>7, <2>1, <2>2, <2>3, <2>4 DEF Judge
<1>8. CASE Kill
  <2>1. /\ Stop /\ UNCHANGED <<saved, required, records, sessions, status>>
        /\ status = "running"
    BY <1>1, <1>8 DEF Kill, Measuring
  <2> QED
    BY <2>1, StopSound
<1>9. CASE Amend
  <2>1. TypeOK'
    BY <1>1, <1>9 DEF TypeOK, Amend
  <2> QED
    BY <1>1, <1>9, <2>1 DEF Amend, Sound, Numbered, Measuring, Judged, Standing, Ended
<1>10. CASE UNCHANGED vars
  <2>1. UNCHANGED <<saved, required, status, records, pc, todo, regime, sessions>>
    BY <1>10 DEF vars
  <2>2. TypeOK' /\ Numbered' /\ Judged'
    BY <1>1, <2>1 DEF TypeOK, Numbered, Judged
  <2>3. Measuring' /\ Standing' /\ Ended'
    BY <1>1, <2>1 DEF Measuring, Standing, Ended, Asked, Settles, Valid, Panel
  <2> QED
    BY <2>1, <2>2, <2>3 DEF Sound
<1> QED
  BY <1>2, <1>3, <1>4, <1>5, <1>6, <1>7, <1>8, <1>9, <1>10 DEF Next

-----------------------------------------------------------------------------
(* The theorems *)

\* What decide makes of the saved bundles of a complete stage is what the stage recorded, for
\* every panel it decided and for the comparison, whatever attempts and amendments came before.
THEOREM ReplaysAgree == Spec => []ReplayAgrees
<1>1. Sound => ReplayAgrees
  <2> SUFFICES ASSUME Sound, status = "complete"
               PROVE  /\ \A p \in Guarded :
                            records[p] \notin {"none", "unresolved"} => Replay(p) = records[p]
                      /\ \/ \A p \in Guarded : records[p] \in Decided /\ Replay(p) = records[p]
                         \/ /\ records[Head(Panels)] = "unresolved"
                            /\ \E p \in Guarded : Replay(p) \notin Decided
    BY PanelsAssumption DEF ReplayAgrees, Passed, Decided
  <2>1. TypeOK /\ Numbered /\ Standing /\ Ended /\ Guarded \subseteq Names
    BY PanelsAssumption DEF Sound
  <2>2. \A p \in Guarded : records[p] \notin {"none", "unresolved"} => Replay(p) = records[p]
    BY <2>1, ReplayFinds DEF Standing
  <2>3. CASE \A p \in Guarded : records[p] \in Decided
    BY <2>2, <2>3 DEF Decided
  <2>4. CASE /\ records[Head(Panels)] = "unresolved"
             /\ \E p \in Guarded, r \in REGIMES : Asked(p, r) /\ ~Valid(saved[p][r])
    <3>1. \E p \in Guarded : Replay(p) \notin Decided
      BY <2>4, ReplayMisses
    <3> QED
      BY <2>2, <2>4, <3>1
  <2> QED
    BY <2>1, <2>3, <2>4 DEF Ended
<1> QED
  BY InitSound, NextSound, <1>1, PTL DEF Spec

\* A panel fails only on two sessions that both breached and passes only on one that did not,
\* each with the evidence that run.json requires when the stage is complete.
THEOREM EvidenceStaysCurrent == Spec => []EvidenceIsCurrent
<1>1. Sound => EvidenceIsCurrent
  <2> DEFINE Good(b) == b # Unsaved /\ (required # None => b.evidence = required)
             Fails(p) == /\ Good(saved[p]["normal"]) /\ saved[p]["normal"].breached
                         /\ Good(saved[p]["rerun"]) /\ saved[p]["rerun"].breached
                         /\ saved[p]["normal"].session # saved[p]["rerun"].session
             Passes(p) == \E r \in REGIMES : Good(saved[p][r]) /\ ~saved[p][r].breached
  <2>1. \A b : Valid(b) => Good(b)
    BY DEF Valid
  <2> HIDE DEF Good
  <2> SUFFICES ASSUME Sound, status = "complete", NEW p \in Guarded,
                      NEW result \in {records[p], Replay(p)}
               PROVE  (result = "failed" => Fails(p)) /\ (Passed(result) => Passes(p))
    BY DEF EvidenceIsCurrent, Good
  <2>2. CASE result \in Decided
    <3>1. Replay(p) = result
      BY <2>2, PanelsAssumption, ReplayFinds DEF Sound, Standing, Decided
    <3>2. PICK r \in REGIMES :
             /\ Settles(p, r) /\ result = Settled(p, r, saved[p][r])
             /\ r = "rerun" => saved[p]["normal"].session # saved[p]["rerun"].session
      BY <2>2, <3>1, ReplayRests
    <3>3. CASE r = "rerun"
      BY <2>1, <3>2, <3>3 DEF Settles, Asked, Settled, Passed
    <3>4. CASE r # "rerun"
      BY <2>1, <3>2, <3>4, FollowsIs DEF Settles, Asked, Settled, Passed
    <3> QED
      BY <3>3, <3>4
  <2>3. CASE result \notin Decided
    BY <2>3 DEF Decided, Passed
  <2> QED
    BY <2>2, <2>3
<1> QED
  BY InitSound, NextSound, <1>1, PTL DEF Spec

\* A measurement that is admissible is never made again, wherever attempts end.
THEOREM NobodyRollsAgain == Spec => NoSecondChance
<1>1. Sound /\ [Next]_vars =>
         [\A p \in Names, r \in REGIMES : Valid(saved[p][r]) => saved'[p][r] = saved[p][r]]_vars
  BY NextSound
<1> QED
  BY InitSound, NextSound, <1>1, PTL DEF Spec, NoSecondChance
=============================================================================
