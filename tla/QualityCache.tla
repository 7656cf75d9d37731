---------------------------- MODULE QualityCache ----------------------------
(***************************************************************************)
(* The quality stages of several sessions over one entry of the baseline    *)
(* store: Comparison.quality, audit and aggregate_checks                    *)
(* (coordinator/__init__.py), with the append-only observations.jsonl of    *)
(* each session and the cache functions of coordinator/storage.py.          *)
(*                                                                         *)
(* One case, whose baseline the sessions share; every session has an        *)
(* evolved build of its own.  A batch is one seed here: the seeds of a      *)
(* batch are committed one after the other, as the batches are.  What a     *)
(* compile yields is any output: the builds may be nondeterministic, which  *)
(* is what the audit is there to find.  A check is a pure function of the   *)
(* output (Verified), so a row keeps the output only.                       *)
(***************************************************************************)
EXTENDS Naturals, Sequences, FiniteSets, FiniteSetsExt, SequencesExt

CONSTANTS
    Sessions,
    N,              \* seeds per block of the case
    Outputs,        \* what compiling a seed can give
    Sound,          \* the outputs whose checks verify
    InFlight,       \* batches compiled at the same time
    MaxOdd,         \* bound on compiles that fail or give another output than Usual
    MaxKills        \* bound on kills

ASSUME NAssumption == N \in Nat \ {0} /\ InFlight \in Nat \ {0}
ASSUME OutputsAssumption ==
    Sound \subseteq Outputs /\ Sound # {} /\ Outputs \cap {"none", "error"} = {}
ASSUME BoundsAssumption == MaxOdd \in Nat /\ MaxKills \in Nat

Seeds == 1 .. N
Revisions == {"baseline", "evolved"}
Items == Revisions \X Seeds
\* The place of an item in the order in which quality plans, compiles and commits.
Place(item) == IF item[1] = "baseline" THEN item[2] ELSE N + item[2]
Usual == CHOOSE o \in Sound : TRUE
None == "none"
Error == "error"

VARIABLES
    pc,         \* where the session's quality stage is
    cache,      \* it uses the entry
    look,       \* the seeds it has still to look up
    todo,       \* the items it has still to commit
    made,       \* what its pool has compiled
    sha,        \* the hash it took of the entry's output file
    obs, torn,  \* its observations.jsonl: the lines, and an unterminated tail
    failures,   \* items with failure evidence
    audit, C0,  \* evidence of its audit and of its C0 checks
    touched,    \* it replayed from the entry or stored in it
    rows,       \* the entry: the row of each seed
    files,      \* the entry: the output file of each seed
    exists, invalid,
    readers,    \* who holds the entry's lock shared
    odd, kills

memory == <<pc, cache, look, todo, made, sha>>
disk == <<obs, torn, failures, audit, C0, touched>>
entry == <<rows, files, exists, invalid, readers>>
vars == <<memory, disk, entry, odd, kills>>

-----------------------------------------------------------------------------
Row == [item : Items, out : Outputs \cup {Error}, cached : BOOLEAN]
Stored == [out : Outputs, sha : Outputs]
NoRow == [out |-> None, sha |-> None]
Corrupt == [item |-> None]
Places == {"off", "replay", "work", "store", "copy", "hash", "write",
           "audit", "invalidate", "aggregate", "complete"}

TypeOK ==
    /\ pc \in [Sessions -> Places]
    /\ cache \in [Sessions -> BOOLEAN] /\ torn \in [Sessions -> BOOLEAN]
    /\ touched \in [Sessions -> BOOLEAN]
    /\ look \in [Sessions -> SUBSET Seeds] /\ todo \in [Sessions -> SUBSET Items]
    /\ obs \in [Sessions -> Seq(Row)]
    /\ made \in [Sessions -> [Items -> Outputs \cup {None, Error}]]
    /\ sha \in [Sessions -> Outputs \cup {None}]
    /\ failures \in [Sessions -> SUBSET Items]
    /\ audit \in [Sessions -> {None, "passed", "unresolved"}]
    /\ C0 \in [Sessions -> {None, "passed", "unresolved"}]
    /\ rows \in [Seeds -> Stored \cup {NoRow}]
    /\ files \in [Seeds -> Outputs \cup {None}]
    /\ exists \in BOOLEAN /\ invalid \in BOOLEAN
    /\ readers \subseteq Sessions
    /\ odd \in 0 .. MaxOdd /\ kills \in 0 .. MaxKills

Nothing == [i \in Items |-> None]

Init ==
    /\ pc = [s \in Sessions |-> "off"]
    /\ cache = [s \in Sessions |-> FALSE]
    /\ look = [s \in Sessions |-> {}] /\ todo = [s \in Sessions |-> {}]
    /\ made = [s \in Sessions |-> Nothing] /\ sha = [s \in Sessions |-> None]
    /\ obs = [s \in Sessions |-> <<>>] /\ torn = [s \in Sessions |-> FALSE]
    /\ failures = [s \in Sessions |-> {}]
    /\ audit = [s \in Sessions |-> None] /\ C0 = [s \in Sessions |-> None]
    /\ touched = [s \in Sessions |-> FALSE]
    /\ rows = [k \in Seeds |-> NoRow] /\ files = [k \in Seeds |-> None]
    /\ exists = FALSE /\ invalid = FALSE /\ readers = {}
    /\ odd = 0 /\ kills = 0

Goto(s, place) == pc' = [pc EXCEPT ![s] = place]

-----------------------------------------------------------------------------
(* Planning. *)

\* Mutant: an item that failed is not completed.
Missing_failed(s) ==
    {i \in Items : \A n \in DOMAIN obs[s] : obs[s][n].item = i => obs[s][n].out = Error}

\* The items without an observation.
Missing(s) == {i \in Items : \A n \in DOMAIN obs[s] : obs[s][n].item # i}

(* quality reads the observations of earlier attempts, and whether the entry is valid. *)
Begin(s) ==
    /\ pc[s] = "off"
    /\ todo' = [todo EXCEPT ![s] = Missing(s)]
    /\ look' = [look EXCEPT ![s] =
                  IF invalid THEN {} ELSE {k \in Seeds : <<"baseline", k>> \in Missing(s)}]
    /\ cache' = [cache EXCEPT ![s] = ~invalid]
    /\ made' = [made EXCEPT ![s] = Nothing]
    /\ Goto(s, "replay")
    /\ UNCHANGED <<sha, disk, entry, odd, kills>>

\* Mutant: append_record writes after whatever is there.
Appended_untrimmed(s, row) ==
    /\ obs' = [obs EXCEPT ![s] = Append(@, IF torn[s] THEN Corrupt ELSE row)]
    /\ torn' = [torn EXCEPT ![s] = FALSE]

(* append_record: an unterminated tail is cut off before the line is written. *)
Appended(s, row) ==
    /\ obs' = [obs EXCEPT ![s] = Append(@, row)]
    /\ torn' = [torn EXCEPT ![s] = FALSE]

(* cached_quality_observation: a row whose output file is there with the hash it names. *)
Reusable(k) == rows[k] # NoRow /\ files[k] = rows[k].sha

(* The next seed is looked up; a reusable row becomes an observation at once. *)
Replay(s) ==
    /\ pc[s] = "replay" /\ look[s] # {}
    /\ LET k == Min(look[s])
           item == <<"baseline", k>>
       IN IF Reusable(k)
          THEN /\ Appended(s, [item |-> item, out |-> rows[k].out, cached |-> TRUE])
               /\ todo' = [todo EXCEPT ![s] = @ \ {item}]
               /\ touched' = [touched EXCEPT ![s] = TRUE]
          ELSE UNCHANGED <<obs, torn, todo, touched>>
    /\ look' = [look EXCEPT ![s] = @ \ {Min(@)}]
    /\ UNCHANGED <<pc, cache, made, sha, failures, audit, C0, entry, odd, kills>>

Planned(s) ==
    /\ pc[s] = "replay" /\ look[s] = {}
    /\ Goto(s, "work")
    /\ UNCHANGED <<cache, look, todo, made, sha, disk, entry, odd, kills>>

-----------------------------------------------------------------------------
(* Compiling and committing. *)

(* quality_batch on a pool thread: tasks start in order, and end in any.  It compiles the   *)
(* seed and its routing prefixes and checks them; it records nothing.                      *)
Compile(s, i) ==
    /\ pc[s] \in {"work", "store", "copy", "hash", "write"}
    /\ i \in todo[s] /\ made[s][i] = None
    /\ Cardinality({j \in todo[s] : Place(j) < Place(i) /\ made[s][j] = None}) < InFlight
    /\ \E o \in Outputs \cup {Error} :
          /\ o # Usual => odd < MaxOdd
          /\ odd' = IF o = Usual THEN odd ELSE odd + 1
          /\ made' = [made EXCEPT ![s][i] = o]
    /\ UNCHANGED <<pc, cache, look, todo, sha, disk, entry, kills>>

\* Items are committed in the planned order.
Earliest(items) == CHOOSE i \in items : \A j \in items : Place(i) <= Place(j)
Next_item(s) == Earliest(todo[s])
Ready(s) == pc[s] = "work" /\ todo[s] # {} /\ made[s][Next_item(s)] # None

(* The evidence of a failed seed is written before its observation. *)
RecordFailure(s) ==
    /\ Ready(s) /\ made[s][Next_item(s)] = Error
    /\ Next_item(s) \notin failures[s]
    /\ failures' = [failures EXCEPT ![s] = @ \cup {Next_item(s)}]
    /\ UNCHANGED <<memory, obs, torn, audit, C0, touched, entry, odd, kills>>

\* Mutant: the observation is written first.
Recorded_later(s) == TRUE

Recorded(s) == made[s][Next_item(s)] = Error => Next_item(s) \in failures[s]

(* The observation of the first planned item; a good baseline one goes on to the store. *)
Commit(s) ==
    /\ Ready(s) /\ Recorded(s)
    /\ LET item == Next_item(s)
           out == made[s][item]
       IN /\ Appended(s, [item |-> item, out |-> out, cached |-> FALSE])
          /\ IF item[1] = "baseline" /\ cache[s] /\ out # Error
             THEN Goto(s, "store") /\ UNCHANGED todo
             ELSE todo' = [todo EXCEPT ![s] = @ \ {Next_item(s)}] /\ UNCHANGED pc
    /\ UNCHANGED <<cache, look, made, sha, failures, audit, C0, touched, entry, odd, kills>>

-----------------------------------------------------------------------------
(* store_quality_observation: under the shared lock of the entry. *)

\* Mutant: the entry's validity is checked, its lock not taken.
StoreLock_unlocked(s) ==
    /\ pc[s] = "store"
    /\ exists' = TRUE
    /\ IF invalid
       THEN Goto(s, "work") /\ todo' = [todo EXCEPT ![s] = @ \ {Next_item(s)}]
       ELSE Goto(s, "copy") /\ UNCHANGED todo
    /\ UNCHANGED <<cache, look, made, sha, disk, rows, files, invalid, readers, odd, kills>>

StoreLock(s) ==
    /\ pc[s] = "store"
    /\ exists' = TRUE
    /\ IF invalid
       THEN Goto(s, "work") /\ todo' = [todo EXCEPT ![s] = @ \ {Next_item(s)}] /\ UNCHANGED readers
       ELSE Goto(s, "copy") /\ readers' = readers \cup {s} /\ UNCHANGED todo
    /\ UNCHANGED <<cache, look, made, sha, disk, rows, files, invalid, odd, kills>>

(* The artifacts are copied beside their names and moved there, the output first. *)
Copy(s) ==
    /\ pc[s] = "copy"
    /\ files' = [files EXCEPT ![Next_item(s)[2]] = made[s][Next_item(s)]]
    /\ Goto(s, "hash")
    /\ UNCHANGED <<cache, look, todo, made, sha, disk, rows, exists, invalid, readers, odd, kills>>

(* The output is hashed where it lies: another session may have replaced it. *)
Hash(s) ==
    /\ pc[s] = "hash"
    /\ sha' = [sha EXCEPT ![s] = files[Next_item(s)[2]]]
    /\ Goto(s, "write")
    /\ UNCHANGED <<cache, look, todo, made, disk, entry, odd, kills>>

Write(s) ==
    /\ pc[s] = "write"
    /\ rows' = [rows EXCEPT ![Next_item(s)[2]] = [out |-> made[s][Next_item(s)], sha |-> sha[s]]]
    /\ readers' = readers \ {s}
    /\ touched' = [touched EXCEPT ![s] = TRUE]
    /\ sha' = [sha EXCEPT ![s] = None]
    /\ todo' = [todo EXCEPT ![s] = @ \ {Next_item(s)}]
    /\ Goto(s, "work")
    /\ UNCHANGED <<cache, look, made, obs, torn, failures, audit, C0, files, exists, invalid,
                   odd, kills>>

-----------------------------------------------------------------------------
(* The audit and the aggregates. *)

Observed(s) ==
    /\ pc[s] = "work" /\ todo[s] = {}
    /\ made' = [made EXCEPT ![s] = Nothing]
    /\ cache' = [cache EXCEPT ![s] = FALSE]
    /\ Goto(s, "audit")
    /\ UNCHANGED <<look, todo, sha, disk, entry, odd, kills>>

\* Mutant: a session that only replayed the entry leaves it to the one that stored it.
Blames_own(s) == \E n \in DOMAIN obs[s] : obs[s][n].item[1] = "baseline" /\ ~obs[s][n].cached

\* Whether a failed audit goes on to the entry: it does, whatever failed.
Blames(s) == TRUE

(* Sampled rows (at least ten, here all) are compiled again; anything may come out, but a   *)
(* revision without an output cannot pass.                                                 *)
Audit(s) ==
    /\ pc[s] = "audit"
    /\ \E result \in {"passed", "unresolved"} :
          /\ result = "passed" =>
                \A r \in Revisions :
                   \E n \in DOMAIN obs[s] : obs[s][n].item[1] = r /\ obs[s][n].out # Error
          /\ audit' = [audit EXCEPT ![s] = result]
          /\ Goto(s, IF result = "unresolved" /\ Blames(s) THEN "invalidate" ELSE "aggregate")
    /\ UNCHANGED <<cache, look, todo, made, sha, obs, torn, failures, C0, touched, entry,
                   odd, kills>>

(* invalidate_quality_entry, under the exclusive lock; there may be no entry. *)
Invalidate(s) ==
    /\ pc[s] = "invalidate"
    /\ exists => readers = {}
    /\ invalid' = exists
    /\ Goto(s, "aggregate")
    /\ UNCHANGED <<cache, look, todo, made, sha, disk, rows, files, exists, readers, odd, kills>>

(* C0 passes on as many verified checks as there are items; it counts, it does not match.  *)
Aggregate(s) ==
    /\ pc[s] = "aggregate"
    /\ LET checked == {n \in DOMAIN obs[s] : obs[s][n].out # Error}
       IN C0' = [C0 EXCEPT ![s] =
             IF Cardinality(checked) = 2 * N /\ \A n \in checked : obs[s][n].out \in Sound
             THEN "passed" ELSE "unresolved"]
    /\ Goto(s, "complete")
    /\ UNCHANGED <<cache, look, todo, made, sha, obs, torn, failures, audit, touched, entry,
                   odd, kills>>

(* The session is killed or its stage fails; the locks go with the process.  A kill during  *)
(* an append leaves part of a line.                                                        *)
Kill(s) ==
    /\ kills < MaxKills /\ kills' = kills + 1
    /\ pc[s] \notin {"off", "complete"}
    /\ \E part \in BOOLEAN :
          /\ part => Ready(s) \/ (pc[s] = "replay" /\ look[s] # {})
          /\ torn' = [torn EXCEPT ![s] = @ \/ part]
    /\ Goto(s, "off")
    /\ cache' = [cache EXCEPT ![s] = FALSE]
    /\ look' = [look EXCEPT ![s] = {}] /\ todo' = [todo EXCEPT ![s] = {}]
    /\ made' = [made EXCEPT ![s] = Nothing] /\ sha' = [sha EXCEPT ![s] = None]
    /\ readers' = readers \ {s}
    /\ UNCHANGED <<obs, failures, audit, C0, touched, rows, files, exists, invalid, odd>>

-----------------------------------------------------------------------------
Step(s) ==
    \/ Begin(s) \/ Replay(s) \/ Planned(s)
    \/ \E i \in Items : Compile(s, i)
    \/ RecordFailure(s) \/ Commit(s)
    \/ StoreLock(s) \/ Copy(s) \/ Hash(s) \/ Write(s)
    \/ Observed(s) \/ Audit(s) \/ Invalidate(s) \/ Aggregate(s)

Next == \E s \in Sessions : Step(s) \/ Kill(s)

Spec == Init /\ [][Next]_vars

-----------------------------------------------------------------------------
(* A completed quality stage has exactly one observation of every seed of both revisions,   *)
(* whatever was replayed, and wherever it was killed and resumed; so C0, which only counts  *)
(* checks, passes only when every seed of both was checked.                                *)
ObservedOnce ==
    \A s \in Sessions : pc[s] = "complete" =>
        /\ \A i \in Items : Cardinality({n \in DOMAIN obs[s] : obs[s][n].item = i}) = 1
        /\ C0[s] = "passed" => \A n \in DOMAIN obs[s] : obs[s][n].out \in Sound

(* An observation of a failed seed, which a resumed stage does not redo, has its failure    *)
(* evidence: a kill between the two never leaves the failure uncounted.                    *)
FailureIsRecorded ==
    \A s \in Sessions : \A n \in DOMAIN obs[s] :
        obs[s][n].out = Error => obs[s][n].item \in failures[s]

(* A session that ends with a failed audit leaves no entry behind that it took from or      *)
(* added to and that a later session would reuse.                                          *)
FlaggedIsInvalid ==
    \A s \in Sessions :
        pc[s] = "complete" /\ audit[s] = "unresolved" /\ touched[s] => invalid

(* Nothing of an invalidated entry changes any more: no session that checked it before puts *)
(* a row or a file into it afterwards, and none makes it valid again.                      *)
InvalidStays == [][invalid => invalid' /\ UNCHANGED <<rows, files>>]_vars
=============================================================================
