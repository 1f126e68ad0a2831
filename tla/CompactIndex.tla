---------------------------- MODULE CompactIndex ----------------------------
(***************************************************************************)
(* The compact index of one drive (DriveCompactIndex) and the surgical      *)
(* patch that keeps it live (apply_usn_patch), as operators on a body       *)
(*                                                                         *)
(*   recs   the record columns: name, parent slot, directory bit, path_len  *)
(*   map    frs_to_compact: file record number -> slot                      *)
(*   base   the names and parents the base indexes were last built from     *)
(*   delta  the overlay on the base indexes (some = FALSE for None)         *)
(*   stuck  the subtree walk of the last patch never ends                   *)
(*                                                                         *)
(* A slot is a position of recs, counted from 1; Nil stands for u32::MAX.   *)
(* A name is a value with a length, an extension and a set of trigrams; a   *)
(* needle of a search is a set of trigrams.                                 *)
(***************************************************************************)
EXTENDS Naturals, Sequences, FiniteSets, SequencesExt

CONSTANTS
  Frs,               \* file record numbers (the root directory's aside)
  Root,              \* FRS 5, the root directory
  Names,             \* file names
  Dot,               \* the root directory's own name
  NoName,            \* name_len = 0
  CharsOf,           \* name -> its characters
  ExtOf,             \* name -> its extension
  TrigramsOf,        \* name -> its trigrams
  CompactThreshold,  \* TRIGRAM_COMPACT_THRESHOLD
  FullPathThreshold, \* FULL_PATH_RECOMPUTE_THRESHOLD
  FreqFloor          \* the least frequency cap of the trigram build

ASSUME IndexNames == NoName \notin Names \cup {Dot} /\ Dot \notin Names
ASSUME IndexRoot == Root \notin Frs /\ IsFiniteSet(Frs)
ASSUME IndexTables == /\ CharsOf \in [Names \cup {Dot} -> Nat]
                      /\ DOMAIN ExtOf = Names \cup {Dot}
                      /\ DOMAIN TrigramsOf = Names \cup {Dot}
ASSUME IndexBounds == CompactThreshold \in Nat /\ FullPathThreshold \in Nat /\ FreqFloor \in Nat

Nil == 0
Trigrams == UNION {TrigramsOf[n] : n \in Names}
Exts == {ExtOf[n] : n \in Names}
NoDelta == [some |-> FALSE, trigram |-> {}, ext |-> {}, children |-> {}, tombstones |-> {},
            touched |-> 0]

Live(recs, i) == recs[i].name # NoName

-----------------------------------------------------------------------------
(* The base indexes: what TrigramIndex, ExtensionIndex and ChildrenIndex    *)
(* hold when built from the records in base.                                *)

AllPostings(base, t) == {i \in DOMAIN base : Live(base, i) /\ t \in TrigramsOf[base[i].name]}

\* A trigram in more than a quarter of the records gets no posting list.
FreqCap(base) == IF Len(base) \div 4 > FreqFloor THEN Len(base) \div 4 ELSE FreqFloor
Pruned(base, t) == Cardinality(AllPostings(base, t)) > FreqCap(base)

GetPosting(base, t) == IF Pruned(base, t) THEN {} ELSE AllPostings(base, t)
BaseExt(base, e) == {i \in DOMAIN base : Live(base, i) /\ ExtOf[base[i].name] = e}
BaseChildren(base, p) == {i \in DOMAIN base : base[i].parent = p}

-----------------------------------------------------------------------------
(* Searches: the choke points every query goes through.                     *)

\* Mutant: every tombstoned record is dropped, the renamed ones too.
TrigramSearchDropsRenamed(b, needle) ==
  LET added(t) == {i \in DOMAIN b.recs : <<t, i>> \in b.delta.trigram}
      lists == {GetPosting(b.base, t) \cup added(t) : t \in needle} \ {{}}
  IN {i \in UNION lists : (\A l \in lists : i \in l) /\ i \notin b.delta.tombstones}

TrigramSearch(b, needle) ==
  LET added(t) == {i \in DOMAIN b.recs : <<t, i>> \in b.delta.trigram}
      lists == {GetPosting(b.base, t) \cup added(t) : t \in needle} \ {{}}
      hits == {i \in UNION lists : \A l \in lists : i \in l}
  IN {i \in hits : i \in b.delta.tombstones => \A t \in needle : i \in added(t)}

\* Mutant: base and overlay are merged without a look at the records.
ForEachChildUnchecked(b, p) ==
  BaseChildren(b.base, p) \cup {i \in DOMAIN b.recs : <<p, i>> \in b.delta.children}

ForEachChild(b, p) ==
  IF ~b.delta.some THEN BaseChildren(b.base, p)
  ELSE {c \in BaseChildren(b.base, p) \cup {i \in DOMAIN b.recs : <<p, i>> \in b.delta.children} :
          b.recs[c].parent = p /\ Live(b.recs, c)}

RecordsWithExt(b, e) ==
  IF ~b.delta.some THEN BaseExt(b.base, e)
  ELSE {i \in BaseExt(b.base, e) \cup {j \in DOMAIN b.recs : <<e, j>> \in b.delta.ext} :
          Live(b.recs, i) /\ ExtOf[b.recs[i].name] = e}

-----------------------------------------------------------------------------
(* path_len                                                                 *)

DrivePrefix == 2
NameChars(r) == IF r.name = NoName THEN 0 ELSE CharsOf[r.name]

\* The breadth-first pass over all records, with no more levels than records; a record no
\* root leads to keeps its value.
ComputePathLengths(recs) ==
  LET level(above, r) ==
        [i \in DOMAIN recs |->
           CASE recs[i].parent = Nil -> DrivePrefix + 1 + NameChars(recs[i])
             [] recs[i].parent # Nil /\ above[recs[i].parent] # 0 ->
                  above[recs[i].parent] + 1 + NameChars(recs[i])
             [] OTHER -> 0]
      reached == FoldLeft(level, [i \in DOMAIN recs |-> 0], recs)
  IN [i \in DOMAIN recs |->
        [recs[i] EXCEPT !.len = IF reached[i] = 0 THEN @ ELSE reached[i]]]

PathLenFromParent(recs, i) ==
  IF recs[i].parent = Nil THEN DrivePrefix + 1 + NameChars(recs[i])
  ELSE recs[recs[i].parent].len + 1 + NameChars(recs[i])

Descendants(b, i) ==
  LET down[n \in 0..Len(b.recs)] ==
        IF n = 0 THEN ForEachChild(b, i)
        ELSE LET last == down[n - 1] IN last \cup UNION {ForEachChild(b, k) : k \in last}
  IN down[Len(b.recs)]

\* Shifts every descendant of i.  The walk keeps no record of what it has seen: it never
\* ends when i is below itself.
ShiftSubtree(b, i, old) ==
  LET below == Descendants(b, i)
      new == b.recs[i].len
      shifted(l) == IF l + new >= old THEN (l + new) - old ELSE 0
  IN IF i \in below THEN [b EXCEPT !.stuck = TRUE]
     ELSE [b EXCEPT !.recs = [k \in DOMAIN @ |->
             IF k \in below THEN [b.recs[k] EXCEPT !.len = shifted(@)] ELSE b.recs[k]]]

UpdatePathLengthsIncremental(b, changed) ==
  LET refresh(c, ch) ==
        LET old == c.recs[ch.idx].len
            new == [c EXCEPT !.recs[ch.idx].len = PathLenFromParent(c.recs, ch.idx)]
        IN IF c.stuck \/ (~Live(c.recs, ch.idx) /\ c.recs[ch.idx].parent = Nil) THEN c
           ELSE IF ch.subtree /\ new.recs[ch.idx].len # old THEN ShiftSubtree(new, ch.idx, old)
           ELSE new
  IN FoldLeft(refresh, b, changed)

-----------------------------------------------------------------------------
(* The overlay                                                              *)

Entry(r) == [name |-> r.name, parent |-> r.parent]

CompactBase(b) == [b EXCEPT !.base = [i \in DOMAIN b.recs |-> Entry(b.recs[i])],
                            !.delta = NoDelta]
FoldDeltaForSave(b) == IF b.delta.some THEN CompactBase(b) ELSE b

AddRecord(d, i, r) ==
  [d EXCEPT !.trigram = @ \cup {<<t, i>> : t \in TrigramsOf[r.name]},
            !.ext = @ \cup {<<ExtOf[r.name], i>>},
            !.children = IF r.parent = Nil THEN @ ELSE @ \cup {<<r.parent, i>>},
            !.touched = @ + 1]

Tombstone(d, i) ==
  IF i \in d.tombstones THEN d
  ELSE [d EXCEPT !.tombstones = @ \cup {i}, !.touched = @ + 1]

ApplyIndexDelta(b, adds, tombs) ==
  LET masked == FoldLeft(Tombstone, [b.delta EXCEPT !.some = TRUE], tombs)
      add(d, ch) == IF Live(b.recs, ch.idx) THEN AddRecord(d, ch.idx, b.recs[ch.idx]) ELSE d
  IN IF b.delta.touched + Len(adds) + Len(tombs) > CompactThreshold THEN CompactBase(b)
     ELSE [b EXCEPT !.delta = FoldLeft(add, masked, adds)]

\* Mutant: the path lengths are updated before the overlay.
RebuildDerivedPathsFirst(b, adds, tombs) ==
  ApplyIndexDelta(UpdatePathLengthsIncremental(b, adds), adds, tombs)

\* The overlay first: the subtree walk of the path update reads it.
RebuildDerived(b, adds, tombs) ==
  LET overlaid == ApplyIndexDelta(b, adds, tombs)
  IN IF Len(adds) > FullPathThreshold
     THEN [overlaid EXCEPT !.recs = ComputePathLengths(@)]
     ELSE UpdatePathLengthsIncremental(overlaid, adds)

-----------------------------------------------------------------------------
(* apply_usn_patch: a change is [frs, parent, name, kind, meta]; kind is     *)
(* the net flag of aggregate_changes ("create", "delete", "rename", "both"   *)
(* for a create that was renamed, "other") and meta what the targeted read   *)
(* found ("none", "file" or "dir").                                          *)

Created(ch) == ch.kind \in {"create", "both"}
Renamed(ch) == ch.kind \in {"rename", "both"}

\* Mutant: the batch in the order it comes.
OrderParentFirstAsIs(changes) == changes

\* A create or rename waits for the create of its parent in the same batch; the
\* released ones follow, pass by pass (as many as changes are enough), and what stays
\* unresolved comes last.
OrderParentFirst(changes) ==
  LET creates == {changes[k].frs : k \in {j \in DOMAIN changes : Created(changes[j])}}
      emit(acc, ch) == [acc EXCEPT !.out = Append(@, ch),
                                   !.done = IF Created(ch) THEN @ \cup {ch.frs} ELSE @]
      hold(acc, ch) == [acc EXCEPT !.deferred = Append(@, ch)]
      first(acc, ch) ==
        IF /\ Created(ch) \/ Renamed(ch)
           /\ ch.parent # ch.frs
           /\ ch.parent \in creates
           /\ ch.parent \notin acc.done
        THEN hold(acc, ch) ELSE emit(acc, ch)
      release(acc, ch) == IF ch.parent \in acc.done THEN emit(acc, ch) ELSE hold(acc, ch)
      pass(acc, ch) == FoldLeft(release, [acc EXCEPT !.deferred = <<>>], acc.deferred)
      none == [out |-> <<>>, deferred |-> <<>>, done |-> {}]
      settled == FoldLeft(pass, FoldLeft(first, none, changes), changes)
  IN settled.out \o settled.deferred

ApplyDelete(w, ch) ==
  LET i == w.map[ch.frs]
  IN IF i = Nil THEN w
     ELSE [w EXCEPT !.recs[i].name = NoName, !.recs[i].parent = Nil,
                    !.map[ch.frs] = Nil, !.tombs = Append(@, i)]

StageCreate(w, ch) ==
  [name |-> ch.name, parent |-> w.map[ch.parent], dir |-> ch.meta = "dir", len |-> 0]

\* Mutant: the record number is mapped to the length after the push.
ApplyCreateMapsPast(w, ch) ==
  LET new == Len(w.recs) + 1
  IN [w EXCEPT !.recs = Append(@, StageCreate(w, ch)), !.map[ch.frs] = new + 1,
               !.adds = Append(@, [idx |-> new, subtree |-> FALSE])]

ApplyCreate(w, ch) ==
  LET i == w.map[ch.frs]
      new == Len(w.recs) + 1
  IN IF i = Nil
     THEN [w EXCEPT !.recs = Append(@, StageCreate(w, ch)), !.map[ch.frs] = new,
                    !.adds = Append(@, [idx |-> new, subtree |-> FALSE])]
     ELSE [w EXCEPT !.recs[i] = StageCreate(w, ch), !.tombs = Append(@, i),
                    !.adds = Append(@, [idx |-> i, subtree |-> FALSE])]

\* Mutant: a move to the root directory keeps the old parent.
ApplyRenameIgnoresRoot(w, ch) ==
  LET i == w.map[ch.frs]
      parent == IF ch.parent = Root THEN w.recs[i].parent ELSE w.map[ch.parent]
  IN IF i = Nil THEN w
     ELSE [w EXCEPT !.recs[i] = [@ EXCEPT !.name = ch.name, !.parent = parent],
                    !.tombs = Append(@, i),
                    !.adds = Append(@, [idx |-> i, subtree |-> w.recs[i].dir])]

ApplyRename(w, ch) ==
  LET i == w.map[ch.frs]
      dir == IF ch.meta = "none" THEN w.recs[i].dir ELSE ch.meta = "dir"
  IN IF i = Nil THEN w
     ELSE [w EXCEPT !.recs[i] = [name |-> ch.name, parent |-> w.map[ch.parent], dir |-> dir,
                                 len |-> w.recs[i].len],
                    !.tombs = Append(@, i),
                    !.adds = Append(@, [idx |-> i, subtree |-> dir])]

ApplyChange(w, ch) ==
  CASE ch.kind = "delete" -> ApplyDelete(w, ch)
    [] Created(ch)        -> ApplyCreate(w, ch)
    [] ch.kind = "rename" -> ApplyRename(w, ch)
    [] OTHER              -> w

ApplyUsnPatch(b, changes) ==
  LET w == FoldLeft(ApplyChange, [recs |-> b.recs, map |-> b.map, adds |-> <<>>, tombs |-> <<>>],
                    OrderParentFirst(changes))
  IN RebuildDerived([b EXCEPT !.recs = w.recs, !.map = w.map], w.adds, w.tombs)

-----------------------------------------------------------------------------
(* The cold build.  disk maps each file record number to what the volume     *)
(* holds there: [name, parent, dir], with NoName for a free record.          *)

BuildCompactIndex(disk) ==
  LET present == SetToSeq({f \in Frs : disk[f].name # NoName})
      slot(f) == IF f = Root \/ f \notin ToSet(present) THEN Nil
                 ELSE 1 + CHOOSE k \in DOMAIN present : present[k] = f
      rec(f) == [name |-> disk[f].name, parent |-> slot(disk[f].parent), dir |-> disk[f].dir,
                 len |-> 0]
      root == [name |-> Dot, parent |-> Nil, dir |-> TRUE, len |-> 0]
      recs == ComputePathLengths(<<root>> \o [k \in DOMAIN present |-> rec(present[k])])
  IN [recs |-> recs,
      map |-> [f \in Frs \cup {Root} |-> IF f = Root THEN 1 ELSE slot(f)],
      base |-> [i \in DOMAIN recs |-> Entry(recs[i])],
      delta |-> NoDelta,
      stuck |-> FALSE]

=============================================================================
