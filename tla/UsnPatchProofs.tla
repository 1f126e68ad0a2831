--------------------------- MODULE UsnPatchProofs ---------------------------
(***************************************************************************)
(* Proofs about UsnPatch, for every volume, set of names and threshold: the *)
(* body is well formed and searches through base and overlay are exact.     *)
(***************************************************************************)
EXTENDS UsnPatch, SequenceTheorems, FiniteSetTheorems, TLAPS

\* First-order steps; a step with arithmetic or with records and updates names SMT.
USE Zenon

\* What the columns, the overlay, the body, the journal and the buffer hold.
AllNames == Names \cup {Dot, NoName}
AllTrigrams == UNION {TrigramsOf[n] : n \in Names \cup {Dot}}
AllExts == {ExtOf[n] : n \in Names \cup {Dot}}
Recs == [name : AllNames, parent : Nat, dir : BOOLEAN, len : Nat]
Entries == [name : AllNames, parent : Nat]
TrigramLists == SUBSET (AllTrigrams \X Nat)
ExtLists == SUBSET (AllExts \X Nat)
ChildLists == SUBSET (Nat \X Nat)
Deltas == [some : BOOLEAN, trigram : TrigramLists, ext : ExtLists, children : ChildLists,
           tombstones : SUBSET Nat, touched : Nat]
Bodies == [recs : Seq(Recs), map : [Frs \cup {Root} -> Nat], base : Seq(Entries),
           delta : Deltas, stuck : BOOLEAN]
Adds == [idx : Nat, subtree : BOOLEAN]

\* Parents are slots, and a dead record has none.
Tidy(recs) ==
  /\ recs \in Seq(Recs)
  /\ \A i \in 1..Len(recs) : recs[i].parent \in 0..Len(recs)
  /\ \A i \in 1..Len(recs) : ~Live(recs, i) => recs[i].parent = Nil

\* q is r but for the path lengths.
Relens(r, q) ==
  /\ q \in Seq(Recs)
  /\ Len(q) = Len(r)
  /\ \A i \in 1..Len(r) : q[i].name = r[i].name /\ q[i].parent = r[i].parent /\ q[i].dir = r[i].dir

-----------------------------------------------------------------------------
(* Sequences                                                                *)

\* A function on 1..n is a sequence of length n.
LEMMA FunctionIsSeq ==
  ASSUME NEW S, NEW n \in Nat, NEW f \in [1..n -> S]
  PROVE  f \in Seq(S) /\ Len(f) = n
<1>1. f \in Seq(S)
  BY SeqDef, Zenon
<1> QED
  BY SMT, <1>1

\* A non-empty set of naturals has a least element.
LEMMA Least ==
  ASSUME NEW T \in SUBSET Nat, T # {}
  PROVE  \E m \in T : \A k \in T : ~(k < m)
<1> DEFINE R == OpToRel(<, Nat)
<1>1. IsWellFoundedOn(R, Nat)
  BY NatLessThanWellFounded
<1>2. \A i, k \in Nat : i < k => <<i, k>> \in R
  BY DEF OpToRel
<1> HIDE DEF R
<1>3. PICK m \in T : \A k \in T : ~(<<k, m>> \in R)
  BY <1>1, WFMin
<1> QED
  BY <1>2, <1>3

\* The induction that FoldFacts asks for.
LEMMA Induct ==
  \A n \in Nat : \A P : (0 \in P /\ \A k \in 1..n : k - 1 \in P => k \in P) => 0..n \subseteq P
<1> SUFFICES ASSUME NEW n \in Nat, NEW P, 0 \in P, \A k \in 1..n : k - 1 \in P => k \in P
             PROVE  0..n \subseteq P
  OBVIOUS
<1> DEFINE T == (0..n) \ P
<1> SUFFICES ASSUME T # {} PROVE FALSE
  OBVIOUS
<1>1. PICK m \in T : \A k \in T : ~(k < m)
  <2>1. T \subseteq Nat
    BY SMT
  <2> HIDE DEF T
  <2> QED
    BY <2>1, Least
<1>2. m \in 1..n
  BY SMT, <1>1
<1>3. m - 1 \in 0..n /\ m - 1 < m
  BY SMT, <1>2
<1>4. m - 1 \in P
  BY <1>1, <1>3
<1> QED
  BY <1>1, <1>2, <1>4

\* A finite set listed in some order is a sequence of its members.
LEMMA ListedSet ==
  ASSUME NEW S, IsFiniteSet(S)
  PROVE  /\ SetToSeq(S) \in Seq(S)
         /\ \A s \in SetToSeqs(S) : s \in Seq(S)
<1> DEFINE n == Cardinality(S)
<1>1. n \in Nat /\ ExistsBijection(1..n, S)
  BY FS_CardinalityType
<1> HIDE DEF n
<1>2. \E f \in [1..n -> S] : IsInjective(f)
  BY <1>1, Zenon DEF ExistsBijection, Bijection, Injection
<1>3. SetToSeq(S) \in [1..n -> S]
  BY <1>2, Zenon DEF SetToSeq, n
<1>4. \A s \in SetToSeqs(S) : s \in [1..n -> S]
  BY Zenon DEF SetToSeqs, n
<1> QED
  BY <1>1, <1>3, <1>4, FunctionIsSeq

-----------------------------------------------------------------------------
(* path_len                                                                 *)

\* One level of compute_path_lengths.
LevelStep(recs, above, r) ==
  [i \in DOMAIN recs |->
     CASE recs[i].parent = Nil -> DrivePrefix + 1 + NameChars(recs[i])
       [] recs[i].parent # Nil /\ above[recs[i].parent] # 0 ->
            above[recs[i].parent] + 1 + NameChars(recs[i])
       [] OTHER -> 0]
LevelInv(recs, k, x) == x \in [1..Len(recs) -> Nat]
Levels == INSTANCE FoldFacts WITH Op <- LevelStep, Inv <- LevelInv

\* A record's name has a length.
LEMMA NameCharsNat == \A r \in Recs : NameChars(r) \in Nat
BY IndexTables, IndexNames DEF NameChars, Recs, AllNames

\* compute_path_lengths changes nothing but path_len.
LEMMA ComputeRelens ==
  ASSUME NEW recs, Tidy(recs)
  PROVE  Relens(recs, ComputePathLengths(recs))
<1> DEFINE n == Len(recs)
           zero == [i \in DOMAIN recs |-> 0]
           reached == Levels!Fold(recs, zero, recs)
<1>1. n \in Nat /\ DOMAIN recs = 1..n /\ recs \in Seq(Recs) /\ \A i \in 1..n : recs[i] \in Recs
  BY SMT DEF Tidy
<1>2. LevelInv(recs, 0, zero)
  BY <1>1 DEF LevelInv
<1>3. ASSUME NEW k \in 1..n, NEW x, LevelInv(recs, k - 1, x)
      PROVE  LevelInv(recs, k, LevelStep(recs, x, recs[k]))
  <2>1. \A i \in 1..n : NameChars(recs[i]) \in Nat
    BY <1>1, NameCharsNat
  <2>2. \A i \in 1..n : recs[i].parent # Nil => x[recs[i].parent] \in Nat
    BY SMT, <1>3 DEF LevelInv, Tidy, Nil
  <2> QED
    BY SMT, <1>1, <2>1, <2>2 DEF LevelInv, LevelStep, DrivePrefix
<1>4. reached \in [1..n -> Nat]
  <2>1. LevelInv(recs, n, reached)
    BY <1>1, <1>2, <1>3, Induct, Levels!FoldKeeps DEF Levels!UpTo
  <2> QED
    BY <2>1 DEF LevelInv
<1>5. ComputePathLengths(recs) =
        [i \in DOMAIN recs |-> [recs[i] EXCEPT !.len = IF reached[i] = 0 THEN @ ELSE reached[i]]]
  BY DEF ComputePathLengths, FoldLeft, MapThenFoldSet, Max, Levels!Fold, Levels!FoldStep,
         Levels!Top, LevelStep
<1> HIDE DEF reached, n
<1> DEFINE q == [i \in 1..n |-> [recs[i] EXCEPT !.len = IF reached[i] = 0 THEN @ ELSE reached[i]]]
<1>6. q \in [1..n -> Recs]
  BY <1>1, <1>4 DEF Recs
<1>7. \A i \in 1..n : q[i].name = recs[i].name /\ q[i].parent = recs[i].parent /\ q[i].dir = recs[i].dir
  BY <1>1 DEF Recs
<1>8. ComputePathLengths(recs) = q
  BY <1>1, <1>5
<1> HIDE DEF q
<1> QED
  BY <1>1, <1>6, <1>7, <1>8, FunctionIsSeq DEF Relens, n

\* The new length of one record, and the shift of what is below it.
RefreshStep(k, c, ch) ==
  LET old == c.recs[ch.idx].len
      new == [c EXCEPT !.recs[ch.idx].len = PathLenFromParent(c.recs, ch.idx)]
  IN IF c.stuck \/ (~Live(c.recs, ch.idx) /\ c.recs[ch.idx].parent = Nil) THEN c
     ELSE IF ch.subtree /\ new.recs[ch.idx].len # old THEN ShiftSubtree(new, ch.idx, old)
     ELSE new

\* x is the body b but for the path lengths.
Relensed(b, x) ==
  /\ x \in Bodies
  /\ x.map = b.map /\ x.base = b.base /\ x.delta = b.delta
  /\ Relens(b.recs, x.recs)
RefreshInv(b, k, x) == Relensed(b, x)
Refreshes == INSTANCE FoldFacts WITH Op <- RefreshStep, Inv <- RefreshInv

\* Relens composes, and keeps the records tidy.
LEMMA RelensTrans ==
  ASSUME NEW r, NEW q, NEW p, Relens(r, q), Relens(q, p)
  PROVE  Relens(r, p)
BY DEF Relens

\* New path lengths leave the records tidy.
LEMMA RelensTidy ==
  ASSUME NEW r, NEW q, Tidy(r), Relens(r, q)
  PROVE  Tidy(q)
BY DEF Relens, Tidy, Live

\* A new length for one record.
LEMMA SetLen ==
  ASSUME NEW b, b \in Bodies, NEW i \in 1..Len(b.recs), NEW l \in Nat
  PROVE  Relensed(b, [b EXCEPT !.recs[i].len = l])
<1> DEFINE n == Len(b.recs)
           q == [b.recs EXCEPT ![i].len = l]
<1>1. b.recs \in Seq(Recs) /\ n \in Nat /\ DOMAIN b.recs = 1..n
  BY SMT DEF Bodies
<1>2. [b EXCEPT !.recs[i].len = l] = [b EXCEPT !.recs = q]
  OBVIOUS
<1>3. b.recs[i] \in Recs
  BY SMT, <1>1
<1>4. [b.recs[i] EXCEPT !.len = l] \in Recs
  BY <1>3 DEF Recs
<1>5. q \in Seq(Recs) /\ Len(q) = n
  BY SMT, <1>1, <1>4, ExceptSeq
<1>6. \A k \in 1..n : q[k].name = b.recs[k].name /\ q[k].parent = b.recs[k].parent /\ q[k].dir = b.recs[k].dir
  BY <1>1, <1>3 DEF Recs
<1> HIDE DEF q
<1> QED
  BY <1>2, <1>5, <1>6 DEF Relensed, Relens, Bodies

\* shift_subtree_path_len changes nothing but path_len, and whether the walk ends.
LEMMA ShiftRelens ==
  ASSUME NEW b, b \in Bodies, NEW i \in 1..Len(b.recs), NEW old \in Nat
  PROVE  Relensed(b, ShiftSubtree(b, i, old))
<1> DEFINE n == Len(b.recs)
           below == Descendants(b, i)
           new == b.recs[i].len
           shifted(l) == IF l + new >= old THEN (l + new) - old ELSE 0
           q == [k \in 1..n |-> IF k \in below THEN [b.recs[k] EXCEPT !.len = shifted(@)] ELSE b.recs[k]]
<1>1. b.recs \in Seq(Recs) /\ n \in Nat /\ DOMAIN b.recs = 1..n /\ \A k \in 1..n : b.recs[k] \in Recs
  BY SMT DEF Bodies
<1>2. CASE i \in below
  <2>1. ShiftSubtree(b, i, old) = [b EXCEPT !.stuck = TRUE]
    BY <1>2 DEF ShiftSubtree
  <2> QED
    BY <1>1, <2>1 DEF Relensed, Relens, Bodies
<1>3. CASE i \notin below
  <2>1. ShiftSubtree(b, i, old) = [b EXCEPT !.recs = q]
    <3>1. ShiftSubtree(b, i, old) =
            [b EXCEPT !.recs = [k \in DOMAIN b.recs |->
               IF k \in below THEN [b.recs[k] EXCEPT !.len = shifted(@)] ELSE b.recs[k]]]
      BY <1>3, Zenon DEF ShiftSubtree
    <3> QED
      BY <1>1, <3>1, Zenon
  <2> HIDE DEF below, n
  <2>2. new \in Nat /\ \A k \in 1..n : b.recs[k].len \in Nat
    BY <1>1 DEF Recs, n
  <2>3. \A l \in Nat : shifted(l) \in Nat
    BY SMT, <2>2
  <2> HIDE DEF shifted, new
  <2>4. \A k \in 1..n : [b.recs[k] EXCEPT !.len = shifted(@)] \in Recs
    BY <1>1, <2>2, <2>3 DEF Recs
  <2>5. q \in [1..n -> Recs]
    BY <1>1, <2>4
  <2>6. \A k \in 1..n : q[k].name = b.recs[k].name /\ q[k].parent = b.recs[k].parent /\ q[k].dir = b.recs[k].dir
    BY <1>1 DEF Recs
  <2> HIDE DEF q
  <2>7. q \in Seq(Recs) /\ Len(q) = n
    BY <1>1, <2>5, FunctionIsSeq
  <2> QED
    BY <2>1, <2>6, <2>7 DEF Relensed, Relens, Bodies, n
<1> QED
  BY <1>2, <1>3

\* update_path_lengths_incremental changes nothing but path_len, and whether the walk ends.
LEMMA UpdateRelens ==
  ASSUME NEW b, b \in Bodies, Tidy(b.recs), NEW adds \in Seq(Adds),
         \A k \in 1..Len(adds) : adds[k].idx \in 1..Len(b.recs)
  PROVE  Relensed(b, UpdatePathLengthsIncremental(b, adds))
<1>1. RefreshInv(b, 0, b)
  BY DEF RefreshInv, Relensed, Relens, Tidy
<1>2. ASSUME NEW k \in 1..Len(adds), NEW x, RefreshInv(b, k - 1, x)
      PROVE  RefreshInv(b, k, RefreshStep(b, x, adds[k]))
  <2> DEFINE i == adds[k].idx
             new == [x EXCEPT !.recs[i].len = PathLenFromParent(x.recs, i)]
  <2>1. x \in Bodies /\ Relens(b.recs, x.recs) /\ Tidy(x.recs)
    BY <1>2, RelensTidy DEF RefreshInv, Relensed
  <2>2. i \in 1..Len(x.recs)
    BY <2>1 DEF Relens
  <2>3. x.recs[i] \in Recs /\ x.recs[i].len \in Nat
    <3>1. x.recs[i] \in Recs
      <4> HIDE DEF i
      <4> QED
        BY SMT, <2>1, <2>2 DEF Tidy
    <3> QED
      BY <3>1 DEF Recs
  <2>4. PathLenFromParent(x.recs, i) \in Nat
    <3>1. NameChars(x.recs[i]) \in Nat
      BY <2>3, NameCharsNat
    <3>2. x.recs[i].parent # Nil => x.recs[x.recs[i].parent] \in Recs
      BY SMT, <2>1, <2>2 DEF Tidy, Nil
    <3>3. x.recs[i].parent # Nil => x.recs[x.recs[i].parent].len \in Nat
      BY <3>2 DEF Recs
    <3> HIDE DEF i
    <3>4. CASE x.recs[i].parent = Nil
      BY SMT, <3>1, <3>4 DEF PathLenFromParent, DrivePrefix
    <3>5. CASE x.recs[i].parent # Nil
      BY SMT, <3>1, <3>3, <3>5 DEF PathLenFromParent
    <3> QED
      BY <3>4, <3>5
  <2>5. Relensed(x, new)
    <3> HIDE DEF i
    <3> QED
      BY <2>1, <2>2, <2>4, SetLen
  <2>6. \A old \in Nat : Relensed(new, ShiftSubtree(new, i, old))
    <3>1. new \in Bodies /\ Len(new.recs) = Len(x.recs)
      BY <2>5 DEF Relensed, Relens
    <3> HIDE DEF i, new
    <3> QED
      BY <2>2, <3>1, ShiftRelens
  <2>7. \/ RefreshStep(b, x, adds[k]) = x
        \/ RefreshStep(b, x, adds[k]) = new
        \/ RefreshStep(b, x, adds[k]) = ShiftSubtree(new, i, x.recs[i].len)
    BY DEF RefreshStep
  <2> HIDE DEF i, new
  <2>8. \A y : Relensed(x, y) => Relensed(b, y)
    BY <1>2, RelensTrans DEF RefreshInv, Relensed
  <2>9. \A y : Relensed(new, y) => Relensed(x, y)
    BY <2>5, RelensTrans DEF Relensed
  <2> QED
    BY <1>2, <2>3, <2>5, <2>6, <2>7, <2>8, <2>9 DEF RefreshInv
<1>3. RefreshInv(b, Len(adds), Refreshes!Fold(b, b, adds))
  BY <1>1, <1>2, Induct, Refreshes!FoldKeeps DEF Refreshes!UpTo
<1>4. UpdatePathLengthsIncremental(b, adds) = Refreshes!Fold(b, b, adds)
  BY DEF UpdatePathLengthsIncremental, FoldLeft, MapThenFoldSet, Max, Refreshes!Fold,
         Refreshes!FoldStep, Refreshes!Top, RefreshStep
<1> QED
  BY <1>3, <1>4 DEF RefreshInv

-----------------------------------------------------------------------------
(* The overlay                                                              *)

\* The overlay d lists slot i under everything record r is looked up by.
Indexed(d, i, r) ==
  /\ \A t \in TrigramsOf[r.name] : <<t, i>> \in d.trigram
  /\ <<ExtOf[r.name], i>> \in d.ext
  /\ r.parent # Nil => <<r.parent, i>> \in d.children

\* A search finds slot i through the base, which still describes it, or through the overlay.
Covered(b, i) ==
  \/ i \in 1..Len(b.base) /\ i \notin b.delta.tombstones /\ b.base[i] = Entry(b.recs[i])
  \/ Indexed(b.delta, i, b.recs[i])

\* The indexes of body b name slots only, and find every live one.
Framed(b) ==
  /\ b \in Bodies
  /\ Tidy(b.recs)
  /\ b.map \in [Frs \cup {Root} -> 0..Len(b.recs)]
  /\ Len(b.base) <= Len(b.recs)
  /\ b.delta.tombstones \subseteq 1..Len(b.recs)
Fresh(b) ==
  /\ Len(b.base) = Len(b.recs)
  /\ \A i \in 1..Len(b.recs) : b.base[i] = Entry(b.recs[i])
BodyOK(b) ==
  /\ Framed(b)
  /\ \A i \in 1..Len(b.recs) : Live(b.recs, i) => Covered(b, i)
  /\ ~b.delta.some => Fresh(b)

\* The overlay e has every posting that d has.
Grown(d, e) ==
  /\ e \in Deltas
  /\ d.trigram \subseteq e.trigram /\ d.ext \subseteq e.ext /\ d.children \subseteq e.children

TombStep(c, d, i) == Tombstone(d, i)
TombInv(c, k, x) ==
  /\ Grown(c.d, x)
  /\ x.some
  /\ \A i \in x.tombstones : i \in c.d.tombstones \/ \E j \in 1..Len(c.tombs) : c.tombs[j] = i
Tombs == INSTANCE FoldFacts WITH Op <- TombStep, Inv <- TombInv

AddStep(c, d, ch) == IF Live(c.recs, ch.idx) THEN AddRecord(d, ch.idx, c.recs[ch.idx]) ELSE d
AddInv(c, k, x) ==
  /\ Grown(c.d, x)
  /\ x.some
  /\ x.tombstones = c.d.tombstones
  /\ \A j \in 1..k : LET i == c.adds[j].idx IN Live(c.recs, i) => Indexed(x, i, c.recs[i])
Adding == INSTANCE FoldFacts WITH Op <- AddStep, Inv <- AddInv

\* add_record lists the record, and drops nothing.
LEMMA AddRecordIndexes ==
  ASSUME NEW d \in Deltas, NEW i \in Nat, NEW r \in Recs, r.name # NoName
  PROVE  /\ Grown(d, AddRecord(d, i, r))
         /\ AddRecord(d, i, r).some = d.some
         /\ AddRecord(d, i, r).tombstones = d.tombstones
         /\ Indexed(AddRecord(d, i, r), i, r)
<1> DEFINE tri == {<<t, i>> : t \in TrigramsOf[r.name]}
           kids == IF r.parent = Nil THEN d.children ELSE d.children \cup {<<r.parent, i>>}
           ext == d.ext \cup {<<ExtOf[r.name], i>>}
           e == AddRecord(d, i, r)
<1>1. e = [d EXCEPT !.trigram = @ \cup tri, !.ext = ext, !.children = kids, !.touched = @ + 1]
  BY DEF AddRecord
<1>2. r.name \in Names \cup {Dot} /\ r.parent \in Nat
  BY DEF Recs, AllNames
<1>3. d.trigram \cup tri \in TrigramLists
  <2>1. tri \subseteq AllTrigrams \X Nat
    BY SMT, <1>2 DEF AllTrigrams
  <2> QED
    BY <2>1 DEF Deltas, TrigramLists
<1>4. ext \in ExtLists
  BY SMT, <1>2 DEF AllExts, Deltas, ExtLists
<1>5. kids \in ChildLists
  BY SMT, <1>2 DEF Deltas, ChildLists
<1>6. \A t \in TrigramsOf[r.name] : <<t, i>> \in tri
  OBVIOUS
<1>7. <<ExtOf[r.name], i>> \in ext /\ d.ext \subseteq ext
  OBVIOUS
<1>8. (r.parent # Nil => <<r.parent, i>> \in kids) /\ d.children \subseteq kids
  OBVIOUS
<1> HIDE DEF tri, kids, ext, e
<1>9. /\ e \in Deltas
      /\ e.trigram = d.trigram \cup tri /\ e.ext = ext /\ e.children = kids
      /\ e.some = d.some /\ e.tombstones = d.tombstones
  <2>1. e = [some |-> d.some, trigram |-> d.trigram \cup tri, ext |-> ext, children |-> kids,
             tombstones |-> d.tombstones, touched |-> d.touched + 1]
    BY <1>1 DEF Deltas
  <2> QED
    BY SMT, <1>3, <1>4, <1>5, <2>1 DEF Deltas
<1>10. Grown(d, e) /\ e.some = d.some /\ e.tombstones = d.tombstones /\ Indexed(e, i, r)
  BY <1>6, <1>7, <1>8, <1>9 DEF Grown, Indexed
<1> QED
  BY <1>10 DEF e

\* What is listed stays listed in an overlay that grew.
LEMMA GrownIndexed ==
  ASSUME NEW d, NEW e, Grown(d, e), NEW i, NEW r, Indexed(d, i, r)
  PROVE  Indexed(e, i, r)
BY DEF Grown, Indexed

\* Postings gained in two turns are gained.
LEMMA GrownTrans ==
  ASSUME NEW d, NEW e, NEW f, Grown(d, e), Grown(e, f)
  PROVE  Grown(d, f)
BY DEF Grown

\* tombstone hides the slot, and drops nothing.
LEMMA TombstoneMasks ==
  ASSUME NEW d \in Deltas, NEW i \in Nat
  PROVE  /\ Grown(d, Tombstone(d, i))
         /\ Tombstone(d, i).some = d.some
         /\ Tombstone(d, i).tombstones = d.tombstones \cup {i}
<1>1. CASE i \in d.tombstones
  <2>1. Tombstone(d, i) = d
    BY <1>1 DEF Tombstone
  <2> QED
    BY <1>1, <2>1 DEF Grown
<1>2. CASE i \notin d.tombstones
  <2> DEFINE y == Tombstone(d, i)
  <2>1. y = [d EXCEPT !.tombstones = @ \cup {i}, !.touched = @ + 1]
    BY <1>2 DEF Tombstone
  <2> HIDE DEF y
  <2>2. y = [some |-> d.some, trigram |-> d.trigram, ext |-> d.ext, children |-> d.children,
             tombstones |-> d.tombstones \cup {i}, touched |-> d.touched + 1]
    BY <2>1 DEF Deltas
  <2>3. y \in Deltas
    BY SMT, <2>2 DEF Deltas
  <2>4. Grown(d, y) /\ y.some = d.some /\ y.tombstones = d.tombstones \cup {i}
    BY <2>2, <2>3 DEF Grown
  <2> QED
    BY <2>4 DEF y
<1> QED
  BY <1>1, <1>2

\* The deltas after the tombstones of a batch.
LEMMA Masked ==
  ASSUME NEW d \in Deltas, NEW tombs \in Seq(Nat)
  PROVE  LET x == FoldLeft(Tombstone, [d EXCEPT !.some = TRUE], tombs)
         IN TombInv([d |-> d, tombs |-> tombs], Len(tombs), x)
<1> DEFINE c == [d |-> d, tombs |-> tombs]
           first == [d EXCEPT !.some = TRUE]
<1>1. c.d = d /\ c.tombs = tombs
  OBVIOUS
<1>2. TombInv(c, 0, first)
  BY DEF TombInv, Grown, Deltas
<1>3. FoldLeft(Tombstone, first, tombs) = Tombs!Fold(c, first, tombs)
  BY DEF FoldLeft, MapThenFoldSet, Max, Tombs!Fold, Tombs!FoldStep, Tombs!Top, TombStep
<1> HIDE DEF c
<1>4. ASSUME NEW k \in 1..Len(tombs), NEW x, TombInv(c, k - 1, x)
      PROVE  TombInv(c, k, TombStep(c, x, tombs[k]))
  <2> DEFINE i == tombs[k]
             y == Tombstone(x, i)
  <2>1. i \in Nat
    BY SMT
  <2>2. x \in Deltas
    BY <1>4 DEF TombInv, Grown
  <2>3. Grown(x, y) /\ y.some = x.some /\ y.tombstones = x.tombstones \cup {i}
    BY <2>1, <2>2, TombstoneMasks
  <2>4. TombStep(c, x, i) = y
    BY DEF TombStep
  <2> HIDE DEF y
  <2>5. Grown(c.d, y)
    BY <1>4, <2>3, GrownTrans DEF TombInv
  <2>6. TombInv(c, k, y)
    BY <1>1, <1>4, <2>3, <2>5 DEF TombInv
  <2> QED
    BY <2>4, <2>6
<1> HIDE DEF first
<1>5. TombInv(c, Len(tombs), Tombs!Fold(c, first, tombs))
  BY <1>2, <1>4, Induct, Tombs!FoldKeeps DEF Tombs!UpTo
<1> QED
  BY <1>3, <1>5 DEF c, first

\* The deltas after the records of a batch are listed.
LEMMA Added ==
  ASSUME NEW b \in Bodies, NEW d \in Deltas, d.some, NEW adds \in Seq(Adds),
         \A k \in 1..Len(adds) : adds[k].idx \in 1..Len(b.recs)
  PROVE  LET add(x, ch) == IF Live(b.recs, ch.idx) THEN AddRecord(x, ch.idx, b.recs[ch.idx]) ELSE x
         IN AddInv([d |-> d, adds |-> adds, recs |-> b.recs], Len(adds), FoldLeft(add, d, adds))
<1> DEFINE add(x, ch) == IF Live(b.recs, ch.idx) THEN AddRecord(x, ch.idx, b.recs[ch.idx]) ELSE x
           c == [d |-> d, adds |-> adds, recs |-> b.recs]
<1>1. c.d = d /\ c.adds = adds /\ c.recs = b.recs
  OBVIOUS
<1>2. FoldLeft(add, d, adds) = Adding!Fold(c, d, adds)
  BY SMT DEF FoldLeft, MapThenFoldSet, Max, Adding!Fold, Adding!FoldStep, Adding!Top, AddStep
<1> HIDE DEF c
<1>3. AddInv(c, 0, d)
  BY SMT, <1>1 DEF AddInv, Grown
<1>4. ASSUME NEW k \in 1..Len(adds), NEW x, AddInv(c, k - 1, x)
      PROVE  AddInv(c, k, AddStep(c, x, adds[k]))
  <2> DEFINE i == adds[k].idx
             y == AddRecord(x, i, b.recs[i])
  <2>1. i \in 1..Len(b.recs) /\ i \in Nat
    BY SMT DEF Bodies
  <2>2. b.recs[i] \in Recs
    <3> HIDE DEF i
    <3> QED
      BY SMT, <2>1 DEF Bodies
  <2>3. x \in Deltas /\ Grown(d, x) /\ x.some /\ x.tombstones = d.tombstones
    BY <1>1, <1>4 DEF AddInv, Grown
  <2>4. \A j \in 1..(k - 1) : Live(b.recs, adds[j].idx) => Indexed(x, adds[j].idx, b.recs[adds[j].idx])
    BY <1>1, <1>4 DEF AddInv
  <2>5. \A j \in 1..k : j \in 1..(k - 1) \/ j = k
    BY SMT
  <2>6. CASE ~Live(b.recs, i)
    <3>1. AddStep(c, x, adds[k]) = x
      BY <1>1, <2>6 DEF AddStep
    <3> QED
      BY <1>1, <2>3, <2>4, <2>5, <2>6, <3>1 DEF AddInv
  <2>7. CASE Live(b.recs, i)
    <3>1. AddStep(c, x, adds[k]) = y
      BY <1>1, <2>7 DEF AddStep
    <3>2. Grown(x, y) /\ y.some /\ y.tombstones = d.tombstones /\ Indexed(y, i, b.recs[i])
      <4>1. b.recs[i].name # NoName
        BY <2>7 DEF Live
      <4> HIDE DEF i
      <4> QED
        BY <2>1, <2>2, <2>3, <4>1, AddRecordIndexes
    <3> HIDE DEF y
    <3>3. \A j \in 1..(k - 1) : Live(b.recs, adds[j].idx) => Indexed(y, adds[j].idx, b.recs[adds[j].idx])
      BY <2>4, <3>2, GrownIndexed
    <3>4. Grown(d, y)
      BY <2>3, <3>2, GrownTrans
    <3> QED
      BY <1>1, <2>5, <3>1, <3>2, <3>3, <3>4 DEF AddInv
  <2> QED
    BY <2>6, <2>7
<1>5. AddInv(c, Len(adds), Adding!Fold(c, d, adds))
  BY <1>3, <1>4, Induct, Adding!FoldKeeps DEF Adding!UpTo
<1> QED
  BY <1>2, <1>5 DEF c

\* compact_base: the base describes every record and the overlay is gone.
LEMMA CompactOK ==
  ASSUME NEW b, Framed(b)
  PROVE  BodyOK(CompactBase(b)) /\ CompactBase(b).recs = b.recs
<1> DEFINE n == Len(b.recs)
           base == [i \in 1..n |-> Entry(b.recs[i])]
           x == CompactBase(b)
<1>1. b \in Bodies /\ b.recs \in Seq(Recs) /\ n \in Nat /\ DOMAIN b.recs = 1..n
  BY SMT DEF Framed, Bodies
<1>2. \A i \in 1..n : Entry(b.recs[i]) \in Entries
  <2>1. \A r \in Recs : Entry(r) \in Entries
    BY DEF Entry, Entries, Recs
  <2> QED
    BY SMT, <1>1, <2>1
<1>3. base \in [1..n -> Entries]
  BY <1>2
<1>4. NoDelta \in Deltas /\ ~NoDelta.some /\ NoDelta.tombstones = {}
  BY DEF NoDelta, Deltas, TrigramLists, ExtLists, ChildLists
<1>5. x = [b EXCEPT !.base = base, !.delta = NoDelta]
  BY <1>1, Zenon DEF CompactBase
<1>6. \A i \in 1..n : base[i] = Entry(b.recs[i])
  OBVIOUS
<1> HIDE DEF base, n
<1>7. base \in Seq(Entries) /\ Len(base) = n
  BY <1>1, <1>3, FunctionIsSeq
<1> HIDE DEF x
<1>8. x.recs = b.recs /\ x.map = b.map /\ x.base = base /\ x.delta = NoDelta /\ x.stuck = b.stuck
  BY <1>1, <1>5 DEF Bodies
<1>9. x \in Bodies
  <2>1. x = [recs |-> b.recs, map |-> b.map, base |-> base, delta |-> NoDelta, stuck |-> b.stuck]
    BY <1>1, <1>5 DEF Bodies
  <2> QED
    BY <1>1, <1>4, <1>7, <2>1 DEF Bodies
<1>10. Framed(x)
  BY SMT, <1>1, <1>4, <1>7, <1>8, <1>9 DEF Framed, n
<1>11. Fresh(x)
  BY <1>6, <1>7, <1>8 DEF Fresh, n
<1>12. \A i \in 1..n : Covered(x, i)
  BY <1>4, <1>6, <1>7, <1>8 DEF Covered
<1>13. BodyOK(x) /\ x.recs = b.recs
  BY <1>8, <1>10, <1>11, <1>12 DEF BodyOK, n
<1> QED
  BY <1>13 DEF x

\* apply_index_delta: a live record that the batch has not added is found as before.
LEMMA DeltaOK ==
  ASSUME NEW b, Framed(b), NEW adds \in Seq(Adds), NEW tombs \in Seq(Nat),
         \A k \in 1..Len(adds) : adds[k].idx \in 1..Len(b.recs),
         \A k \in 1..Len(tombs) : tombs[k] \in 1..Len(b.recs),
         \A i \in 1..Len(b.recs) : Live(b.recs, i) =>
           \/ \E k \in 1..Len(adds) : adds[k].idx = i
           \/ Covered(b, i) /\ \A k \in 1..Len(tombs) : tombs[k] # i
  PROVE  BodyOK(ApplyIndexDelta(b, adds, tombs)) /\ ApplyIndexDelta(b, adds, tombs).recs = b.recs
<1> DEFINE add(d, ch) == IF Live(b.recs, ch.idx) THEN AddRecord(d, ch.idx, b.recs[ch.idx]) ELSE d
           masked == FoldLeft(Tombstone, [b.delta EXCEPT !.some = TRUE], tombs)
           full == FoldLeft(add, masked, adds)
           x == [b EXCEPT !.delta = full]
<1>1. b \in Bodies /\ b.delta \in Deltas
  BY DEF Framed, Bodies
<1>2. \/ ApplyIndexDelta(b, adds, tombs) = CompactBase(b)
      \/ ApplyIndexDelta(b, adds, tombs) = x
  BY DEF ApplyIndexDelta
<1>3. /\ Grown(b.delta, masked)
      /\ masked.some
      /\ \A i \in masked.tombstones : i \in b.delta.tombstones \/ \E j \in 1..Len(tombs) : tombs[j] = i
  <2> DEFINE c == [d |-> b.delta, tombs |-> tombs]
  <2>1. TombInv(c, Len(tombs), masked)
    BY <1>1, Masked
  <2>2. c.d = b.delta /\ c.tombs = tombs
    OBVIOUS
  <2> HIDE DEF c, masked
  <2> QED
    BY <2>1, <2>2 DEF TombInv
<1>4. masked \in Deltas
  BY <1>3 DEF Grown
<1>5. /\ Grown(masked, full)
      /\ full.some
      /\ full.tombstones = masked.tombstones
      /\ \A j \in 1..Len(adds) : Live(b.recs, adds[j].idx) => Indexed(full, adds[j].idx, b.recs[adds[j].idx])
  <2> DEFINE c == [d |-> masked, adds |-> adds, recs |-> b.recs]
  <2> HIDE DEF masked
  <2>1. AddInv(c, Len(adds), full)
    BY <1>1, <1>3, <1>4, Added
  <2>2. c.d = masked /\ c.adds = adds /\ c.recs = b.recs
    OBVIOUS
  <2> HIDE DEF c, full
  <2> QED
    BY <2>1, <2>2 DEF AddInv
<1> HIDE DEF masked, full
<1>6. full \in Deltas
  BY <1>5 DEF Grown
<1>7. /\ x \in Bodies /\ x.delta = full
      /\ x.recs = b.recs /\ x.map = b.map /\ x.base = b.base
  BY <1>1, <1>6 DEF Bodies
<1> HIDE DEF x
<1>8. Framed(x)
  <2>1. \A i \in full.tombstones : i \in 1..Len(b.recs)
    BY SMT, <1>3, <1>5 DEF Framed
  <2> QED
    BY <1>7, <2>1 DEF Framed
<1>9. ASSUME NEW i \in 1..Len(b.recs), Live(b.recs, i) PROVE Covered(x, i)
  <2>1. CASE \E k \in 1..Len(adds) : adds[k].idx = i
    BY <1>5, <1>7, <1>9, <2>1 DEF Covered
  <2>2. CASE Covered(b, i) /\ \A k \in 1..Len(tombs) : tombs[k] # i
    <3>1. CASE Indexed(b.delta, i, b.recs[i])
      BY SMT, <1>3, <1>5, <1>7, <3>1, GrownIndexed DEF Covered
    <3>2. CASE i \in 1..Len(b.base) /\ i \notin b.delta.tombstones /\ b.base[i] = Entry(b.recs[i])
      BY <1>3, <1>5, <1>7, <2>2, <3>2 DEF Covered
    <3> QED
      BY <2>2, <3>1, <3>2 DEF Covered
  <2> QED
    BY <1>9, <2>1, <2>2
<1>10. BodyOK(x) /\ x.recs = b.recs
  BY <1>5, <1>7, <1>8, <1>9 DEF BodyOK
<1> QED
  BY <1>2, <1>10, CompactOK

\* New path lengths change nothing a search looks at.
LEMMA RelensOK ==
  ASSUME NEW b, BodyOK(b), NEW x, Relensed(b, x)
  PROVE  BodyOK(x)
<1> DEFINE n == Len(b.recs)
<1>1. x \in Bodies /\ x.map = b.map /\ x.base = b.base /\ x.delta = b.delta /\ Len(x.recs) = n
  BY DEF Relensed, Relens
<1>2. Framed(x)
  <2>1. Tidy(x.recs)
    BY RelensTidy DEF BodyOK, Framed, Relensed
  <2> QED
    BY <1>1, <2>1 DEF BodyOK, Framed
<1>3. \A i \in 1..n : x.recs[i].name = b.recs[i].name /\ x.recs[i].parent = b.recs[i].parent
  BY DEF Relensed, Relens
<1>4. \A i \in 1..n : Entry(x.recs[i]) = Entry(b.recs[i])
  BY <1>3 DEF Entry
<1>5. \A i \in 1..n : Covered(b, i) => Covered(x, i)
  BY <1>1, <1>3, <1>4 DEF Covered, Indexed
<1>6. \A i \in 1..n : Live(x.recs, i) => Live(b.recs, i)
  BY <1>3 DEF Live
<1> QED
  BY <1>1, <1>2, <1>4, <1>5, <1>6 DEF BodyOK, Fresh

\* rebuild_derived leaves a body whose searches are exact.
LEMMA RebuildOK ==
  ASSUME NEW b, Framed(b), NEW adds \in Seq(Adds), NEW tombs \in Seq(Nat),
         \A k \in 1..Len(adds) : adds[k].idx \in 1..Len(b.recs),
         \A k \in 1..Len(tombs) : tombs[k] \in 1..Len(b.recs),
         \A i \in 1..Len(b.recs) : Live(b.recs, i) =>
           \/ \E k \in 1..Len(adds) : adds[k].idx = i
           \/ Covered(b, i) /\ \A k \in 1..Len(tombs) : tombs[k] # i
  PROVE  BodyOK(RebuildDerived(b, adds, tombs))
<1> DEFINE o == ApplyIndexDelta(b, adds, tombs)
           x == RebuildDerived(b, adds, tombs)
<1>1. BodyOK(o) /\ o.recs = b.recs
  BY DeltaOK
<1>2. \/ x = [o EXCEPT !.recs = ComputePathLengths(o.recs)]
      \/ x = UpdatePathLengthsIncremental(o, adds)
  BY DEF RebuildDerived
<1> HIDE DEF o, x
<1>3. o \in Bodies /\ Tidy(o.recs)
  BY <1>1 DEF BodyOK, Framed
<1>4. Relensed(o, x)
  <2>1. CASE x = [o EXCEPT !.recs = ComputePathLengths(o.recs)]
    <3>1. Relens(o.recs, ComputePathLengths(o.recs))
      BY <1>3, ComputeRelens
    <3> QED
      BY <1>3, <2>1, <3>1 DEF Relensed, Relens, Bodies
  <2>2. CASE x = UpdatePathLengthsIncremental(o, adds)
    BY <1>1, <1>3, <2>2, UpdateRelens
  <2> QED
    BY <1>2, <2>1, <2>2
<1> QED
  BY <1>1, <1>4, RelensOK DEF x

-----------------------------------------------------------------------------
(* The order of a batch                                                     *)

Kinds == {"create", "delete", "rename", "both", "other"}
Changes == {ch \in [frs : Frs, parent : Frs \cup {Root}, name : Names \cup {NoName}, kind : Kinds,
                    meta : {"none", "file", "dir"}] : ch.kind # "other" => ch.name \in Names}
Batches == Seq(Changes)
Orders == [out : Batches, deferred : Batches, done : SUBSET Frs]

Emit(acc, ch) == [acc EXCEPT !.out = Append(@, ch),
                             !.done = IF Created(ch) THEN @ \cup {ch.frs} ELSE @]
Hold(acc, ch) == [acc EXCEPT !.deferred = Append(@, ch)]
FirstStep(creates, acc, ch) ==
  IF /\ Created(ch) \/ Renamed(ch)
     /\ ch.parent # ch.frs
     /\ ch.parent \in creates
     /\ ch.parent \notin acc.done
  THEN Hold(acc, ch) ELSE Emit(acc, ch)
ReleaseStep(c, acc, ch) == IF ch.parent \in acc.done THEN Emit(acc, ch) ELSE Hold(acc, ch)
PassStep(c, acc, ch) ==
  LET release(a, d) == ReleaseStep(c, a, d)
  IN FoldLeft(release, [acc EXCEPT !.deferred = <<>>], acc.deferred)
OrderInv(c, k, acc) == acc \in Orders
Firsts == INSTANCE FoldFacts WITH Op <- FirstStep, Inv <- OrderInv
Releases == INSTANCE FoldFacts WITH Op <- ReleaseStep, Inv <- OrderInv
Passes == INSTANCE FoldFacts WITH Op <- PassStep, Inv <- OrderInv

\* A change is emitted or held, whole.
LEMMA EmitHold ==
  ASSUME NEW acc \in Orders, NEW ch \in Changes
  PROVE  Emit(acc, ch) \in Orders /\ Hold(acc, ch) \in Orders
<1>1. acc.out \in Batches /\ acc.deferred \in Batches /\ acc.done \in SUBSET Frs
  BY DEF Orders
<1>2. Append(acc.out, ch) \in Batches /\ Append(acc.deferred, ch) \in Batches
  BY SMT, <1>1 DEF Batches
<1>3. ch.frs \in Frs
  BY DEF Changes
<1>4. Hold(acc, ch) = [out |-> acc.out, deferred |-> Append(acc.deferred, ch), done |-> acc.done]
  BY SMT DEF Hold, Orders
<1> DEFINE done == IF Created(ch) THEN acc.done \cup {ch.frs} ELSE acc.done
<1>5. Emit(acc, ch) = [acc EXCEPT !.out = Append(@, ch), !.done = done]
  BY Zenon DEF Emit
<1>6. done \in SUBSET Frs
  BY <1>1, <1>3
<1> HIDE DEF done
<1>7. Emit(acc, ch) = [out |-> Append(acc.out, ch), deferred |-> acc.deferred, done |-> done]
  BY <1>5 DEF Orders
<1> QED
  BY SMT, <1>1, <1>2, <1>4, <1>6, <1>7 DEF Orders

\* order_parent_first hands on changes of the batch only.
LEMMA OrderedChanges ==
  ASSUME NEW changes \in Seq(Changes)
  PROVE  OrderParentFirst(changes) \in Seq(Changes)
<1> DEFINE creates == {changes[k].frs : k \in {j \in DOMAIN changes : Created(changes[j])}}
           none == [out |-> <<>>, deferred |-> <<>>, done |-> {}]
           once == Firsts!Fold(creates, none, changes)
           settled == Passes!Fold(creates, once, changes)
<1>1. OrderParentFirst(changes) = settled.out \o settled.deferred
  BY DEF OrderParentFirst, FoldLeft, MapThenFoldSet, Max, Firsts!Fold, Firsts!FoldStep, Firsts!Top,
         Passes!Fold, Passes!FoldStep, Passes!Top, FirstStep, PassStep, ReleaseStep, Emit, Hold
<1>2. none \in Orders
  BY SMT DEF Orders, Batches
<1>3. \A k \in 1..Len(changes) : changes[k] \in Changes
  BY SMT
<1> HIDE DEF creates, none
<1>4. once \in Orders
  <2>1. OrderInv(creates, 0, none)
    BY <1>2 DEF OrderInv
  <2>2. \A k \in 1..Len(changes) : \A x :
          OrderInv(creates, k - 1, x) => OrderInv(creates, k, FirstStep(creates, x, changes[k]))
    BY <1>3, EmitHold DEF OrderInv, FirstStep
  <2>3. OrderInv(creates, Len(changes), once)
    BY <2>1, <2>2, Induct, Firsts!FoldKeeps DEF Firsts!UpTo
  <2> QED
    BY <2>3 DEF OrderInv
<1> HIDE DEF once
<1>5. ASSUME NEW acc \in Orders, NEW ch PROVE PassStep(creates, acc, ch) \in Orders
  <2> DEFINE empty == [acc EXCEPT !.deferred = <<>>]
             last == acc.deferred
  <2>1. last \in Seq(Changes) /\ OrderInv(creates, 0, empty)
    <3>1. <<>> \in Batches
      BY SMT DEF Batches
    <3> QED
      BY <3>1 DEF Orders, OrderInv, Batches
  <2>2. PassStep(creates, acc, ch) = Releases!Fold(creates, empty, last)
    BY DEF PassStep, FoldLeft, MapThenFoldSet, Max, Releases!Fold, Releases!FoldStep, Releases!Top
  <2> HIDE DEF empty, last
  <2>3. \A k \in 1..Len(last) : \A x :
          OrderInv(creates, k - 1, x) => OrderInv(creates, k, ReleaseStep(creates, x, last[k]))
    <3>1. \A k \in 1..Len(last) : last[k] \in Changes
      BY SMT, <2>1
    <3> QED
      BY <3>1, EmitHold DEF OrderInv, ReleaseStep
  <2>4. OrderInv(creates, Len(last), Releases!Fold(creates, empty, last))
    BY <2>1, <2>3, Induct, Releases!FoldKeeps DEF Releases!UpTo
  <2> QED
    BY <2>2, <2>4 DEF OrderInv
<1>6. settled \in Orders
  <2>1. OrderInv(creates, 0, once)
    BY <1>4 DEF OrderInv
  <2>2. \A k \in 1..Len(changes) : \A x :
          OrderInv(creates, k - 1, x) => OrderInv(creates, k, PassStep(creates, x, changes[k]))
    BY <1>5 DEF OrderInv
  <2>3. OrderInv(creates, Len(changes), settled)
    BY <2>1, <2>2, Induct, Passes!FoldKeeps DEF Passes!UpTo
  <2> QED
    BY <2>3 DEF OrderInv
<1> HIDE DEF settled
<1>7. settled.out \in Seq(Changes) /\ settled.deferred \in Seq(Changes)
  BY <1>6 DEF Orders, Batches
<1> QED
  BY <1>1, <1>7, ConcatProperties

-----------------------------------------------------------------------------
(* The changes of a batch                                                   *)

\* After some changes of a batch on body b: a live record was added by the batch, or it is
\* as it was in b and the batch has not tombstoned it.
ChangeInv(b, k, w) ==
  /\ w = [recs |-> w.recs, map |-> w.map, adds |-> w.adds, tombs |-> w.tombs]
  /\ Tidy(w.recs)
  /\ w.map \in [Frs \cup {Root} -> 0..Len(w.recs)]
  /\ Len(b.recs) <= Len(w.recs)
  /\ w.adds \in Seq(Adds)
  /\ w.tombs \in Seq(Nat)
  /\ \A j \in 1..Len(w.adds) : w.adds[j].idx \in 1..Len(w.recs)
  /\ \A j \in 1..Len(w.tombs) : w.tombs[j] \in 1..Len(w.recs)
  /\ \A i \in 1..Len(w.recs) : Live(w.recs, i) =>
       \/ \E j \in 1..Len(w.adds) : w.adds[j].idx = i
       \/ /\ i \in 1..Len(b.recs)
          /\ w.recs[i].name = b.recs[i].name /\ w.recs[i].parent = b.recs[i].parent
          /\ \A j \in 1..Len(w.tombs) : w.tombs[j] # i
ChangeStep(b, w, ch) == ApplyChange(w, ch)
Applied == INSTANCE FoldFacts WITH Op <- ChangeStep, Inv <- ChangeInv

\* One slot gets a new record, dead or listed among the added ones; others stay.
LEMMA OneSlot ==
  ASSUME NEW b, NEW k, NEW w, ChangeInv(b, k, w), b.recs \in Seq(Recs),
         NEW q \in Seq(Recs), NEW m, NEW adds, NEW tombs, NEW i \in 1..Len(q), NEW subtree \in BOOLEAN,
         Len(w.recs) <= Len(q),
         \A j \in 1..Len(q) : j # i => j \in 1..Len(w.recs) /\ q[j] = w.recs[j],
         q[i].parent \in 0..Len(w.recs),
         m \in [Frs \cup {Root} -> 0..Len(q)],
         tombs \in {w.tombs, Append(w.tombs, i)},
         \/ adds = Append(w.adds, [idx |-> i, subtree |-> subtree]) /\ Live(q, i)
         \/ adds = w.adds /\ ~Live(q, i) /\ q[i].parent = Nil
  PROVE  ChangeInv(b, k + 1, [recs |-> q, map |-> m, adds |-> adds, tombs |-> tombs])
<1> DEFINE add == [idx |-> i, subtree |-> subtree]
           n == Len(w.recs)
           x == [recs |-> q, map |-> m, adds |-> adds, tombs |-> tombs]
<1>1. n \in Nat /\ Len(q) \in Nat /\ Len(b.recs) \in Nat /\ i \in Nat
  BY SMT DEF ChangeInv, Tidy
<1>2. add \in Adds /\ add.idx = i
  BY <1>1 DEF Adds
<1> HIDE DEF add
<1>3. /\ w.adds \in Seq(Adds) /\ w.tombs \in Seq(Nat) /\ n <= Len(q) /\ Len(b.recs) <= n
      /\ \A j \in 1..Len(w.adds) : w.adds[j].idx \in 1..n
      /\ \A j \in 1..Len(w.tombs) : w.tombs[j] \in 1..n
  BY DEF ChangeInv
<1>4. (\A j \in 1..n : j \in 1..Len(q)) /\ (\A p \in 0..n : p \in 0..Len(q))
  BY SMT, <1>1, <1>3
<1>5. /\ adds \in Seq(Adds)
      /\ \A j \in 1..Len(adds) : adds[j].idx \in 1..Len(q)
      /\ \A j \in 1..Len(w.adds) : j \in 1..Len(adds) /\ adds[j] = w.adds[j]
      /\ Live(q, i) => \E j \in 1..Len(adds) : adds[j].idx = i
  <2>1. CASE adds = w.adds /\ ~Live(q, i)
    BY <1>3, <1>4, <2>1
  <2>2. CASE adds = Append(w.adds, add)
    <3>1. /\ adds \in Seq(Adds) /\ Len(adds) = Len(w.adds) + 1 /\ Len(w.adds) \in Nat
          /\ adds[Len(adds)] = add
          /\ \A j \in 1..Len(w.adds) : adds[j] = w.adds[j]
      BY SMT, <1>2, <1>3, <2>2
    <3>2. \A j \in 1..Len(adds) : j \in 1..Len(w.adds) \/ j = Len(adds)
      BY SMT, <3>1
    <3>3. Len(adds) \in 1..Len(adds) /\ \A j \in 1..Len(w.adds) : j \in 1..Len(adds)
      BY SMT, <3>1
    <3> QED
      BY <1>2, <1>3, <1>4, <3>1, <3>2, <3>3, Zenon
  <2> QED
    BY <2>1, <2>2 DEF add
<1>6. /\ tombs \in Seq(Nat)
      /\ \A j \in 1..Len(tombs) : tombs[j] = i \/ \E l \in 1..Len(w.tombs) : tombs[j] = w.tombs[l]
  <2>1. CASE tombs = w.tombs
    BY <1>3, <2>1
  <2>2. CASE tombs = Append(w.tombs, i)
    <3>1. /\ tombs \in Seq(Nat) /\ Len(tombs) = Len(w.tombs) + 1 /\ Len(w.tombs) \in Nat
          /\ tombs[Len(tombs)] = i
          /\ \A j \in 1..Len(w.tombs) : tombs[j] = w.tombs[j]
      BY SMT, <1>1, <1>3, <2>2
    <3>2. \A j \in 1..Len(tombs) : j \in 1..Len(w.tombs) \/ j = Len(tombs)
      BY SMT, <3>1
    <3> QED
      BY <3>1, <3>2
  <2> QED
    BY <2>1, <2>2
<1>7. \A j \in 1..Len(tombs) : tombs[j] \in 1..Len(q)
  BY <1>3, <1>4, <1>6, Zenon
<1>8. Tidy(q)
  <2>1. \A j \in 1..n : w.recs[j].parent \in 0..n /\ (~Live(w.recs, j) => w.recs[j].parent = Nil)
    BY DEF ChangeInv, Tidy
  <2>2. \A j \in 1..Len(q) : q[j].parent \in 0..Len(q) /\ (~Live(q, j) => q[j].parent = Nil)
    <3>1. TAKE j \in 1..Len(q)
    <3>2. CASE j = i
      BY <1>4, <3>2
    <3>3. CASE j # i
      BY <1>4, <2>1, <3>3 DEF Live
    <3> QED
      BY <3>2, <3>3
  <2> QED
    BY <2>2 DEF Tidy
<1>9. ASSUME NEW j \in 1..Len(q), Live(q, j)
      PROVE  \/ \E l \in 1..Len(adds) : adds[l].idx = j
             \/ /\ j \in 1..Len(b.recs)
                /\ q[j].name = b.recs[j].name /\ q[j].parent = b.recs[j].parent
                /\ \A l \in 1..Len(tombs) : tombs[l] # j
  <2>1. CASE j = i
    BY <1>5, <1>9, <2>1
  <2>2. CASE j # i
    <3>1. j \in 1..n /\ q[j] = w.recs[j] /\ Live(w.recs, j)
      BY <1>9, <2>2 DEF Live
    <3>2. \/ \E l \in 1..Len(w.adds) : w.adds[l].idx = j
          \/ /\ j \in 1..Len(b.recs)
             /\ q[j].name = b.recs[j].name /\ q[j].parent = b.recs[j].parent
             /\ \A l \in 1..Len(w.tombs) : w.tombs[l] # j
      BY <3>1 DEF ChangeInv
    <3> QED
      BY <1>5, <1>6, <2>2, <3>2
  <2> QED
    BY <2>1, <2>2
<1>10. x.recs = q /\ x.map = m /\ x.adds = adds /\ x.tombs = tombs /\
      x = [recs |-> x.recs, map |-> x.map, adds |-> x.adds, tombs |-> x.tombs]
  OBVIOUS
<1>11. Len(b.recs) <= Len(q)
  BY SMT, <1>1, <1>3
<1> HIDE DEF x
<1>12. ChangeInv(b, k + 1, x)
  BY SMT, <1>5, <1>6, <1>7, <1>8, <1>9, <1>10, <1>11 DEF ChangeInv
<1> QED
  BY <1>12 DEF x

\* A slot of the record columns is overwritten.
LEMMA SetSlot ==
  ASSUME NEW b, NEW k, NEW w, ChangeInv(b, k, w), b.recs \in Seq(Recs),
         NEW i \in 1..Len(w.recs), NEW r \in Recs, NEW m, NEW adds, NEW subtree \in BOOLEAN,
         r.parent \in 0..Len(w.recs),
         m \in [Frs \cup {Root} -> 0..Len(w.recs)],
         \/ adds = Append(w.adds, [idx |-> i, subtree |-> subtree]) /\ r.name # NoName
         \/ adds = w.adds /\ r.name = NoName /\ r.parent = Nil
  PROVE  ChangeInv(b, k + 1, [recs |-> [w.recs EXCEPT ![i] = r], map |-> m, adds |-> adds,
                              tombs |-> Append(w.tombs, i)])
<1> DEFINE q == [w.recs EXCEPT ![i] = r]
           tombs == Append(w.tombs, i)
<1>1. w.recs \in Seq(Recs)
  BY DEF ChangeInv, Tidy
<1>2. q \in Seq(Recs) /\ Len(q) = Len(w.recs)
  BY SMT, <1>1, ExceptSeq
<1>3. q[i] = r /\ \A j \in 1..Len(w.recs) : j # i => q[j] = w.recs[j]
  BY SMT, <1>1
<1>4. Len(w.recs) \in Nat
  BY SMT, <1>1
<1>5. (Live(q, i) <=> r.name # NoName) /\ tombs \in {w.tombs, Append(w.tombs, i)}
  BY <1>3 DEF Live
<1> HIDE DEF q, tombs
<1>6. ChangeInv(b, k + 1, [recs |-> q, map |-> m, adds |-> adds, tombs |-> tombs])
  <2>1. Len(w.recs) <= Len(q) /\ i \in 1..Len(q)
    BY SMT, <1>2, <1>4
  <2> QED
    BY <1>2, <1>3, <1>5, <2>1, OneSlot
<1> QED
  BY <1>6 DEF q, tombs

\* apply_delete, apply_create and apply_rename keep what ChangeInv says.
LEMMA ChangeOK ==
  ASSUME NEW b, NEW k, NEW w, ChangeInv(b, k, w), b.recs \in Seq(Recs), NEW ch \in Changes
  PROVE  ChangeInv(b, k + 1, ChangeStep(b, w, ch))
<1> DEFINE n == Len(w.recs)
           i == w.map[ch.frs]
           up == w.map[ch.parent]
<1>1. w = [recs |-> w.recs, map |-> w.map, adds |-> w.adds, tombs |-> w.tombs]
  BY DEF ChangeInv
<1>2. w.recs \in Seq(Recs) /\ n \in Nat /\ w.map \in [Frs \cup {Root} -> 0..n]
  BY SMT DEF ChangeInv, Tidy
<1>3. ch.frs \in Frs /\ ch.parent \in Frs \cup {Root} /\ ch.kind \in Kinds
  BY DEF Changes
<1>4. i \in 0..n /\ up \in 0..n /\ up \in Nat
  BY SMT, <1>2, <1>3
<1>5. ch.kind # "other" => ch.name \in Names /\ ch.name \in AllNames /\ ch.name # NoName
  BY IndexNames DEF Changes, AllNames
<1>6. i # Nil => i \in 1..n /\ w.recs[i] \in Recs
  BY SMT, <1>2, <1>4 DEF Nil
<1>7. ChangeInv(b, k + 1, w)
  BY DEF ChangeInv
<1> HIDE DEF n, i, up
<1>8. CASE ch.kind = "delete"
  <2>1. ChangeStep(b, w, ch) = ApplyDelete(w, ch)
    BY <1>8 DEF ChangeStep, ApplyChange, Created
  <2>2. CASE i = Nil
    BY <1>7, <2>1, <2>2 DEF ApplyDelete, i
  <2>3. CASE i # Nil
    <3> DEFINE r == [w.recs[i] EXCEPT !.name = NoName, !.parent = Nil]
               m == [w.map EXCEPT ![ch.frs] = Nil]
    <3>1. r \in Recs /\ r.name = NoName /\ r.parent = Nil
      BY <1>6, <2>3 DEF Recs, AllNames, Nil
    <3>2. m \in [Frs \cup {Root} -> 0..n] /\ r.parent \in 0..n
      BY SMT, <1>2, <1>3, <3>1 DEF Nil
    <3>3. ApplyDelete(w, ch) = [recs |-> [w.recs EXCEPT ![i] = r], map |-> m, adds |-> w.adds,
                                tombs |-> Append(w.tombs, i)]
      <4>1. ApplyDelete(w, ch) = [w EXCEPT !.recs[i].name = NoName, !.recs[i].parent = Nil,
                                           !.map[ch.frs] = Nil, !.tombs = Append(@, i)]
        BY <2>3 DEF ApplyDelete, i
      <4>2. [[w.recs EXCEPT ![i].name = NoName] EXCEPT ![i].parent = Nil] = [w.recs EXCEPT ![i] = r]
        BY <1>2, <1>6, <2>3
      <4> QED
        BY <1>1, <4>1, <4>2
    <3> HIDE DEF r, m
    <3> QED
      BY <1>6, <2>1, <2>3, <3>1, <3>2, <3>3, SetSlot DEF n
  <2> QED
    BY <2>2, <2>3
<1> DEFINE staged == StageCreate(w, ch)
<1>9. ch.kind # "other" =>
        staged \in Recs /\ staged.name # NoName /\ staged.parent \in 0..n
  BY <1>4, <1>5 DEF StageCreate, Recs, up
<1> HIDE DEF staged
<1>10. CASE Created(ch)
  <2>1. ChangeStep(b, w, ch) = ApplyCreate(w, ch)
    BY <1>10 DEF ChangeStep, ApplyChange, Created
  <2>2. staged \in Recs /\ staged.name # NoName /\ staged.parent \in 0..n
    BY <1>9, <1>10 DEF Created
  <2>3. CASE i = Nil
    <3> DEFINE q == Append(w.recs, staged)
               m == [w.map EXCEPT ![ch.frs] = n + 1]
               adds == Append(w.adds, [idx |-> n + 1, subtree |-> FALSE])
    <3>1. ApplyCreate(w, ch) = [recs |-> q, map |-> m, adds |-> adds, tombs |-> w.tombs]
      <4>1. ApplyCreate(w, ch) = [w EXCEPT !.recs = q, !.map[ch.frs] = n + 1, !.adds = adds]
        BY <2>3 DEF ApplyCreate, i, n, staged
      <4> QED
        BY <1>1, <4>1
    <3>2. q \in Seq(Recs) /\ Len(q) = n + 1 /\ q[n + 1] = staged /\ \A j \in 1..n : q[j] = w.recs[j]
      BY SMT, <1>2, <2>2 DEF n
    <3>3. m \in [Frs \cup {Root} -> 0..(n + 1)]
      BY SMT, <1>2, <1>3
    <3> HIDE DEF q, m
    <3>4. \A j \in 1..Len(q) : j # n + 1 => j \in 1..n /\ q[j] = w.recs[j]
      BY SMT, <1>2, <3>2
    <3>5. n <= Len(q) /\ n + 1 \in 1..Len(q) /\ Live(q, n + 1) /\ q[n + 1].parent \in 0..n
      BY SMT, <1>2, <2>2, <3>2 DEF Live
    <3>6. ChangeInv(b, k + 1, [recs |-> q, map |-> m, adds |-> adds, tombs |-> w.tombs])
      BY <3>2, <3>3, <3>4, <3>5, OneSlot DEF n
    <3> QED
      BY <2>1, <3>1, <3>6
  <2>4. CASE i # Nil
    <3> DEFINE adds == Append(w.adds, [idx |-> i, subtree |-> FALSE])
    <3>1. ApplyCreate(w, ch) = [recs |-> [w.recs EXCEPT ![i] = staged], map |-> w.map, adds |-> adds,
                                tombs |-> Append(w.tombs, i)]
      <4>1. ApplyCreate(w, ch) = [w EXCEPT !.recs[i] = staged, !.tombs = Append(@, i), !.adds = adds]
        BY <2>4 DEF ApplyCreate, i, staged
      <4> QED
        BY <1>1, <4>1
    <3>2. ChangeInv(b, k + 1, [recs |-> [w.recs EXCEPT ![i] = staged], map |-> w.map, adds |-> adds,
                               tombs |-> Append(w.tombs, i)])
      BY <1>2, <1>6, <2>2, <2>4, SetSlot DEF n
    <3> QED
      BY <2>1, <3>1, <3>2
  <2> QED
    BY <2>3, <2>4
<1>11. CASE ch.kind = "rename"
  <2>1. ChangeStep(b, w, ch) = ApplyRename(w, ch)
    BY <1>11 DEF ChangeStep, ApplyChange, Created
  <2>2. CASE i = Nil
    BY <1>7, <2>1, <2>2 DEF ApplyRename, i
  <2>3. CASE i # Nil
    <3> DEFINE dir == IF ch.meta = "none" THEN w.recs[i].dir ELSE ch.meta = "dir"
               r == [name |-> ch.name, parent |-> up, dir |-> dir, len |-> w.recs[i].len]
               adds == Append(w.adds, [idx |-> i, subtree |-> dir])
    <3>1. dir \in BOOLEAN /\ w.recs[i].len \in Nat
      BY <1>6, <2>3 DEF Recs
    <3>2. ApplyRename(w, ch) = [w EXCEPT !.recs[i] = r, !.tombs = Append(@, i), !.adds = adds]
      BY <2>3 DEF ApplyRename, i, up
    <3> HIDE DEF dir
    <3>3. r \in Recs /\ r.name # NoName /\ r.parent \in 0..n
      BY <1>4, <1>5, <1>11, <3>1 DEF Recs
    <3> HIDE DEF r
    <3>4. ApplyRename(w, ch) = [recs |-> [w.recs EXCEPT ![i] = r], map |-> w.map, adds |-> adds,
                                tombs |-> Append(w.tombs, i)]
      BY <1>1, <3>2
    <3>5. ChangeInv(b, k + 1, [recs |-> [w.recs EXCEPT ![i] = r], map |-> w.map, adds |-> adds,
                               tombs |-> Append(w.tombs, i)])
      BY <1>2, <1>6, <2>3, <3>1, <3>3, SetSlot DEF n
    <3> QED
      BY <2>1, <3>4, <3>5
  <2> QED
    BY <2>2, <2>3
<1>12. CASE ch.kind = "other"
  BY <1>7, <1>12 DEF ChangeStep, ApplyChange, Created
<1> QED
  BY <1>3, <1>8, <1>10, <1>11, <1>12 DEF Kinds, Created

\* apply_usn_patch leaves a body whose searches are exact.
LEMMA PatchOK ==
  ASSUME NEW b, BodyOK(b), NEW changes \in Seq(Changes)
  PROVE  BodyOK(ApplyUsnPatch(b, changes))
<1> DEFINE start == [recs |-> b.recs, map |-> b.map, adds |-> <<>>, tombs |-> <<>>]
           order == OrderParentFirst(changes)
           w == Applied!Fold(b, start, order)
           x == [b EXCEPT !.recs = w.recs, !.map = w.map]
<1>1. ApplyUsnPatch(b, changes) = RebuildDerived(x, w.adds, w.tombs)
  BY DEF ApplyUsnPatch, FoldLeft, MapThenFoldSet, Max, Applied!Fold, Applied!FoldStep, Applied!Top,
         ChangeStep
<1>2. order \in Seq(Changes)
  BY OrderedChanges
<1>3. b \in Bodies /\ b.recs \in Seq(Recs) /\ Len(b.recs) \in Nat /\ Framed(b)
  BY SMT DEF BodyOK, Framed, Bodies
<1>4. ChangeInv(b, 0, start)
  <2>1. /\ start.recs = b.recs /\ start.map = b.map /\ start.adds = <<>> /\ start.tombs = <<>>
        /\ start = [recs |-> start.recs, map |-> start.map, adds |-> start.adds, tombs |-> start.tombs]
    OBVIOUS
  <2> HIDE DEF start
  <2>2. start.adds \in Seq(Adds) /\ start.tombs \in Seq(Nat) /\ Len(start.adds) = 0 /\ Len(start.tombs) = 0
    BY SMT, <2>1
  <2>3. \A j \in 1..0 : FALSE
    BY SMT
  <2> QED
    BY SMT, <1>3, <2>1, <2>2, <2>3 DEF ChangeInv, Framed
<1> HIDE DEF start, order
<1>5. ChangeInv(b, Len(order), w)
  <2>1. \A k \in 1..Len(order) : \A y : ChangeInv(b, k - 1, y) => ChangeInv(b, k, ChangeStep(b, y, order[k]))
    <3>1. \A k \in 1..Len(order) : order[k] \in Changes
      BY SMT, <1>2
    <3>2. \A k \in 1..Len(order) : (k - 1) + 1 = k
      BY SMT, <1>2
    <3> QED
      BY SMT, <1>3, <3>1, <3>2, ChangeOK
  <2> QED
    BY <1>2, <1>4, <2>1, Induct, Applied!FoldKeeps DEF Applied!UpTo
<1> HIDE DEF w
<1>6. w.recs \in Seq(Recs) /\ Len(w.recs) \in Nat /\ Len(b.recs) <= Len(w.recs)
  BY SMT, <1>5 DEF ChangeInv, Tidy
<1>7. w.map \in [Frs \cup {Root} -> Nat]
  BY SMT, <1>5, <1>6 DEF ChangeInv
<1>8. /\ x \in Bodies
      /\ x.recs = w.recs /\ x.map = w.map /\ x.base = b.base /\ x.delta = b.delta
  BY <1>3, <1>6, <1>7 DEF Bodies
<1> HIDE DEF x
<1>9. \A i \in 1..Len(b.recs) : i \in 1..Len(w.recs)
  BY SMT, <1>3, <1>6
<1>10. Framed(x)
  <2>1. b.delta.tombstones \subseteq 1..Len(w.recs)
    BY <1>3, <1>9 DEF Framed
  <2>2. Len(b.base) \in Nat /\ Len(b.base) <= Len(b.recs)
    BY SMT, <1>3 DEF Framed, Bodies
  <2>3. Len(b.base) <= Len(w.recs)
    BY SMT, <1>3, <1>6, <2>2
  <2> QED
    BY <1>5, <1>8, <2>1, <2>3 DEF Framed, ChangeInv
<1>11. ASSUME NEW i \in 1..Len(w.recs), Live(w.recs, i)
       PROVE  \/ \E k \in 1..Len(w.adds) : w.adds[k].idx = i
              \/ Covered(x, i) /\ \A k \in 1..Len(w.tombs) : w.tombs[k] # i
  <2> SUFFICES ASSUME /\ i \in 1..Len(b.recs)
                      /\ w.recs[i].name = b.recs[i].name /\ w.recs[i].parent = b.recs[i].parent
               PROVE  Covered(x, i)
    BY <1>5, <1>11 DEF ChangeInv
  <2>1. Covered(b, i)
    BY <1>11 DEF BodyOK, Live
  <2>2. Entry(x.recs[i]) = Entry(b.recs[i])
    BY <1>8 DEF Entry
  <2> QED
    BY <1>8, <2>1, <2>2 DEF Covered, Indexed
<1>12. BodyOK(RebuildDerived(x, w.adds, w.tombs))
  BY <1>5, <1>8, <1>10, <1>11, RebuildOK DEF ChangeInv
<1> QED
  BY <1>1, <1>12

\* fold_delta_for_save.
LEMMA SaveOK ==
  ASSUME NEW b, BodyOK(b)
  PROVE  BodyOK(FoldDeltaForSave(b))
BY CompactOK DEF FoldDeltaForSave, BodyOK

-----------------------------------------------------------------------------
(* The cold build                                                           *)

\* build_compact_index: the base is the records', and the map names slots.
LEMMA BuildOK ==
  ASSUME NEW files \in [Frs -> Files]
  PROVE  BodyOK(BuildCompactIndex(files))
<1> DEFINE P == {f \in Frs : files[f].name # NoName}
           present == SetToSeq(P)
           n == Len(present)
           slot(f) == IF f = Root \/ f \notin ToSet(present) THEN Nil
                      ELSE 1 + CHOOSE k \in DOMAIN present : present[k] = f
           rec(f) == [name |-> files[f].name, parent |-> slot(files[f].parent), dir |-> files[f].dir,
                      len |-> 0]
           root == [name |-> Dot, parent |-> Nil, dir |-> TRUE, len |-> 0]
           rest == [k \in DOMAIN present |-> rec(present[k])]
           first == <<root>> \o rest
           recs == ComputePathLengths(first)
           map == [f \in Frs \cup {Root} |-> IF f = Root THEN 1 ELSE slot(f)]
           base == [i \in DOMAIN recs |-> Entry(recs[i])]
           x == BuildCompactIndex(files)
<1>1. x = [recs |-> recs, map |-> map, base |-> base, delta |-> NoDelta, stuck |-> FALSE]
  BY Zenon DEF BuildCompactIndex
<1>2. present \in Seq(P)
  <2>1. IsFiniteSet(P)
    BY IndexRoot, FS_Subset
  <2> HIDE DEF P
  <2> QED
    BY <2>1, ListedSet
<1>3. n \in Nat /\ DOMAIN present = 1..n /\ \A k \in 1..n : present[k] \in P
  <2> HIDE DEF P, present
  <2> QED
    BY SMT, <1>2
<1> HIDE DEF present, n
<1>4. \A f : slot(f) \in 0..(n + 1)
  <2> SUFFICES ASSUME NEW f PROVE slot(f) \in 0..(n + 1)
    OBVIOUS
  <2>1. CASE f = Root \/ f \notin ToSet(present)
    BY SMT, <1>3, <2>1 DEF Nil
  <2>2. CASE f # Root /\ f \in ToSet(present)
    <3>1. \E k \in 1..n : present[k] = f
      BY <1>3, <2>2 DEF ToSet
    <3>2. (CHOOSE k \in 1..n : present[k] = f) \in 1..n
      BY <3>1
    <3>3. slot(f) = 1 + CHOOSE k \in 1..n : present[k] = f
      BY <1>3, <2>2
    <3> HIDE DEF slot
    <3> QED
      BY SMT, <1>3, <3>2, <3>3
  <2> QED
    BY <2>1, <2>2
<1> HIDE DEF slot
<1>5. \A f \in P : rec(f) \in Recs /\ rec(f).name # NoName /\ rec(f).parent \in 0..(n + 1)
  <2> SUFFICES ASSUME NEW f \in P PROVE rec(f) \in Recs /\ rec(f).name # NoName /\ rec(f).parent \in 0..(n + 1)
    OBVIOUS
  <2>1. files[f] \in Files /\ files[f].name # NoName
    OBVIOUS
  <2>2. slot(files[f].parent) \in 0..(n + 1) /\ slot(files[f].parent) \in Nat
    BY SMT, <1>3, <1>4
  <2> QED
    BY <2>1, <2>2 DEF Recs, AllNames, Files
<1> HIDE DEF rec, P
<1>6. rest \in Seq(Recs) /\ Len(rest) = n /\ \A k \in 1..n : rest[k] = rec(present[k])
  <2>1. rest \in [1..n -> Recs]
    BY <1>3, <1>5
  <2>2. \A k \in 1..n : rest[k] = rec(present[k])
    BY <1>3
  <2> HIDE DEF rest
  <2> QED
    BY <1>3, <2>1, <2>2, FunctionIsSeq
<1> HIDE DEF rest
<1>7. root \in Recs /\ root.name # NoName /\ root.parent = 0
  BY IndexNames DEF Recs, AllNames, Nil
<1> HIDE DEF root
<1>8. /\ first \in Seq(Recs) /\ Len(first) = n + 1
      /\ \A i \in 1..(n + 1) : first[i] = IF i = 1 THEN root ELSE rec(present[i - 1])
  BY SMT, <1>3, <1>6, <1>7
<1> HIDE DEF first
<1>9. \A i \in 1..(n + 1) : first[i].name # NoName /\ first[i].parent \in 0..(n + 1)
  <2> SUFFICES ASSUME NEW i \in 1..(n + 1) PROVE first[i].name # NoName /\ first[i].parent \in 0..(n + 1)
    OBVIOUS
  <2>1. CASE i = 1
    BY SMT, <1>3, <1>7, <1>8, <2>1
  <2>2. CASE i # 1
    <3>1. i - 1 \in 1..n
      BY SMT, <1>3, <2>2
    <3>2. first[i] = rec(present[i - 1])
      BY <1>8, <2>2
    <3> QED
      BY <1>3, <1>5, <3>1, <3>2
  <2> QED
    BY <2>1, <2>2
<1>10. Tidy(first)
  BY <1>8, <1>9 DEF Tidy, Live
<1>11. Relens(first, recs)
  BY <1>10, ComputeRelens
<1>12. Tidy(recs)
  BY <1>10, <1>11, RelensTidy
<1> HIDE DEF recs
<1>13. recs \in Seq(Recs) /\ Len(recs) = n + 1 /\ DOMAIN recs = 1..(n + 1)
  BY SMT, <1>3, <1>8, <1>11 DEF Relens
<1>14. map \in [Frs \cup {Root} -> 0..(n + 1)]
  BY SMT, <1>3, <1>4
<1>15. \A i \in 1..(n + 1) : base[i] = Entry(recs[i])
  BY <1>13
<1>16. base \in Seq(Entries) /\ Len(base) = n + 1
  <2>1. \A r \in Recs : Entry(r) \in Entries
    BY DEF Entry, Entries, Recs
  <2>2. base \in [1..(n + 1) -> Entries]
    BY SMT, <1>3, <1>13, <2>1
  <2> HIDE DEF base
  <2> QED
    BY SMT, <1>3, <2>2, FunctionIsSeq
<1> HIDE DEF map, base
<1>17. NoDelta \in Deltas /\ ~NoDelta.some /\ NoDelta.tombstones = {}
  BY DEF NoDelta, Deltas, TrigramLists, ExtLists, ChildLists
<1>18. map \in [Frs \cup {Root} -> Nat]
  BY SMT, <1>3, <1>14
<1> HIDE DEF x
<1>19. x \in Bodies /\ x.recs = recs /\ x.map = map /\ x.base = base /\ x.delta = NoDelta
  BY <1>1, <1>13, <1>16, <1>17, <1>18 DEF Bodies
<1>20. Framed(x)
  BY SMT, <1>3, <1>12, <1>13, <1>14, <1>16, <1>17, <1>19 DEF Framed
<1>21. Fresh(x)
  BY <1>13, <1>15, <1>16, <1>19 DEF Fresh
<1>22. \A i \in 1..Len(x.recs) : Covered(x, i)
  BY <1>13, <1>15, <1>16, <1>17, <1>19 DEF Covered
<1>23. BodyOK(x)
  BY <1>20, <1>21, <1>22 DEF BodyOK
<1> QED
  BY <1>23 DEF x

-----------------------------------------------------------------------------
(* The poll                                                                 *)

LogRecords == [frs : Frs, parent : Frs \cup {Root}, name : Names,
               type : {"created", "deleted", "renamed", "other"}]

MergeStep(c, ch, r) == IF r.frs = ch.frs THEN Net(ch, r) ELSE ch
MergeInv(c, k, ch) == ch \in Changes
Merges == INSTANCE FoldFacts WITH Op <- MergeStep, Inv <- MergeInv

\* One more record for a file.
LEMMA NetChange ==
  ASSUME NEW ch \in Changes, NEW r \in LogRecords
  PROVE  Net(ch, r) \in Changes
<1> DEFINE kind == CASE r.type = "created" -> "create"
                     [] r.type = "deleted" -> "delete"
                     [] r.type = "renamed" -> IF Created(ch) THEN "both" ELSE "rename"
                     [] OTHER -> ch.kind
<1>1. Net(ch, r) = [ch EXCEPT !.parent = r.parent, !.name = r.name, !.kind = kind]
  BY DEF Net
<1>2. kind \in Kinds
  BY DEF LogRecords, Kinds, Changes
<1>3. r.parent \in Frs \cup {Root} /\ r.name \in Names
  BY DEF LogRecords
<1> HIDE DEF kind
<1>4. Net(ch, r) = [frs |-> ch.frs, parent |-> r.parent, name |-> r.name, kind |-> kind, meta |-> ch.meta]
  BY <1>1 DEF Changes
<1> QED
  BY SMT, <1>2, <1>3, <1>4 DEF Changes

\* The image of a finite set is finite.
LEMMA FiniteImage ==
  ASSUME NEW S, IsFiniteSet(S), NEW g, g = [s \in S |-> g[s]]
  PROVE  IsFiniteSet({g[s] : s \in S})
<1> DEFINE T == {g[s] : s \in S}
<1>1. g \in Surjection(S, T)
  BY Zenon DEF Surjection
<1> QED
  BY <1>1, FS_Surjection

\* aggregate_changes yields a change per file.
LEMMA AggregatedChanges ==
  ASSUME NEW records \in Seq(LogRecords)
  PROVE  AggregateChanges(records) \in SUBSET Changes /\ IsFiniteSet(AggregateChanges(records))
<1> DEFINE none(f) == [frs |-> f, parent |-> Root, name |-> NoName, kind |-> "other", meta |-> "none"]
           F == {records[k].frs : k \in DOMAIN records}
           g == [f \in F |-> Merges!Fold(f, none(f), records)]
<1>1. AggregateChanges(records) = {Merges!Fold(f, none(f), records) : f \in F}
  BY DEF AggregateChanges, FoldLeft, MapThenFoldSet, Max, Merges!Fold, Merges!FoldStep, Merges!Top,
         MergeStep
<1>2. \A k \in 1..Len(records) : records[k] \in LogRecords
  BY SMT
<1>3. F \subseteq Frs
  BY SMT, <1>2 DEF LogRecords
<1>4. IsFiniteSet(F)
  <2> HIDE DEF F
  <2> QED
    BY <1>3, IndexRoot, FS_Subset
<1> HIDE DEF F
<1>5. ASSUME NEW f \in F PROVE Merges!Fold(f, none(f), records) \in Changes
  <2>1. MergeInv(f, 0, none(f))
    BY <1>3 DEF MergeInv, Changes, Kinds
  <2> HIDE DEF none
  <2>2. \A k \in 1..Len(records) : \A x :
          MergeInv(f, k - 1, x) => MergeInv(f, k, MergeStep(f, x, records[k]))
    BY <1>2, NetChange DEF MergeInv, MergeStep
  <2>3. MergeInv(f, Len(records), Merges!Fold(f, none(f), records))
    BY <2>1, <2>2, Induct, Merges!FoldKeeps DEF Merges!UpTo
  <2> QED
    BY <2>3 DEF MergeInv
<1> HIDE DEF none
<1>6. AggregateChanges(records) = {g[f] : f \in F} /\ g = [f \in F |-> g[f]]
  BY <1>1, Zenon
<1> HIDE DEF g
<1>7. IsFiniteSet(AggregateChanges(records))
  BY SMT, <1>4, <1>6, FiniteImage
<1> QED
  BY <1>1, <1>5, <1>7

-----------------------------------------------------------------------------
(* The inductive invariant                                                  *)

PatchInv ==
  /\ disk \in [Frs -> Files]
  /\ log \in Seq(LogRecords)
  /\ pending \in Seq(Changes)
  /\ BodyOK(body)
  /\ seen \subseteq {"overtaken", "unread", "reloaded"}

\* An operation on the volume.
LEMMA OpKeeps ==
  ASSUME PatchInv, NEW d \in [Frs -> Files], NEW records \in Seq(LogRecords), Op(d, records)
  PROVE  PatchInv'
<1>1. log \o records \in Seq(LogRecords)
  BY ConcatProperties DEF PatchInv
<1> QED
  BY <1>1 DEF PatchInv, Op

\* Every change of the volume keeps the invariant.
LEMMA VolumeKeeps == ASSUME PatchInv, VolumeStep PROVE PatchInv'
<1>1. disk \in [Frs -> Files]
  BY DEF PatchInv
<1>2. ASSUME NEW f \in Frs, NEW type \in {"created", "deleted", "renamed", "other"},
             NEW file \in Files, file.name \in Names
      PROVE  Record(f, type, file) \in LogRecords
  BY <1>2 DEF Record, LogRecords, Files
<1>3. ASSUME NEW f \in Frs, NEW p \in Frs \cup {Root}, NEW n \in Names, NEW isDir \in BOOLEAN,
             CreateFile(f, p, n, isDir)
      PROVE  PatchInv'
  <2> DEFINE file == [name |-> n, parent |-> p, dir |-> isDir]
             d == [disk EXCEPT ![f] = file]
             records == <<Record(f, "created", file)>>
  <2>1. file \in Files /\ file.name \in Names
    BY DEF Files
  <2>2. Op(d, records)
    BY <1>3 DEF CreateFile
  <2> HIDE DEF file
  <2>3. d \in [Frs -> Files]
    BY <1>1, <2>1
  <2>4. records \in Seq(LogRecords)
    BY SMT, <1>2, <2>1
  <2> HIDE DEF d, records
  <2> QED
    BY <2>2, <2>3, <2>4, OpKeeps
<1>4. ASSUME NEW f \in Frs, DeleteFile(f) PROVE PatchInv'
  <2> DEFINE d == [disk EXCEPT ![f] = Free]
             records == <<Record(f, "deleted", disk[f])>>
  <2>1. disk[f] \in Files /\ disk[f].name \in Names
    BY <1>1, <1>4 DEF Files, DeleteFile, Present
  <2>2. Op(d, records)
    BY <1>4 DEF DeleteFile
  <2>3. d \in [Frs -> Files]
    BY <1>1 DEF Free, Files
  <2>4. records \in Seq(LogRecords)
    BY SMT, <1>2, <2>1
  <2> HIDE DEF d, records
  <2> QED
    BY <2>2, <2>3, <2>4, OpKeeps
<1>5. ASSUME NEW f \in Frs, NEW p \in Frs \cup {Root}, NEW n \in Names, RenameFile(f, p, n)
      PROVE  PatchInv'
  <2> DEFINE file == [disk[f] EXCEPT !.name = n, !.parent = p]
             d == [disk EXCEPT ![f] = file]
             records == <<Record(f, "other", disk[f]), Record(f, "renamed", file)>>
  <2>1. disk[f] \in Files /\ disk[f].name \in Names
    BY <1>1, <1>5 DEF Files, RenameFile, Present
  <2>2. file \in Files /\ file.name \in Names
    BY <2>1 DEF Files
  <2>3. Op(d, records)
    BY <1>5 DEF RenameFile
  <2> HIDE DEF file
  <2>4. d \in [Frs -> Files]
    BY <1>1, <2>2
  <2>5. records \in Seq(LogRecords)
    BY SMT, <1>2, <2>1, <2>2
  <2> HIDE DEF d, records
  <2> QED
    BY <2>3, <2>4, <2>5, OpKeeps
<1> QED
  BY <1>3, <1>4, <1>5 DEF VolumeStep

\* A poll buffers changes.
LEMMA PollKeeps ==
  ASSUME PatchInv, NEW n \in DOMAIN log, NEW fails \in BOOLEAN, Poll(n, fails)
  PROVE  PatchInv'
<1> DEFINE read == SubSeq(log, 1, n)
           net == AggregateChanges(read)
           changes == {BackfillMetadata(ch, fails) : ch \in net}
<1>1. log \in Seq(LogRecords) /\ Len(log) \in Nat /\ n \in 1..Len(log) /\ disk \in [Frs -> Files]
  BY SMT DEF PatchInv
<1>2. read \in Seq(LogRecords) /\ SubSeq(log, n + 1, Len(log)) \in Seq(LogRecords)
  <2>1. \A i \in 1..n : log[i] \in LogRecords
    BY SMT, <1>1
  <2>2. \A i \in (n + 1)..Len(log) : log[i] \in LogRecords
    BY SMT, <1>1
  <2>3. 1 \in Int /\ n \in Int /\ n + 1 \in Int /\ Len(log) \in Int
    BY SMT, <1>1
  <2> QED
    BY <2>1, <2>2, <2>3, SubSeqProperties
<1> HIDE DEF read
<1>3. net \in SUBSET Changes /\ IsFiniteSet(net)
  BY <1>2, AggregatedChanges
<1> HIDE DEF net
<1>4. ASSUME NEW ch \in Changes PROVE BackfillMetadata(ch, fails) \in Changes
  <2>1. ch \in Changes /\ [ch EXCEPT !.meta = "dir"] \in Changes /\ [ch EXCEPT !.meta = "file"] \in Changes
    BY DEF Changes
  <2>2. BackfillMetadata(ch, fails) \in {ch, [ch EXCEPT !.meta = "dir"], [ch EXCEPT !.meta = "file"]}
    BY DEF BackfillMetadata
  <2> QED
    BY <2>1, <2>2
<1>5. IsFiniteSet(changes)
  <2> DEFINE g == [ch \in net |-> BackfillMetadata(ch, fails)]
  <2>1. changes = {g[ch] : ch \in net} /\ g = [ch \in net |-> g[ch]]
    BY Zenon
  <2> HIDE DEF g, changes
  <2> QED
    BY <1>3, <2>1, FiniteImage
<1>6. changes \subseteq Changes
  BY <1>3, <1>4
<1>7. PICK order \in SetToSeqs(changes) : pending' = pending \o order
  BY DEF Poll, net, read
<1> HIDE DEF changes
<1>8. order \in Seq(Changes)
  BY <1>5, <1>6, <1>7, ListedSet, SeqMonotonic
<1>9. pending' \in Seq(Changes)
  BY <1>7, <1>8, ConcatProperties DEF PatchInv
<1>10. log' \in Seq(LogRecords)
  BY <1>2 DEF Poll
<1>11. /\ UNCHANGED <<disk, body>>
       /\ seen' \subseteq seen \cup {"unread"}
  BY DEF Poll
<1> QED
  BY <1>9, <1>10, <1>11 DEF PatchInv

\* A tick patches the body.
LEMMA ApplyKeeps == ASSUME PatchInv, Apply PROVE PatchInv'
<1> DEFINE patched == ApplyUsnPatch(body, pending)
<1>1. BodyOK(body) /\ BodyOK(patched) /\ BodyOK(FoldDeltaForSave(patched))
  <2>1. BodyOK(body) /\ BodyOK(patched)
    BY PatchOK DEF PatchInv
  <2> HIDE DEF patched
  <2> QED
    BY <2>1, SaveOK
<1>2. BodyOK([body EXCEPT !.stuck = TRUE])
  <2> DEFINE x == [body EXCEPT !.stuck = TRUE]
  <2>1. body \in Bodies
    BY <1>1 DEF BodyOK, Framed
  <2>2. x \in Bodies /\ x.recs = body.recs /\ x.map = body.map /\ x.base = body.base /\ x.delta = body.delta
    BY <2>1 DEF Bodies
  <2> HIDE DEF x
  <2>3. Relensed(body, x)
    BY <2>1, <2>2 DEF Relensed, Relens, Bodies
  <2>4. BodyOK(x)
    BY <1>1, <2>3, RelensOK
  <2> QED
    BY <2>4 DEF x
<1>3. body' \in {[body EXCEPT !.stuck = TRUE], patched, FoldDeltaForSave(patched)}
  BY DEF Apply
<1>4. BodyOK(body)'
  <2> HIDE DEF patched
  <2>1. BodyOK(body')
    BY <1>1, <1>2, <1>3
  <2> QED
    BY <2>1
<1>5. pending' \in Seq(Changes)
  BY SMT DEF Apply
<1>6. UNCHANGED <<disk, log>> /\ seen' \subseteq seen \cup {"overtaken"}
  BY DEF Apply
<1> QED
  BY <1>4, <1>5, <1>6 DEF PatchInv

\* The body is read afresh.
LEMMA ReloadKeeps == ASSUME PatchInv, Reload PROVE PatchInv'
<1>1. BodyOK(BuildCompactIndex(disk))
  BY BuildOK DEF PatchInv
<1>2. body' = BuildCompactIndex(disk)
  BY DEF Reload
<1>3. BodyOK(body')
  BY <1>1, <1>2
<1>4. UNCHANGED <<disk, log, pending>> /\ seen' \subseteq seen \cup {"reloaded"}
  BY DEF Reload
<1> QED
  BY <1>3, <1>4 DEF PatchInv

-----------------------------------------------------------------------------
(* What the invariant says of the body                                      *)

\* The body is well formed.
LEMMA InvTypes == PatchInv => TypeOK
<1> SUFFICES ASSUME PatchInv PROVE TypeOK
  OBVIOUS
<1> DEFINE n == Len(body.recs)
<1>1. Framed(body) /\ body \in Bodies /\ Tidy(body.recs)
  BY DEF PatchInv, BodyOK, Framed
<1>2. body.recs \in Seq(Recs) /\ n \in Nat /\ Slots = 1..n
  BY SMT, <1>1 DEF Bodies, Slots
<1>3. Slots \cup {Nil} = 0..n
  BY SMT, <1>2 DEF Nil
<1>4. ASSUME NEW i \in Slots
      PROVE  body.recs[i] \in [name : Names \cup {Dot, NoName}, parent : Slots \cup {Nil},
                               dir : BOOLEAN, len : Nat]
  <2>1. body.recs[i] \in Recs /\ body.recs[i].parent \in Slots \cup {Nil}
    BY SMT, <1>1, <1>2, <1>3 DEF Tidy
  <2> HIDE DEF n
  <2> QED
    BY <2>1 DEF Recs, AllNames
<1>5. body.map \in [Frs \cup {Root} -> Slots \cup {Nil}]
  BY <1>1, <1>3 DEF Framed
<1>6. Len(body.base) <= Len(body.recs) /\ body.delta.tombstones \subseteq Slots
  BY <1>1, <1>2 DEF Framed
<1> QED
  BY <1>4, <1>5, <1>6 DEF TypeOK, PatchInv

\* trigram_search, for_each_child and records_with_ext find what the records say.
LEMMA InvSearches == PatchInv => NameSearchComplete /\ TreeAndExtExact
<1> SUFFICES ASSUME PatchInv PROVE NameSearchComplete /\ TreeAndExtExact
  OBVIOUS
<1> DEFINE n == Len(body.recs)
           m == Len(body.base)
<1>1. BodyOK(body) /\ Framed(body) /\ body \in Bodies /\ Tidy(body.recs)
  BY DEF PatchInv, BodyOK, Framed
<1>2. n \in Nat /\ Slots = 1..n /\ DOMAIN body.recs = 1..n
  BY SMT, <1>1 DEF Bodies, Slots
<1>3. m \in Nat /\ DOMAIN body.base = 1..m /\ m <= n
  BY SMT, <1>1 DEF Bodies, Framed
<1>4. \A i \in 1..m : i \in 1..n
  BY SMT, <1>2, <1>3
<1>5. \A i \in LiveSlots : Covered(body, i) /\ i \in 1..n /\ Live(body.recs, i)
  BY <1>1, <1>2 DEF LiveSlots, BodyOK
<1>6. \A i \in 1..n : ~Live(body.recs, i) => body.recs[i].parent = Nil
  BY <1>1 DEF Tidy
<1>7. \A i \in 1..m : body.base[i] = Entry(body.recs[i]) =>
        /\ body.base[i].name = body.recs[i].name /\ body.base[i].parent = body.recs[i].parent
        /\ Live(body.base, i) <=> Live(body.recs, i)
  BY SMT DEF Entry, Live
<1>8. ~body.delta.some => m = n /\ \A i \in 1..n : body.base[i] = Entry(body.recs[i])
  BY <1>1 DEF BodyOK, Fresh
<1> HIDE DEF n, m
<1>9. ASSUME NEW needle \in Needles, \A t \in needle : ~Pruned(body.base, t),
             NEW i \in LiveSlots, needle \subseteq TrigramsOf[body.recs[i].name]
      PROVE  i \in TrigramSearch(body, needle)
  <2> DEFINE added(t) == {j \in DOMAIN body.recs : <<t, j>> \in body.delta.trigram}
             list(t) == GetPosting(body.base, t) \cup added(t)
             lists == {list(t) : t \in needle} \ {{}}
  <2>1. TrigramSearch(body, needle) =
          {j \in {l \in UNION lists : \A s \in lists : l \in s} :
             j \in body.delta.tombstones => \A t \in needle : j \in added(t)}
    BY Zenon DEF TrigramSearch
  <2>2. \/ i \notin body.delta.tombstones /\ \A t \in needle : i \in GetPosting(body.base, t)
        \/ \A t \in needle : i \in added(t)
    <3>1. CASE i \in 1..Len(body.base) /\ i \notin body.delta.tombstones /\ body.base[i] = Entry(body.recs[i])
      BY <1>3, <1>5, <1>7, <1>9, <3>1 DEF GetPosting, AllPostings, m
    <3>2. CASE Indexed(body.delta, i, body.recs[i])
      BY <1>2, <1>5, <1>9, <3>2 DEF Indexed
    <3> QED
      BY <1>5, <3>1, <3>2 DEF Covered
  <2>3. \A t \in needle : i \in list(t)
    BY <2>2
  <2>4. needle # {}
    BY Zenon DEF Needles
  <2> HIDE DEF added, list
  <2>5. i \in UNION lists /\ \A s \in lists : i \in s
    BY <2>3, <2>4
  <2> HIDE DEF lists
  <2> QED
    BY <2>1, <2>2, <2>5
<1>10. NameSearchComplete
  BY <1>9 DEF NameSearchComplete, NamesFound
<1>11. ASSUME NEW p \in Slots
       PROVE  ForEachChild(body, p) = {i \in LiveSlots : body.recs[i].parent = p}
  <2>1. p # Nil
    BY SMT, <1>2 DEF Nil
  <2>2. CASE ~body.delta.some
    <3>1. ForEachChild(body, p) = {i \in 1..n : body.recs[i].parent = p}
      BY <1>3, <1>7, <1>8, <2>2 DEF ForEachChild, BaseChildren
    <3> QED
      BY <1>2, <1>5, <1>6, <2>1, <3>1 DEF LiveSlots
  <2>3. CASE body.delta.some
    <3> DEFINE found == BaseChildren(body.base, p) \cup {i \in DOMAIN body.recs : <<p, i>> \in body.delta.children}
    <3>1. ForEachChild(body, p) = {c \in found : body.recs[c].parent = p /\ Live(body.recs, c)}
      BY <2>3 DEF ForEachChild
    <3>2. found \subseteq Slots
      BY <1>2, <1>3, <1>4 DEF BaseChildren
    <3>3. ASSUME NEW i \in LiveSlots, body.recs[i].parent = p PROVE i \in found
      <4>1. CASE i \in 1..Len(body.base) /\ body.base[i] = Entry(body.recs[i])
        BY <1>3, <1>7, <3>3, <4>1 DEF BaseChildren, m
      <4>2. CASE Indexed(body.delta, i, body.recs[i])
        BY <1>2, <1>5, <2>1, <3>3, <4>2 DEF Indexed
      <4> QED
        BY <1>5, <4>1, <4>2 DEF Covered
    <3> HIDE DEF found
    <3> QED
      BY <3>1, <3>2, <3>3 DEF LiveSlots
  <2> QED
    BY <2>2, <2>3
<1>12. ASSUME NEW e \in Exts
       PROVE  RecordsWithExt(body, e) = {i \in LiveSlots : ExtOf[body.recs[i].name] = e}
  <2>1. CASE ~body.delta.some
    <3>1. RecordsWithExt(body, e) = {i \in 1..n : Live(body.recs, i) /\ ExtOf[body.recs[i].name] = e}
      BY <1>3, <1>7, <1>8, <2>1 DEF RecordsWithExt, BaseExt
    <3> QED
      BY <1>2, <3>1 DEF LiveSlots
  <2>2. CASE body.delta.some
    <3> DEFINE found == BaseExt(body.base, e) \cup {j \in DOMAIN body.recs : <<e, j>> \in body.delta.ext}
    <3>1. RecordsWithExt(body, e) = {i \in found : Live(body.recs, i) /\ ExtOf[body.recs[i].name] = e}
      BY <2>2 DEF RecordsWithExt
    <3>2. found \subseteq Slots
      BY <1>2, <1>3, <1>4 DEF BaseExt
    <3>3. ASSUME NEW i \in LiveSlots, ExtOf[body.recs[i].name] = e PROVE i \in found
      <4>1. CASE i \in 1..Len(body.base) /\ body.base[i] = Entry(body.recs[i])
        BY <1>3, <1>5, <1>7, <3>3, <4>1 DEF BaseExt, m
      <4>2. CASE Indexed(body.delta, i, body.recs[i])
        BY <1>2, <1>5, <3>3, <4>2 DEF Indexed
      <4> QED
        BY <1>5, <4>1, <4>2 DEF Covered
    <3> HIDE DEF found
    <3> QED
      BY <3>1, <3>2, <3>3 DEF LiveSlots
  <2> QED
    BY <2>1, <2>2
<1> QED
  BY <1>10, <1>11, <1>12 DEF TreeAndExtExact

-----------------------------------------------------------------------------

\* The body, the journal and the buffered changes keep the invariant over every change of the
\* volume, poll, apply tick and fresh read.
THEOREM PatchInvariant == Spec => []PatchInv
<1>1. Init => PatchInv
  <2> SUFFICES ASSUME Init PROVE PatchInv
    OBVIOUS
  <2>1. disk \in [Frs -> Files]
    BY VolumeFiles DEF Init
  <2>2. BodyOK(BuildCompactIndex(disk))
    BY <2>1, BuildOK
  <2>3. BodyOK(body)
    BY <2>2 DEF Init
  <2>4. log \in Seq(LogRecords) /\ pending \in Seq(Changes) /\ seen = {}
    BY SMT DEF Init
  <2> QED
    BY <2>1, <2>3, <2>4 DEF PatchInv
<1>2. PatchInv /\ [Next]_vars => PatchInv'
  <2> SUFFICES ASSUME PatchInv, [Next]_vars PROVE PatchInv'
    OBVIOUS
  <2>1. CASE VolumeStep
    BY <2>1, VolumeKeeps
  <2>2. ASSUME NEW n \in DOMAIN log, NEW fails \in BOOLEAN, Poll(n, fails) PROVE PatchInv'
    BY <2>2, PollKeeps
  <2>3. CASE Apply
    BY <2>3, ApplyKeeps
  <2>4. CASE Reload
    BY <2>4, ReloadKeeps
  <2>5. CASE UNCHANGED vars
    BY <2>5 DEF PatchInv, vars
  <2> QED
    BY <2>1, <2>2, <2>3, <2>4, <2>5 DEF Next
<1> QED
  BY <1>1, <1>2, PTL DEF Spec

\* Type correctness: the map, the parents and the overlay name slots that exist, whatever
\* apply_usn_patch, the compaction and the cold build did.
THEOREM TypeCorrectPatch == Spec => []TypeOK
BY PatchInvariant, InvTypes, PTL

\* A name search through base and overlay has every live record whose name contains the
\* needle among its candidates, when no trigram of the needle was pruned from the base
\* (trigram_search): for every volume, batch and pair of thresholds.
THEOREM NameSearchesComplete == Spec => []NameSearchComplete
BY PatchInvariant, InvSearches, PTL

\* A tree walk and an extension lookup return exactly the live records under that parent
\* and with that extension (for_each_child, records_with_ext), likewise.
THEOREM TreeAndExtSearchesExact == Spec => []TreeAndExtExact
BY PatchInvariant, InvSearches, PTL

=============================================================================
