------------------------------ MODULE UsnPatch ------------------------------
(***************************************************************************)
(* One drive kept live from its USN journal: files are created, deleted,    *)
(* renamed and moved on the volume; the journal loop polls, aggregates the  *)
(* records per file and buffers the changes of one or more polls; an apply  *)
(* or save tick patches the body with everything buffered.  The body is     *)
(* what CompactIndex describes; searches read it between any two steps.     *)
(***************************************************************************)
EXTENDS CompactIndex

CONSTANTS
  Volumes,     \* what the volume may hold at start-up
  MaxOps,      \* changes made on the volume (bound)
  MaxFaults    \* re-promotions of the drive and failed targeted reads (bound)

Files == [name : Names \cup {NoName}, parent : Frs \cup {Root}, dir : BOOLEAN]

ASSUME VolumeFiles == Volumes \subseteq [Frs -> Files]
ASSUME PatchBounds == MaxOps \in Nat /\ MaxFaults \in Nat

VARIABLES
  disk,     \* volume: file record number -> [name, parent, dir]
  log,      \* volume: USN records the loop has not read
  pending,  \* sink: changes of the polls since the last tick
  body,     \* registry: the body searches see
  ops,      \* changes made so far
  faults,   \* re-promotions and failed reads so far
  seen      \* history: "overtaken", "unread" or "reloaded" once that happened

vars == <<disk, log, pending, body, ops, faults, seen>>

Free == [name |-> NoName, parent |-> Root, dir |-> FALSE]
Present == {f \in Frs : disk[f].name # NoName}
Directories == {Root} \cup {f \in Present : disk[f].dir}

Quiet == log = <<>> /\ pending = <<>> /\ ~body.stuck

-----------------------------------------------------------------------------
(* The volume                                                               *)

Record(f, type, file) == [frs |-> f, parent |-> file.parent, name |-> file.name, type |-> type]

\* p is f or lies below f.
Within(p, f) ==
  LET up[n \in 0..Cardinality(Frs)] ==
        IF n = 0 THEN {p}
        ELSE LET last == up[n - 1] IN last \cup {disk[q].parent : q \in last \ {Root}}
  IN f \in up[Cardinality(Frs)]

Available(p, n) == p \in Directories /\ \A g \in Present : disk[g].parent = p => disk[g].name # n

Op(d, records) ==
  /\ ops' = ops + 1
  /\ disk' = d
  /\ log' = log \o records
  /\ UNCHANGED <<pending, body, faults, seen>>

CreateFile(f, p, n, isDir) ==
  /\ f \notin Present
  /\ Available(p, n)
  /\ LET file == [name |-> n, parent |-> p, dir |-> isDir]
     IN Op([disk EXCEPT ![f] = file], <<Record(f, "created", file)>>)

DeleteFile(f) ==
  /\ f \in Present
  /\ \A g \in Present : disk[g].parent # f
  /\ Op([disk EXCEPT ![f] = Free], <<Record(f, "deleted", disk[f])>>)

\* A rename leaves a record with the old name and one with the new.
RenameFile(f, p, n) ==
  /\ f \in Present
  /\ Available(p, n)
  /\ ~Within(p, f)
  /\ LET file == [disk[f] EXCEPT !.name = n, !.parent = p]
     IN Op([disk EXCEPT ![f] = file],
           <<Record(f, "other", disk[f]), Record(f, "renamed", file)>>)

-----------------------------------------------------------------------------
(* The poll                                                                 *)

\* The net of one more record for a file: the last create, delete or rename wins, and a
\* rename keeps the create it follows.
Net(ch, r) ==
  [ch EXCEPT !.parent = r.parent, !.name = r.name,
             !.kind = CASE r.type = "created" -> "create"
                        [] r.type = "deleted" -> "delete"
                        [] r.type = "renamed" -> IF Created(ch) THEN "both" ELSE "rename"
                        [] OTHER -> @]

AggregateChanges(records) ==
  LET merge(ch, r) == IF r.frs = ch.frs THEN Net(ch, r) ELSE ch
      none(f) == [frs |-> f, parent |-> Root, name |-> NoName, kind |-> "other", meta |-> "none"]
  IN {FoldLeft(merge, none(f), records) : f \in {records[k].frs : k \in DOMAIN records}}

\* The targeted read sees the record as it is now, not as it was when the change was logged.
BackfillMetadata(ch, fails) ==
  IF ~(Created(ch) \/ Renamed(ch)) \/ fails \/ ch.frs \notin Present THEN ch
  ELSE [ch EXCEPT !.meta = IF disk[ch.frs].dir THEN "dir" ELSE "file"]

\* Reads up to some record (the volume may be writing on) and buffers the changes, which
\* leave the aggregation's hash map in any order.  A read can only fail to tell something.
Poll(n, fails) ==
  /\ n \in 1..Len(log)
  /\ LET net == AggregateChanges(SubSeq(log, 1, n))
         changes == {BackfillMetadata(ch, fails) : ch \in net}
     IN /\ fails => \E ch \in net : BackfillMetadata(ch, FALSE) # ch
        /\ \E order \in SetToSeqs(changes) : pending' = pending \o order
  /\ log' = SubSeq(log, n + 1, Len(log))
  /\ fails => faults < MaxFaults
  /\ faults' = IF fails THEN faults + 1 ELSE faults
  /\ seen' = IF fails THEN seen \cup {"unread"} ELSE seen
  /\ UNCHANGED <<disk, body, ops>>

-----------------------------------------------------------------------------
(* The ticks                                                                *)

\* Some file's changes are not applied in the order they were buffered.
Overtaken(changes) ==
  LET ordered == OrderParentFirst(changes)
      of(s, f) == SelectSeq(s, LAMBDA ch : ch.frs = f)
  IN \E f \in Frs : Len(of(changes, f)) > 1 /\ of(changes, f) # of(ordered, f)

\* An apply tick, or a save tick, which also folds the overlay.  A patch that never ends
\* publishes nothing, and no later one starts.
Apply ==
  /\ pending # <<>>
  /\ ~body.stuck
  /\ LET patched == ApplyUsnPatch(body, pending)
     IN IF patched.stuck THEN body' = [body EXCEPT !.stuck = TRUE]
        ELSE \/ body' = patched
             \/ body' = FoldDeltaForSave(patched)
  /\ pending' = <<>>
  /\ seen' = IF Overtaken(pending) THEN seen \cup {"overtaken"} ELSE seen
  /\ UNCHANGED <<disk, log, ops, faults>>

\* The drive was parked and is promoted again: its body is read afresh from the volume, and
\* the changes buffered or still unread are applied to it once more.
Reload ==
  /\ faults < MaxFaults
  /\ ~body.stuck
  /\ faults' = faults + 1
  /\ body' = BuildCompactIndex(disk)
  /\ body' # body
  /\ seen' = IF Quiet THEN seen ELSE seen \cup {"reloaded"}
  /\ UNCHANGED <<disk, log, pending, ops>>

-----------------------------------------------------------------------------

Init ==
  /\ disk \in Volumes
  /\ log = <<>>
  /\ pending = <<>>
  /\ body = BuildCompactIndex(disk)
  /\ ops = 0
  /\ faults = 0
  /\ seen = {}

VolumeStep ==
  \/ \E f \in Frs, p \in Frs \cup {Root}, n \in Names, isDir \in BOOLEAN : CreateFile(f, p, n, isDir)
  \/ \E f \in Frs : DeleteFile(f)
  \/ \E f \in Frs, p \in Frs \cup {Root}, n \in Names : RenameFile(f, p, n)

Next ==
  \/ ops < MaxOps /\ VolumeStep
  \/ \E n \in DOMAIN log, fails \in BOOLEAN : Poll(n, fails)
  \/ Apply
  \/ Reload

Spec == Init /\ [][Next]_vars

-----------------------------------------------------------------------------

Slots == DOMAIN body.recs
LiveSlots == {i \in Slots : Live(body.recs, i)}
Mapped == {f \in Frs : body.map[f] # Nil}

\* The file the body shows under slot i; a parent slot of Nil or of the root is the root.
Shown(i) ==
  LET up == body.recs[i].parent
      above == {g \in Mapped : body.map[g] = up}
  IN [name |-> body.recs[i].name, dir |-> body.recs[i].dir,
      parent |-> IF above = {} THEN Root ELSE CHOOSE g \in above : TRUE]

IndexIsVolume ==
  /\ Mapped = Present
  /\ \A f \in Mapped : Shown(body.map[f]) = disk[f]
  /\ LiveSlots = {body.map[f] : f \in Mapped \cup {Root}}

NamesFound(needle) ==
  {i \in LiveSlots : needle \subseteq TrigramsOf[body.recs[i].name]} \subseteq TrigramSearch(body, needle)

Needles == (SUBSET Trigrams) \ {{}}

\* Type correctness: the slots that the map, the parents and the overlay name exist, and
\* the base never covers more records than there are.
TypeOK ==
  /\ disk \in [Frs -> Files]
  /\ \A i \in Slots : body.recs[i] \in [name : Names \cup {Dot, NoName}, parent : Slots \cup {Nil},
                                        dir : BOOLEAN, len : Nat]
  /\ body.map \in [Frs \cup {Root} -> Slots \cup {Nil}]
  /\ Len(body.base) <= Len(body.recs)
  /\ body.delta.tombstones \subseteq Slots
  /\ seen \subseteq {"overtaken", "unread", "reloaded"}

\* Once every change of the volume has been polled and applied, the body shows exactly the
\* volume's files, each with its name, its parent and its kind, and no slot is live that no
\* file record maps to.  So it is however the records fall into polls and the polls into
\* ticks, in whatever order a poll hands its changes over, when file records are reused and
\* when changes are applied again to a body that was read afresh (apply_usn_patch,
\* aggregate_changes).  Two cases are excepted: order_parent_first put two changes of one
\* file the wrong way round, and a targeted read failed (the directory bit is then unknown).
FollowsVolume == Quiet /\ seen \subseteq {"reloaded"} => IndexIsVolume

\* A directory rename never sends the subtree walk of shift_subtree_path_len round a cycle
\* of parents, which it would follow for ever, unless order_parent_first put two changes
\* of one file the wrong way round or changes met a body read after them.
PatchEnds == body.stuck => seen \cap {"overtaken", "reloaded"} # {}

\* Through base and overlay, a name search has every live record whose name contains the
\* needle among its candidates, whatever was created, renamed, deleted, reused or compacted
\* since the base was built (trigram_search), as long as the base has pruned none of the
\* needle's trigrams.
NameSearchComplete == \A needle \in Needles : (\A t \in needle : ~Pruned(body.base, t)) => NamesFound(needle)

\* A tree walk and an extension lookup through the overlay return exactly the live records
\* under that parent and with that extension: none that moved away, was deleted or changed
\* its extension, none missed (for_each_child, records_with_ext).
TreeAndExtExact ==
  /\ \A p \in Slots : ForEachChild(body, p) = {i \in LiveSlots : body.recs[i].parent = p}
  /\ \A e \in Exts : RecordsWithExt(body, e) = {i \in LiveSlots : ExtOf[body.recs[i].name] = e}

\* Once every change is applied, the path lengths kept incrementally are those a full pass
\* over the records would compute (update_path_lengths_incremental), for directory renames,
\* moves and creates in one batch in any order, unless a targeted read failed (a directory
\* taken for a file does not shift its subtree) or changes were applied the wrong way round.
PathLensExact ==
  Quiet /\ seen \subseteq {"reloaded"} =>
    LET full == ComputePathLengths(body.recs) IN \A i \in LiveSlots : body.recs[i] = full[i]

\* The claim of coalesce_apply_run: with the buffered changes in receive order, successive
\* changes of one file, over several polls, still apply correctly.
ReceiveOrderKept == Quiet /\ "unread" \notin seen => IndexIsVolume

\* The claim of trigram_search: a trigram without a posting list is skipped and never
\* zeroes the result, so a needle with some trigram the base has kept finds every name.
PrunedTrigramsSkipped ==
  \A needle \in Needles : (\E t \in needle : ~Pruned(body.base, t)) => NamesFound(needle)

=============================================================================
