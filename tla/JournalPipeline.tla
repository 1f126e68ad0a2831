-------------------------- MODULE JournalPipeline ---------------------------
(***************************************************************************)
(* Live maintenance of one drive: the volume's USN journal, the per-drive  *)
(* journal loop, the patch sink and its applier task, the registry's body, *)
(* background compact-cache saves, the persisted cursor, demotion and      *)
(* re-promotion, and a crash followed by the guarded warm load.            *)
(*                                                                         *)
(* The changes on the volume are numbered 1..head.  A body is the set of   *)
(* changes it reflects: a live MFT read reflects 1..head, patching adds    *)
(* the batch (the patcher is idempotent).  A USN is the number of changes  *)
(* before it in the current journal, which starts at change base.          *)
(***************************************************************************)
EXTENDS Naturals, Sequences

CONSTANTS
  MaxChanges,  \* changes made on the volume (bound)
  MaxJournals, \* journals the volume goes through (bound)
  Faults       \* what may go wrong in this instance

AllFaults == {"trim", "recreate", "recreateDown", "demote", "refreshFails", "saveFails",
              "cacheLost", "crash"}

ASSUME ChangesAssumption == MaxChanges \in Nat /\ MaxJournals \in Nat
ASSUME FaultsAssumption == Faults \subseteq AllFaults

VARIABLES
  head,       \* volume: changes made so far
  first,      \* volume: changes no longer readable from the journal
  base,       \* volume: changes made before the current journal was created
  jid,        \* volume: id of the current journal
  up,         \* daemon: "down", "boot" (journal queried) or "up"
  preRead,    \* boot: next_usn queried before the load
  cursor,     \* loop: read position, a USN
  lastJid,    \* loop: journal id of the last poll, 0 for None
  saveDue,    \* loop: SaveTrigger has events since the last save
  applyDue,   \* loop: ApplyTrigger has events since the last apply or save
  pending,    \* sink: buffered changes
  chan,       \* sink: messages to the applier task
  job,        \* applier: message being processed and the body it prepared
  tier,       \* registry: "Warm" (with a body) or "Parked"
  body,       \* registry: the body searches see
  load,       \* promotion: body read and not yet swapped in
  saves,      \* compact-cache writers in flight
  disk,       \* compact cache on disk
  diskCursor  \* persisted cursor, 0 when none

volume == <<head, first, base, jid>>
loop == <<cursor, lastJid, saveDue, applyDue, pending>>
stored == <<saves, disk, diskCursor>>
shard == <<tier, body, load>>
vars == <<head, first, base, jid, up, preRead, cursor, lastJid, saveDue, applyDue,
          pending, chan, job, tier, body, load, saves, disk, diskCursor>>

None == [some |-> FALSE, changes |-> {}]
Some(S) == [some |-> TRUE, changes |-> S]
NoJob == [kind |-> "none", cursor |-> 0, body |-> {}]

NextUsn == head - base
LiveRead == 1..head

\* The daemon has just loaded the drive from an empty volume.
Init ==
  /\ head = 0 /\ first = 0 /\ base = 0 /\ jid = 1
  /\ up = "up" /\ preRead = 0
  /\ cursor = 0 /\ lastJid = 0 /\ saveDue = FALSE /\ applyDue = FALSE
  /\ pending = {} /\ chan = <<>> /\ job = NoJob
  /\ tier = "Warm" /\ body = {} /\ load = None
  /\ saves = {} /\ disk = Some({}) /\ diskCursor = 0

-----------------------------------------------------------------------------
(* The volume.                                                             *)

Write ==
  /\ head < MaxChanges
  /\ head' = head + 1
  /\ UNCHANGED <<first, base, jid, up, preRead, loop, chan, job, shard, stored>>

\* NTFS drops the oldest journal records when the journal reaches its size.
Trim ==
  /\ "trim" \in Faults
  /\ first < head
  /\ first' = head
  /\ UNCHANGED <<head, base, jid, up, preRead, loop, chan, job, shard, stored>>

\* The journal is deleted and created anew: USNs start over.  "recreate" is
\* under a loop that has polled the old journal, "recreateDown" while the
\* daemon is down.
Recreate ==
  /\ \/ "recreate" \in Faults /\ lastJid # 0
     \/ "recreateDown" \in Faults /\ up = "down"
  /\ jid < MaxJournals
  /\ jid' = jid + 1
  /\ base' = head /\ first' = head
  /\ UNCHANGED <<head, up, preRead, loop, chan, job, shard, stored>>

-----------------------------------------------------------------------------
(* JournalLoop::run.                                                       *)

\* WindowsJournalSource::poll: a cursor before the first readable record yields
\* no changes and cursor 0; one beyond the head reads nothing or fails, and
\* the loop polls again from the same place.
PollChanges == IF base + cursor < first THEN {} ELSE (base + cursor + 1)..head
PollCursor ==
  IF base + cursor < first THEN 0
  ELSE IF cursor > NextUsn THEN cursor ELSE NextUsn

\* The journal id changed: tell the sink, reset and persist the cursor.
PollWrapped ==
  /\ up = "up"
  /\ lastJid \notin {0, jid}
  /\ pending' = {}
  /\ chan' = Append(chan, [kind |-> "wrap", changes |-> {}, cursor |-> 0])
  /\ cursor' = 0
  /\ lastJid' = jid
  /\ diskCursor' = 0
  /\ UNCHANGED <<volume, up, preRead, saveDue, applyDue, job, shard, saves, disk>>

\* Mutant: the cadences are evaluated on change ticks only.
PollTickOnChange(fire) ==
  LET batch == pending \cup PollChanges
  IN /\ up = "up"
     /\ lastJid \in {0, jid}
     /\ lastJid' = jid
     /\ cursor' = PollCursor
     /\ \/ /\ fire = "none"
           /\ pending' = batch
           /\ saveDue' = (saveDue \/ PollChanges # {})
           /\ applyDue' = (applyDue \/ PollChanges # {})
           /\ UNCHANGED chan
        \/ /\ fire # "none" /\ PollChanges # {}
           /\ chan' = Append(chan, [kind |-> fire, changes |-> batch,
                                    cursor |-> IF fire = "save" THEN PollCursor ELSE 0])
           /\ pending' = {} /\ saveDue' = (fire = "apply") /\ applyDue' = FALSE
     /\ UNCHANGED <<volume, up, preRead, job, shard, stored>>

\* process_tick and fire_due_cadence: buffer the changes, then at most one of
\* a save and an apply, each only when its trigger has events; the thresholds
\* and the debounce decide when.
PollTick(fire) ==
  LET batch == pending \cup PollChanges
      dueS == saveDue \/ PollChanges # {}
      dueA == applyDue \/ PollChanges # {}
  IN /\ up = "up"
     /\ lastJid \in {0, jid}
     /\ lastJid' = jid
     /\ cursor' = PollCursor
     /\ \/ /\ fire = "none"
           /\ pending' = batch /\ saveDue' = dueS /\ applyDue' = dueA
           /\ UNCHANGED chan
        \/ /\ fire = "save" /\ dueS
           /\ chan' = Append(chan, [kind |-> "save", changes |-> batch,
                                    cursor |-> PollCursor])
           /\ pending' = {} /\ saveDue' = FALSE /\ applyDue' = FALSE
        \/ /\ fire = "apply" /\ dueA
           /\ chan' = IF batch = {} THEN chan
                      ELSE Append(chan, [kind |-> "apply", changes |-> batch,
                                         cursor |-> 0])
           /\ pending' = {} /\ saveDue' = dueS /\ applyDue' = FALSE
     /\ UNCHANGED <<volume, up, preRead, job, shard, stored>>

-----------------------------------------------------------------------------
(* applier_task: dispatch_msg with handle_journal_save, _apply, _refresh.  *)

\* Patch a clone of the live body off-lock; without a body the batch fails and
\* is dropped.
Patch(kind, batch, cur) ==
  job' = IF tier = "Warm" THEN [kind |-> kind, cursor |-> cur, body |-> body \cup batch]
         ELSE NoJob

PersistJob(cur) == [kind |-> "persist", cursor |-> cur, body |-> {}]

\* Mutant: the newest queued save overtakes the others.
TakeSaveNewest ==
  /\ up = "up" /\ job = NoJob
  /\ \E i \in 1..Len(chan) :
       /\ chan[i].kind = "save" /\ \A k \in (i + 1)..Len(chan) : chan[k].kind # "save"
       /\ chan' = SubSeq(chan, 1, i - 1) \o SubSeq(chan, i + 1, Len(chan))
       /\ IF chan[i].changes = {}
          THEN job' = PersistJob(chan[i].cursor)
          ELSE Patch("save", chan[i].changes, chan[i].cursor)
  /\ UNCHANGED <<volume, up, preRead, loop, shard, stored>>

\* A save with an empty batch is a NoOp that reports success.
TakeSave ==
  /\ up = "up" /\ job = NoJob /\ chan # <<>>
  /\ Head(chan).kind = "save"
  /\ chan' = Tail(chan)
  /\ IF Head(chan).changes = {}
     THEN job' = PersistJob(Head(chan).cursor)
     ELSE Patch("save", Head(chan).changes, Head(chan).cursor)
  /\ UNCHANGED <<volume, up, preRead, loop, shard, stored>>

\* Mutant: the message that ends the run of applies is not carried over.
TakeApplyDropsCarried ==
  /\ up = "up" /\ job = NoJob
  /\ \E n \in 1..Len(chan) :
       /\ \A i \in 1..n : chan[i].kind = "apply"
       /\ n < Len(chan) => chan[n + 1].kind # "apply"
       /\ Patch("apply", UNION {chan[i].changes : i \in 1..n}, 0)
       /\ chan' = SubSeq(chan, n + 2, Len(chan))
  /\ UNCHANGED <<volume, up, preRead, loop, shard, stored>>

\* coalesce_apply_run merges the run of applies at the front of the channel.
TakeApply ==
  /\ up = "up" /\ job = NoJob
  /\ \E n \in 1..Len(chan) :
       /\ \A i \in 1..n : chan[i].kind = "apply"
       /\ n < Len(chan) => chan[n + 1].kind # "apply"
       /\ Patch("apply", UNION {chan[i].changes : i \in 1..n}, 0)
       /\ chan' = SubSeq(chan, n + 1, Len(chan))
  /\ UNCHANGED <<volume, up, preRead, loop, shard, stored>>

\* Mutant: the refresh takes the compact cache as it is.
TakeWrapFromCache ==
  /\ up = "up" /\ job = NoJob /\ chan # <<>>
  /\ Head(chan).kind = "wrap"
  /\ chan' = Tail(chan)
  /\ job' = [kind |-> "wrap", cursor |-> 0, body |-> disk.changes]
  /\ UNCHANGED <<volume, up, preRead, loop, shard, stored>>

\* handle_journal_refresh re-reads the live MFT and submits a save.
TakeWrap ==
  /\ up = "up" /\ job = NoJob /\ chan # <<>>
  /\ Head(chan).kind = "wrap"
  /\ chan' = Tail(chan)
  /\ job' = [kind |-> "wrap", cursor |-> 0, body |-> LiveRead]
  /\ saves' = saves \cup {LiveRead}
  /\ UNCHANGED <<volume, up, preRead, loop, shard, disk, diskCursor>>

\* The refresh may fail; the loop does not ask again.
TakeWrapFails ==
  /\ "refreshFails" \in Faults
  /\ up = "up" /\ job = NoJob /\ chan # <<>>
  /\ Head(chan).kind = "wrap"
  /\ chan' = Tail(chan)
  /\ UNCHANGED <<volume, up, preRead, loop, job, shard, stored>>

\* Mutant: the swap does not look at the tier again.
SwapAnyTier ==
  /\ up = "up" /\ job.kind \in {"save", "apply", "wrap"}
  /\ body' = job.body
  /\ IF job.kind = "save"
     THEN saves' = saves \cup {job.body} /\ job' = PersistJob(job.cursor)
     ELSE job' = NoJob /\ UNCHANGED saves
  /\ UNCHANGED <<volume, up, preRead, loop, chan, tier, load, disk, diskCursor>>

\* apply_journal_body swaps the prepared body in if the drive is still Warm;
\* a save tick then spawns the writer.
Swap ==
  /\ up = "up" /\ job.kind \in {"save", "apply", "wrap"}
  /\ body' = IF tier = "Warm" THEN job.body ELSE body
  /\ IF tier = "Warm" /\ job.kind = "save"
     THEN saves' = saves \cup {job.body} /\ job' = PersistJob(job.cursor)
     ELSE job' = NoJob /\ UNCHANGED saves
  /\ UNCHANGED <<volume, up, preRead, loop, chan, tier, load, disk, diskCursor>>

\* dispatch_msg stores the cursor after a save that reported success.
Persist ==
  /\ up = "up" /\ job.kind = "persist"
  /\ diskCursor' = job.cursor
  /\ job' = NoJob
  /\ UNCHANGED <<volume, up, preRead, loop, chan, shard, saves, disk>>

\* encrypt_and_write: the atomic rename of one background writer.
SaveDone(b) ==
  /\ b \in saves
  /\ disk' = Some(b)
  /\ saves' = saves \ {b}
  /\ UNCHANGED <<volume, up, preRead, loop, chan, job, shard, diskCursor>>

SaveFails(b) ==
  /\ "saveFails" \in Faults
  /\ b \in saves
  /\ saves' = saves \ {b}
  /\ UNCHANGED <<volume, up, preRead, loop, chan, job, shard, disk, diskCursor>>

-----------------------------------------------------------------------------
(* The compact cache becomes unreadable (key rotated, file removed).       *)

CacheLost ==
  /\ "cacheLost" \in Faults
  /\ disk.some
  /\ disk' = None
  /\ UNCHANGED <<volume, up, preRead, loop, chan, job, shard, saves, diskCursor>>

-----------------------------------------------------------------------------
(* Demotion and re-promotion (detail in ShardTiers).                       *)

Demote ==
  /\ "demote" \in Faults
  /\ up = "up" /\ tier = "Warm"
  /\ tier' = "Parked" /\ body' = {}
  /\ UNCHANGED <<volume, up, preRead, loop, chan, job, load, stored>>

\* DiskBodyLoader::load: a synchronous USN-refreshed read with its save.
PromoteLoad ==
  /\ up = "up" /\ tier = "Parked" /\ load = None
  /\ load' = Some(LiveRead)
  /\ saves' = saves \cup {LiveRead}
  /\ UNCHANGED <<volume, up, preRead, loop, chan, job, tier, body, disk, diskCursor>>

\* ... or, when the refresh fails, the compact cache as it is.
PromoteFallback ==
  /\ "refreshFails" \in Faults
  /\ up = "up" /\ tier = "Parked" /\ load = None
  /\ load' = disk
  /\ UNCHANGED <<volume, up, preRead, loop, chan, job, tier, body, stored>>

PromoteSwap ==
  /\ up = "up" /\ tier = "Parked" /\ load.some
  /\ tier' = "Warm" /\ body' = load.changes /\ load' = None
  /\ UNCHANGED <<volume, up, preRead, loop, chan, job, stored>>

-----------------------------------------------------------------------------
(* Crash and the guarded warm load.                                        *)

\* Everything in memory is gone, the background writers included.
Crash ==
  /\ "crash" \in Faults
  /\ up # "down"
  /\ up' = "down"
  /\ preRead' = 0 /\ cursor' = 0 /\ lastJid' = 0
  /\ saveDue' = FALSE /\ applyDue' = FALSE
  /\ pending' = {} /\ chan' = <<>> /\ job' = NoJob
  /\ tier' = "Parked" /\ body' = {} /\ load' = None /\ saves' = {}
  /\ UNCHANGED <<volume, disk, diskCursor>>

DecideStrategy(c, firstUsn, nextUsn) ==
  IF c = 0 \/ c < firstUsn \/ c > nextUsn THEN "rebuild" ELSE "fast"

\* load_live_drive decides on the persisted cursor and the journal's bounds ...
BootQuery ==
  /\ up = "down"
  /\ IF DecideStrategy(diskCursor, first - base, NextUsn) = "fast" /\ disk.some
     THEN /\ body' = disk.changes
          /\ tier' = "Warm" /\ up' = "up" /\ cursor' = diskCursor
          /\ UNCHANGED preRead
     ELSE /\ up' = "boot" /\ preRead' = NextUsn
          /\ UNCHANGED <<body, tier, cursor>>
  /\ UNCHANGED <<volume, lastJid, saveDue, applyDue, pending, chan, job, load, stored>>

\* Mutant: the journal is queried after the MFT was read, not before.
BootLoadSeedsLate ==
  LET seed == IF diskCursor > NextUsn THEN diskCursor ELSE NextUsn
  IN /\ up = "boot"
     /\ up' = "up" /\ tier' = "Warm" /\ body' = 1..(base + preRead)
     /\ saves' = saves \cup {1..(base + preRead)}
     /\ diskCursor' = seed /\ cursor' = seed
     /\ preRead' = 0
     /\ UNCHANGED <<volume, lastJid, saveDue, applyDue, pending, chan, job, load, disk>>

\* ... and full_rebuild reads the live MFT and seeds the persisted cursor.
BootLoad ==
  LET seed == IF diskCursor > preRead THEN diskCursor ELSE preRead
  IN /\ up = "boot"
     /\ up' = "up" /\ tier' = "Warm" /\ body' = LiveRead
     /\ saves' = saves \cup {LiveRead}
     /\ diskCursor' = seed /\ cursor' = seed
     /\ preRead' = 0
     /\ UNCHANGED <<volume, lastJid, saveDue, applyDue, pending, chan, job, load, disk>>

-----------------------------------------------------------------------------
Volume == Write \/ Trim \/ Recreate \/ CacheLost
Fire == PollTick("save") \/ PollTick("apply")
Loop == PollWrapped \/ PollTick("none") \/ Fire
Applier == TakeSave \/ TakeApply \/ TakeWrap \/ TakeWrapFails \/ Swap \/ Persist
Writers == \E b \in saves : SaveDone(b) \/ SaveFails(b)
Tiering == Demote \/ PromoteLoad \/ PromoteFallback \/ PromoteSwap
Boot == BootQuery \/ BootLoad

Next == Volume \/ Loop \/ Applier \/ Writers \/ Tiering \/ Crash \/ Boot

Spec == Init /\ [][Next]_vars

\* The loop's timer always ticks and its save age and apply cap always elapse;
\* the applier drains its channel; a promotion and a boot that started finish.
Fairness ==
  /\ WF_vars(PollWrapped) /\ WF_vars(Fire) /\ WF_vars(PollTick("none"))
  /\ WF_vars(Applier)
  /\ WF_vars(Writers)
  /\ WF_vars(PromoteSwap)
  /\ WF_vars(Boot)

FairSpec == Spec /\ Fairness

-----------------------------------------------------------------------------
(* Properties.                                                             *)

Changes == 1..MaxChanges
Usns == 0..MaxChanges
Messages == [kind : {"save", "apply", "wrap"}, changes : SUBSET Changes, cursor : Usns]

\* Types, and: a demoted drive serves no body, a promotion is under way only
\* for a demoted drive, and the readable window lies inside the journal.
TypeOK ==
  /\ head \in Usns /\ first \in base..head /\ base \in 0..head /\ jid \in Nat
  /\ up \in {"down", "boot", "up"} /\ preRead \in Usns
  /\ cursor \in Usns /\ lastJid \in 0..jid
  /\ saveDue \in BOOLEAN /\ applyDue \in BOOLEAN
  /\ pending \subseteq 1..head
  /\ chan \in Seq(Messages)
  /\ job \in [kind : {"none", "save", "apply", "wrap", "persist"}, cursor : Usns,
              body : SUBSET Changes]
  /\ tier \in {"Warm", "Parked"} /\ body \subseteq 1..head
  /\ tier = "Parked" => body = {}
  /\ load.some => tier = "Parked"
  /\ saves \subseteq SUBSET (1..head)
  /\ disk.changes \subseteq 1..head
  /\ diskCursor \in Usns

InFlight ==
  body \cup pending \cup job.body \cup UNION {chan[i].changes : i \in 1..Len(chan)}

WrapQueued == \E i \in 1..Len(chan) : chan[i].kind = "wrap"

\* Every change the loop has read past is in the served body or still on its
\* way to it (the sink's buffer, the applier's channel, the body being patched),
\* unless a full refresh is queued: accept, the two triggers, coalescing and
\* the off-lock patch and swap drop nothing.
NothingLost ==
  (tier = "Warm" /\ lastJid = jid /\ ~WrapQueued) => 1..(base + cursor) \subseteq InFlight

\* What the pipeline promises to searches: LiveIndex.
LI == INSTANCE LiveIndex WITH written <- head, visible <- body

\* While the drive stays Warm, accept / trigger_apply / trigger_save / the
\* applier publish the changes in order, without holes, and all of them.
ImplementsLiveIndex == LI!Spec

\* A Warm drive always catches up with its volume again, also over journal
\* recreations, which journal_wrapped turns into a full refresh
\* (index/journal.rs: "the per-shard drift is bounded by the per-shard save
\* cadence").
DriftIsBounded == []<>(tier = "Parked" \/ LiveRead \subseteq body)

\* A search that follows another one sees no less: while the drive stays
\* resident, the bodies that save, apply and refresh prepare off-lock and swap
\* in later never lack a change the replaced body had.
ServedBodyGrows == [][tier = "Warm" /\ tier' = "Warm" => body \subseteq body']_vars

\* full_rebuild: the cursor the loop starts from is a lower bound of what the
\* rebuilt body reflects, so the loop re-applies the rest "with no gap", as long
\* as the volume keeps its journal.
RebuildHasNoGap ==
  [][up = "boot" /\ up' = "up" /\ jid = 1 => 1..(base + cursor') \subseteq body']_vars

\* Within one journal the persisted cursor never moves back: the applier stores
\* the cursors in the order of the save ticks, and a restarted loop resumes at
\* or after the stored one, unless the journal was trimmed.
CursorMonotone == [][jid' = 1 /\ first' = 0 => diskCursor' >= diskCursor]_vars

\* PatchSink::trigger_save: the cursor is persisted "only when that body save
\* actually succeeds - so the persisted cursor never outruns the persisted
\* body"; here granting the writers in flight the time to finish.
CursorNeverOutrunsBody ==
  saves = {} /\ disk.some => 1..(base + diskCursor) \subseteq disk.changes

\* guarded_load: on the fast path "the compact cache is at least as fresh as
\* that cursor", so replaying from it restores every change.
FastPathFresh ==
  [][up = "down" /\ up' = "up" => 1..(base + cursor') \subseteq body']_vars

\* WindowsJournalSource::poll: a cursor that predates the journal comes back as
\* 0 "so the loop seeds from the new head".
LoopReseeds == (base + cursor < first) ~> (base + cursor >= first)

\* The loops reset the persisted cursor on wrap: once the loop has seen the new
\* journal, the persisted cursor is no USN beyond its end.
WrapResetSticks == up = "up" /\ lastJid = jid => diskCursor <= NextUsn

=============================================================================
