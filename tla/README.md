# UFFS in TLA+

UltraFastFileSearch (UFFS) indexes NTFS volumes by reading the Master File Table
and keeps the index current from the USN change journal. A resident daemon holds
one *shard* per drive, moves shards between memory tiers, patches them from the
journal and answers searches and aggregations. Beside it run an elevated Access
Broker, which leases volume snapshots, and an updater, which replaces the installed
binaries.

This directory models the parts where several tasks or processes share state, or
where a crash may fall between two steps, and the algorithm that patches an index.
`PROJECT.json` lists, for every definition, the source lines it stands for.

## 1. Inventory

| part | state | operations | interacts with | hard behaviour |
|---|---|---|---|---|
| Shard registry (`uffs-daemon/src/cache/registry.rs`, `shard.rs`) | immutable registry behind an `RwLock<Arc<_>>`; per drive a tier, a pin and shared stats | demote, promote, replace, remove: each builds a new registry | everything below | decisions taken under the read lock, applied later under the write lock |
| Idle controller (`index/transitions.rs`, `cache/policy.rs`) | none of its own | `demote_idle_shards` every 30 s | registry, pins, `min_tier` | stale plan |
| Pressure cascade (`cache/pressure.rs`, `lib.rs`) | watch channel | signal, observe, pick, demote | registry, pins | edge-triggered signal, lost race |
| Search dispatch (`index/dispatch.rs`, `search.rs`) | in-flight load per letter | plan, join or start a load, swap, snapshot, record | registry, body loader | cancelled awaiters, late loads |
| Operators (`index/tiering_ops.rs`, `forget_drive.rs`) | none of their own | preload, hibernate, forget | registry, loads | Arcs and plans that outlive the registry they came from |
| Refresh and hot load (`index/refresh.rs`, `hotload.rs`, `loading.rs`) | none of their own | re-read off-lock, replace | registry | re-registration after forget, duplicates |
| Journal loop (`cache/journal_loop*`) | cursor, journal id, two cadence triggers | poll, wrap, fire save or apply | sink, cursor store | trimmed or recreated journal |
| Sink, applier, handlers (`cache/journal_sink.rs`, `index/journal.rs`) | buffer, channel | coalesce, patch off-lock, swap, save, store cursor | registry, compact cache | cursor against body on disk, demotion during a patch |
| Warm-load guard (`cache/guarded_load.rs`, `body_loader.rs`, `cursor_store.rs`) | cursor file | choose fast path or rebuild, seed cursor | compact cache, journal | crash between two writes |
| Compact cache (`uffs-core/src/compact_cache.rs`) | file per drive | background write, load, quarantine | guard, applier | failed and reordered writers |
| Aggregate cache (`uffs-core/src/aggregate/cache.rs`) | version, entries | set version, get, put | registry writers | two lock scopes per operation |
| Compact patch, USN aggregation (`uffs-core/src/compact*`, `trigram.rs`, `uffs-mft/src/usn`) | record columns, base indexes, overlay | net change per record, patch, overlay, compaction, three searches | applier | batches in any order, record reuse, pruned trigrams, subtree walk |
| Daemon lifecycle, IPC (`lifecycle.rs`, `shutdown.rs`, `ipc.rs`) | PID file, timers, connections | start, keepalive, drain, stop | clients | shutdown against requests |
| Client (`uffs-client`) | connection | connect, auto-start, retry | daemon | racing spawns |
| Broker (`uffs-broker`, `uffs-vss-requestor`) | leases behind a mutex; one helper process per snapshot | create, renew, release, query, sweep | readers of snapshots | expiry against release, helper deaths, mutex held over a pipe answer |
| Updater (`uffs-update`, `uffs --update`) | binaries, `.bak` files, journal, services | apply, recover, doctor | all binaries | kill between any two renames and saves |
| Watchdog (`uffs-watchdog`) | child state | restart | supervised processes | back-off |
| MFT reader, query engine, CLI, MCP, formatting, bench, diagnostics | data only | - | - | no shared protocol state |

## 2. Modules

* **ShardTiers** - the registry and every task that rebuilds it. Each
  orchestration of the code is two actions, detect under the read lock and apply
  under the write lock, so any other task may run in between. `tier`, `pin` and
  `idle` are the entry's tier, the time left of `pin_until_ms` and the time since
  `last_query_at_ms`; the other variables are what a task remembers between its
  two halves. `Actors` selects the tasks of an instance; `MCShardTiers` gives the
  constants their values.
* **JournalPipeline** - one drive, from the volume's journal to the body searches
  see and the files on disk. Changes are numbered; a body is the set of changes
  it reflects; a USN counts changes since the journal was created. `Faults`
  selects what may go wrong.
* **LiveIndex** - what that pipeline promises a search: written changes become
  visible in order, without holes, and eventually all of them. `JournalPipeline`
  implements it with `written <- head, visible <- body`.
* **AggregateCache** - the result cache against registry writers. `get`, `put`
  and `set_index_version` take the version lock and the entries lock one after
  the other, hence two actions each. An output is the registry generation it was
  computed from.
* **CompactIndex** - `DriveCompactIndex` and `apply_usn_patch` as operators on a
  body: records, FRS map, base indexes (as the records they were built from),
  overlay. `OrderParentFirst`, `ApplyCreate`, `ApplyRename`, `ApplyDelete`,
  `ApplyIndexDelta` and the two path-length passes follow the functions of those
  names; `TrigramSearch`, `ForEachChild` and `RecordsWithExt` are the reads every
  query goes through; `BuildCompactIndex` is the cold build.
* **UsnPatch** - a volume that changes, polls that cut its journal anywhere,
  `AggregateChanges` (per file, in the hash map's arbitrary order), the targeted
  reads, apply and save ticks that patch everything buffered, and a body read
  afresh while changes are buffered. `MCUsnPatch` gives the instance.
* **SnapshotLease** - the lease manager of the Broker: connection threads and the
  sweep thread around one mutex, the provider's sessions, and the main and reader
  thread of each `uffs-vss-requestor` process with the pipe between them.
* **SelfUpdate** - the installation's files and services and the processes of
  `uffs-update`. Every rename, removal and journal save is one step; `Crash` may
  fall between any two; `Faults` selects the I/O errors. `MCSelfUpdate` gives the
  instance.
* **ShardTiersProofs**, **AggregateCacheProofs**, **JournalPipelineProofs**,
  **SnapshotLeaseProofs**, **SelfUpdateInv**, **SelfUpdateProofs**, **FoldFacts**,
  **UsnPatchProofs** - theorems and their proofs.

Definitions whose comment begins with "Mutant" are not part of a specification:
each is a plausible slip in the operation defined after it, and shows that the
property named in `PROJECT.json` would notice it.

Modelling decisions:

* Time is relative in ShardTiers: `Tick` ages the idle clocks and shortens the
  pins, so long runs have finitely many states. A controller pass sees one `now`.
* The adaptive TTLs (`hot_ttl`, `warm_ttl`, `parked_ttl`) are the constant
  `Thresholds`: any threshold the formulas may yield. The formulas are not modelled.
* The journal loop's thresholds, debounce and ages decide *when* a cadence fires;
  the model lets it fire on any tick on which its trigger has events.
* A poll from beyond the end of the journal reads nothing or fails, and the loop
  polls again from the same place.
* The background cache writers are a set of bodies, each of which is written or
  fails in any order. A patch is idempotent, so applying a change twice is once.
* In CompactIndex a name is a value with a length, an extension and a set of
  trigrams, and a needle is a set of trigrams; the substring check that follows
  the candidate search is not modelled. Sizes and times, hard links, alternate
  streams, the names buffer, the Bloom filter and the path trie are left out.
  Saturation of `path_len` at 65535 is out of reach of the instance.
* A subtree walk that meets a cycle of parents never ends in the code; the model
  marks the body `stuck`, and no further patch runs.
* In SnapshotLease a snapshot exists from the helper's `Ready` until its session
  object is dropped or its process ends. Pings and log lines are left out.
* In SelfUpdate the version of an image stands for its contents. The per-binary
  statuses and the event trail of the journal are written and read by nobody. A
  pid is not reused while a journal names it.
* `bump_index_version` is left out of ShardTiers; AggregateCache models it.

## 3. Runs

Passing runs:

| run | question | instance |
|---|---|---|
| TiersControllers | pins only on Hot entries; the idle controller keeps `min_tier`; stale plans only lower | 1 drive with a floor, 1 search, 1 preload or forget; idle, pressure, preload, query, hibernate, forget, reload |
| TiersLoads | one load per letter; late loads only raise; searches get past promotion; slots are freed | 1 drive, 2 searches, 1 preload, hibernate, cancellation |
| TiersIdleLive | types; an unsearched drive is parked; cascades end | 2 drives, idle, pressure, journal |
| JournalLive | nothing lost; the pipeline implements LiveIndex; a resident drive never un-sees a change | 3 changes, 2 journals, failing saves |
| JournalFaults | types; a rebuild's cursor is a lower bound of its body; the persisted cursor does not move back | 2 changes, 2 journals, all eight faults |
| AggCache | versions not reused; stale entries leave | 2 writers, 2 requests, 2 generations |
| UsnBatches | types; the body shows the volume; patches end; the three searches are complete or exact; path lengths are those of a full pass | 3 file records, 2 names, 3 changes on the volume, 1 failed read or re-read; compaction after 4 overlay entries, full pass above 2 changes |
| LeaseSweeps | types; finished leases have no snapshot and stay finished; no snapshot leaks; the mutex is freed; snapshots are freed | 1 connection, the sweep thread, 2 snapshots, 1 Broker crash, all helper faults |
| UpdateCrashes | types; no binary lost; originals kept until the commit point; all or nothing; services come back, on consistent binaries; swaps only while stopped; interrupted updates are finished | 2 binaries in 2 roots, 2 releases after the installed one, one updater process at a time, 2 kills or errors, all faults |

Bounds. Every race here is between two halves of one task and a step of another,
on one drive or on two when a task chooses between drives (cascade, floor). Two
searches are what sharing and cancelling a load takes; two changes put one on each
side of a cursor and three also fill a run of applies followed by another message;
two journals give one recreation. Thresholds and pins of one tick suffice because
only elapsed-or-not matters. In UsnBatches three records are a directory, an entry
in it and one free record to create or reuse; three changes make a create in a new
directory, a move and a reuse of a record possible, and the thresholds are lowered
so that overlay, compaction, incremental and full pass all occur. Two binaries make
an update that is half done; two troubles allow a kill of the update and one of its
recovery. Two snapshots allow a sweep of one while the other is created. No
symmetry is used.

Deadlock is not checked in UsnBatches, PrunedTrigram and ReorderedPolls (the volume
may stop changing), in UpdateCrashes (no process needs to run) and in LeaseSweeps
(a connection whose helper ended before it connected waits for ever in
`ConnectNamedPipe`, and the bounds stop the others).

Exceptions in the statements. JournalFaults' two action properties speak of the
volume's first journal. UsnBatches excepts, by the history variable `seen`, batches
in which `order_parent_first` swaps two changes of one file (that is ReorderedPolls)
and behaviours with a failed targeted read; PatchEnds also excepts bodies read
afresh while older changes are buffered, on which TLC builds a cycle of parents.
NameSearchComplete is about needles without a pruned trigram. In UpdateCrashes
`errors` records the I/O errors the rollback does not cover; OriginalsKept,
AllOrNothing and NoServiceOnMixedBinaries are stated without them, the others with;
NoBinaryLost excepts only an update that was begun over an interrupted one.

Runs that exhibit a disagreement between the code and a text of the repository
(quoted in `PROJECT.json`, "findings"):

| run | property | what the code does |
|---|---|---|
| CursorOutrunsBody | CursorNeverOutrunsBody | a save tick after an apply tick stores the cursor and no body |
| PrunedTrigram | PrunedTrigramsSkipped | a trigram pruned from the base gets a posting list of overlay records only, and the intersection drops the base's records |
| ReorderedPolls | ReceiveOrderKept | a create or rename waiting for its parent is overtaken by a later poll's change of the same file |

Further properties are stated in the modules and are in no run. TLC refuted each
of them once, on the instance given here (constants as in the passing runs
otherwise; MaxIdle, MaxPin and thresholds 1):

| property | instance | what the code does |
|---|---|---|
| PinBlocksDemotion | 1 drive, 1 preload; pressure, preload | a preload that pins the picked drive between the cascade's pick and its demote does not block it |
| PatchKeepsPin | 1 drive, 1 preload; preload, journal | a journal patch replaces a pinned Hot entry by an unpinned Warm one |
| FloorHolds | 2 drives; pressure | the cascade ignores `min_tier` |
| CascadeStopsWhenDrained | 2 drives; pressure, hibernate | losing the race for one drive ends the cascade early |
| SearchSeesLoadedDrives | 1 drive, 1 search; idle, query | a stale idle plan demotes the drive a search has just promoted, before its snapshot |
| ForgetEvictsOnlyCold | 1 drive, 1 search; hibernate, query, forget | forget without force evicts a drive a search has just promoted |
| FastPathFresh | 2 changes; crash | the cursor is stored before the background write has finished |
| DriftIsBounded (FairSpec) | 2 changes; demote | a change dropped while Parked can miss the promotion's read |
| RebuildHasNoGap without `jid = 1` | 2 changes, 2 journals; crash, recreateDown | after a recreation the rebuild keeps the larger, old cursor |
| WrapResetSticks | 2 changes, 2 journals; recreate | a save queued before a wrap overwrites the reset cursor |
| ServedBodyGrows | 2 changes; demote | a body patched from an older clone replaces a freshly promoted one until the next batch |
| HotDemotesWhenIdle (FairSpec) | 1 drive, 1 preload; idle, preload | Hot to Warm is no legal demotion, so an idle Hot drive stays Hot |
| LoopReseeds (FairSpec) | 2 changes, 1 journal; trim | a cursor before the first readable USN becomes 0, again before it |
| PutDropsStaleResults | 1 writer, 1 request, 1 generation | `put` stamps an old result with the new version |
| AbortedIsRolledBack | 1 process at a time, 1 trouble, 1 release; saveFails | a failed journal save in `apply_all` ends in Aborted without a rollback |
| NoBinaryLost | 3 processes, 2 at a time, 1 trouble, 1 release, no faults | two recoverers of one journal: one clears an image whose `.bak` the other has just renamed back |
| NoBinaryLost without its condition | 1 process at a time, 4 troubles, 2 releases; undoFails, applyOverPending, doctor | an update begun over one killed in mid-swap journals the missing binary as added; a recovery that fails, the doctor's sweep of the `.bak` and the next recovery then remove both copies |
| ActiveIsRetained | as LeaseSweeps | a release whose answer is lost leaves the lease Active and its snapshot gone |

The rows ServedBodyGrows and NoBinaryLost (with 2 at a time) say why their runs exclude demotion and a
second updater process. The ServedBodyGrows row contradicts no text of the repository.

All these traces are of the model. Each was read back against the mapped lines;
none was reproduced on a running system.

## 4. Fairness

ShardTiers, JournalPipeline and AggregateCache use weak fairness: Tokio polls every ready task; interval timers keep
ticking; `tokio::sync` locks are FIFO; a body load that started returns (it is
bounded file and volume I/O); the save age and the apply cap elapse. Nothing is
assumed of clients, operators, the volume or the pressure source. Repeated
cancellation of searches is not excluded.

SnapshotLease: every thread of the Broker has strong fairness on its step, because
the standard mutex it waits for is free again and again and the operating system
does not starve a waiter for ever; helpers and the clock have weak fairness, and the
sweep thread loops. Helpers may die at any point. Expiries are at most `MaxTime`, so
SnapshotsAreFreed speaks of leases that are not renewed for ever. SelfUpdate: a
process that is not killed goes on, and while a journal is live `uffs` is invoked
again, which spawns a recovery; the number of kills is bounded.

## 5. Proofs

`ShardTiersProofs` proves, for any drives, clients, operators, thresholds, floors
and actors satisfying the named assumptions of ShardTiers: `TypeCorrect`,
`PinsAreOnHotEntries`, `OneLoadPerDrive`, `IdleKeepsFloor`, `StalePlansLower` and
`LateLoadsRaise`. All rest on `Invariance`, the induction over every action for
`IInv`. The strengthening is needed because the properties speak of one half of a
task and depend on what its other half left behind: a pin is only on a Hot entry
because a preload that holds a *live* Arc holds that of a Hot entry; a load is
single because a slot, its running load and its awaiters agree; the idle
controller keeps the floor because the *plan* already respects it.

`AggregateCacheProofs` proves `BumpsInstallNewVersions` for any number of writers
and requests. Its invariant bounds every version in flight by the shared counter
and makes the versions of two writers distinct.

The SnapshotLease proofs hold for any number of connections, snapshots, clock
readings, crashes and any set of faults, from the named assumptions of SnapshotLease:
`TypeCorrect`, `FinishedLeasesAreGone`, `SnapshotsHaveOwners` and
`FinishedLeasesStay`. The inductive invariant `IInv` follows a
snapshot through its owners: the thread that creates it, the record of its lease,
the thread that deletes it under the mutex. It says that a lease and a snapshot
belong to one another only, that a snapshot which exists has a session or a thread
that waits for its helper, that the thread at `delOk` or `delFailed` has a
dead helper, and that a sweep's list holds Active records only. `TerminalIsGone` is
not inductive without it: marking a lease Expired after a *failed* delete is right
only because the session was taken, and the helper killed, before the failure.

`SelfUpdateProofs` proves `BinariesSurvive` (NoBinaryLost) for any plan, any finite
set of processes that run one at a time (`MaxAlive = 1`), any number of releases,
kills and I/O errors and any set of faults. NoBinaryLost is not inductive: whether a
rollback may remove an image, or a prune a `.bak`, depends on what the journal said
when it was last saved. `IInv` therefore says that the journal on disk, and the copy
in a running process, list as added only what was not installed before and are
committed only when every binary is in place; that the control points before the
commit point have not committed; that in a swap the only missing binary is the one
just renamed aside; and that an undo which clears an image still has its `.bak`.
These clauses fail once an update is begun over an interrupted one, hence the
condition.

The other safety properties of SelfUpdate follow from more invariants, each inductive
together with `IInv` and `TInv`. SelfUpdateInv has the steps that keep these two and the
first two below. The step lemmas take as hypotheses that a process starts alone (`StartsAlone`) and what
drop_broker leaves of a plan (`BrokerDropped`); SelfUpdateProofs proves both and has
the theorems:

* `TInv` gives `TypeCorrectUpdate` (TypeOK), for any number of
  concurrent processes. Beyond the types it says which work list fits which control
  point (`Fits`): what is left of a plan while swapping, of the services while
  stopping or starting, and never an empty one where the code takes its head.
  `RetainKeeps`, that the plan left by drop_broker is a sequence of binaries of the
  plan other than the broker's, is an induction over a recursive function; it is done
  as a least-counterexample argument (`Least`, from the well-foundedness of < on Nat),
  which needs no operator parameter.
* `OInv` (SelfUpdateInv) gives `RollbackIsPossible` (OriginalsKept),
  `EndsAreWhole` (AllOrNothing) and
  `ServicesStartOnWholeUpdates` (NoServiceOnMixedBinaries), as long as no error was
  met. `DiskOK` is what the journal on disk says of the binaries: before the commit
  point each replaced one is in place or aside (`Kept`), after it all planned ones are
  new, and only planned binaries have a `.bak`. `ProcOK` is what a process knows at
  each control point: a binary of the plan that is no longer ahead in the swap loop is
  new, one no longer ahead in a rollback or a prune has no `.bak`. A recovery has
  only the first half to start from, which is why the two are kept apart.
* `StopInv` (SelfUpdateInv) gives `SwapsFindServicesDown` (SwapsOnlyStopped): a
  daemon or broker that still runs is ahead in the list of quiesce or has no binary in
  the plan, with I/O errors and with or without elevation.
* `SInv` (SelfUpdateProofs) gives `ServicesComeBack` (NoServiceLeftDown): a live
  journal lists every service it owes a restart (`Owed`), and while a process restores
  them each is up, reported or still ahead. I/O errors are included, except that an
  update must not have been begun over an interrupted one.

All of these but `TypeCorrectUpdate` take `MaxAlive = 1`, as `BinariesSurvive` does:
`recover` leaves the journal of a living owner alone, but no lock keeps two applies, or
two recoveries of a dead owner's journal, apart, and they would rename the same files.

`JournalPipelineProofs` proves, for any number of changes and journals:

* with every fault possible, `TypeCorrect` (TypeOK), `RebuildsHaveNoGap`
  (RebuildHasNoGap) and `CursorsAscend` (CursorMonotone). `JInv` adds to the types that
  nothing buffered, queued, prepared, loaded or stored is ahead of the volume and that
  a daemon which is down or booting holds nothing of the drive. `Ascending` orders all
  cursors on their way to disk: the stored one, the applier's, those of the queued saves
  by position, the loop's;
* without demotion, `ServedBodiesGrow` (ServedBodyGrows). `Growing` says that the body
  the applier prepared off-lock contains the one it will replace;
* without demotion, crash and failed refreshes (`Lossless`; trims, recreated journals,
  failed saves and a lost cache remain), `NothingIsLost` (NothingLost) and
  `PublishesInOrder`: every step of the pipeline is a step of LiveIndex or leaves it
  alone. `Accounted` generalises NothingLost to a loop that has not polled yet and keeps
  the cursor inside the journal. `Ordered` says that body, job and the first n messages
  together are a prefix of the changes, for every n before a queued refresh; what is
  queued behind a refresh needs no condition, because the refresh reads everything.

The conditions are necessary: with one of the excluded faults TLC finds a
counterexample. A demotion drops the batch that is being patched, a failed refresh is
not repeated, and after a crash the fast path may load a cache older than its cursor
(run CursorOutrunsBody).

`UsnPatchProofs` proves `TypeCorrectPatch` (TypeOK), `NameSearchesComplete`
(NameSearchComplete) and `TreeAndExtSearchesExact` (TreeAndExtExact) for any finite set
of file records, any volume, any names with their trigrams and extensions and any
thresholds, from the assumptions IndexNames, IndexRoot and IndexTables of CompactIndex and
VolumeFiles of UsnPatch. There are no exceptions: failed targeted reads, changes applied
the wrong way round and bodies read afresh over buffered changes are included. The
invariant, `BodyOK`, has three parts:

* `Framed`: the map, the parents and the overlay name slots of the body, the base is no
  longer than the records, and a dead record has no parent (`Tidy`), which is why a tree
  walk that looks only at parents finds no deleted record;
* every live record is `Covered`: its base entry is its present name and parent and is not
  tombstoned, or the overlay lists it under its parent, its extension and every trigram of
  its name. This is the part that could go wrong in the code, because a rename
  tombstones the base entry first and adds the new postings later in the same batch;
* a body without an overlay is `Fresh`: its base is an image of its records, which
  is what the searches rely on when they skip the overlay.

A patch is a chain of loops over a batch, and a step of the model runs all of them. In
between, `ChangeInv` says of the record loop that a live record is queued for the overlay or
is as it was and not tombstoned, `Grown` that an overlay only gains postings, and `Relens`
that a pass over path lengths changes nothing else. The
loops are folds, and what a fold keeps is proved by induction once, in FoldFacts, for an
operator `Op` and a predicate `Inv` that are constants of that module; each loop is an
INSTANCE of it. So no theorem with an operator parameter has to be instantiated by a
prover. The induction itself is a least-counterexample argument (`Induct`).

Only model-checked:

* all liveness properties, thus the half of LiveIndex that says each change becomes visible
  and, of SelfUpdate, that an interrupted update is finished. The prover handles neither
  fairness nor ENABLED;
* FollowsVolume, PatchEnds and PathLensExact of UsnPatch. They compare the result of
  several loops with a function of the whole volume: the body with what the journal, the
  buffer and the parent-first order still owe it, and the lengths with those of a full pass
  over a tree whose depth is not bounded. Both need an induction over the tree and over
  the records not yet polled at once, for which no proof was found.

## 6. Plan

1. *DriveLoading*: startup fan-out, `add_drive`, duplicate registration, discovery.
2. *DaemonLifecycle* with client auto-start and watchdog; *IpcConnections*.
3. Composition of ShardTiers and JournalPipeline for one drive: pins and the Hot
   tier under live patching.
4. Hard links and the Bloom filter in CompactIndex.

## 7. Not modelled

MFT parsing and parallel volume I/O, the query engine and the aggregation
arithmetic, CLI, MCP bridge, output formatting, encryption, benchmarks and
diagnostics: sequential data processing or thin system-call wrappers without shared
protocol state. Together they are by far the larger part of the repository's lines.
Of the Broker, the brokering of volume handles and the identity checks of callers are
left out; of the updater, download, verification and WinGet delegation. The parts
named in the plan are not modelled yet.

Noticed while reading and outside every property:

* a needle all of whose trigrams are pruned gets no candidates (`trigram.rs:269`);
* a top-level entry created live has the root's slot as parent, one of a cold build
  has none, and their path lengths differ by two (`path_len.rs:164`);
* a journal record of a second hard link overwrites name and parent of the first
  (`usn/mod.rs:337`);
* a `.bak` left by a failed prune makes the next backup a no-op (`apply.rs:43`);
* two roots with the same binary share one staged file, which the first swap
  consumes (`orchestrate.rs:152`);
* recovery without the snapshot file fails on every invocation (`recover.rs:65`);
* lease ids start again at 1 when the Broker restarts (`snapshot_lease.rs:250`).
