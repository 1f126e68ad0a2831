--------------------------- MODULE SnapshotLease ---------------------------
(***************************************************************************)
(* The Snapshot Manager of the Access Broker: leases on VSS snapshots, kept *)
(* in memory behind one mutex (SnapshotLeaseManager), and the provider      *)
(* behind them (WindowsVssProvider), which starts one uffs-vss-requestor    *)
(* helper process per snapshot, talks to it over a private pipe and kills   *)
(* it by closing its Job Object.  A snapshot lives exactly as long as its   *)
(* helper holds it.                                                         *)
(*                                                                          *)
(* Every connection is a thread that serves one request; a further thread   *)
(* sweeps expired leases.  The mutex is held while a snapshot is deleted,   *)
(* that is, while the thread waits for the helper's answer.                 *)
(***************************************************************************)
EXTENDS Naturals, FiniteSets

CONSTANTS
  Workers,     \* connection threads
  Sweeper,     \* the background sweep thread
  NoThread,    \* the mutex is free
  MaxSnaps,    \* snapshots created in one behaviour (bound)
  MaxTime,     \* clock readings (bound)
  MaxCrashes,  \* Broker crashes (bound)
  Faults       \* what may go wrong in this instance

ASSUME LeaseBounds ==
  MaxSnaps \in Nat \ {0} /\ MaxTime \in Nat \ {0} /\ MaxCrashes \in Nat
ASSUME LeaseThreads == Sweeper \notin Workers /\ NoThread \notin Workers \cup {Sweeper}
ASSUME LeaseFaults == Faults \subseteq {"createFails", "helperDies", "diesEarly", "readFails"}

Threads == Workers \cup {Sweeper}
Ids == 1..MaxSnaps
Times == 0..MaxTime

VARIABLES
  now,        \* the clock
  lock,       \* holder of the `leases` mutex
  rec,        \* leases: id -> record
  nextLease,  \* next_lease_id
  session,    \* the provider's `sessions` map: snapshots with a live session
  spawned,    \* helpers started so far
  helper,     \* main thread of each helper process
  reading,    \* helpers whose reader thread waits for a command
  sent,       \* helpers to which Release was written
  pc,         \* control point of each thread
  job,        \* the request each thread serves
  cur,        \* the lease and
  snap,       \*   the snapshot it has at hand
  left,       \* what is left of its sweep
  crashes

manager == <<lock, rec, nextLease>>
helpers == <<spawned, helper, reading, sent>>
hand == <<cur, snap, left>>
vars == <<now, lock, rec, nextLease, session, spawned, helper, reading, sent, pc, job, cur, snap,
          left, crashes>>

NoRecord == [state |-> "none", snap |-> 0, expires |-> 0]
NoJob == [op |-> "none", lease |-> 0, at |-> 0, expires |-> 0]
Ops == {"none", "sweep", "create", "renew", "release", "query"}
HelperStates == {"none", "spawned", "starting", "waiting", "tearing", "writing", "gone", "lost"}
Points == {"idle", "sweepLock", "sweeping", "delTake", "delSend", "delRecv", "delOk", "delFailed",
           "releaseLock", "renewLock", "spawn", "connect", "ready", "assign", "insert"}

\* The snapshot exists: created by the helper and not yet let go.
Live(s) == helper[s] \in {"waiting", "tearing"}

Init ==
  /\ now = 0
  /\ lock = NoThread /\ rec = [l \in Ids |-> NoRecord] /\ nextLease = 1
  /\ session = {}
  /\ spawned = 0 /\ helper = [s \in Ids |-> "none"] /\ reading = {} /\ sent = {}
  /\ pc = [t \in Threads |-> "idle"] /\ job = [t \in Threads |-> NoJob]
  /\ cur = [t \in Threads |-> 0] /\ snap = [t \in Threads |-> 0]
  /\ left = [t \in Threads |-> {}]
  /\ crashes = 0

Goto(t, l) == pc' = [pc EXCEPT ![t] = l]
Take(t, l, s) == cur' = [cur EXCEPT ![t] = l] /\ snap' = [snap EXCEPT ![t] = s]
\* The request is answered; a thread that is done forgets it.
End(t) == Goto(t, "idle") /\ job' = [job EXCEPT ![t] = NoJob] /\ Take(t, 0, 0)

Marked(l, state) ==
  [rec EXCEPT ![l] = [state |-> state, snap |-> @.snap, expires |-> @.expires]]

\* The process is gone, and with it the snapshot it held.
Kill(s) ==
  /\ helper' = [helper EXCEPT ![s] = IF @ = "lost" THEN "lost" ELSE "gone"]
  /\ reading' = reading \ {s}
  /\ UNCHANGED <<spawned, sent>>

-----------------------------------------------------------------------------
(* Requests.                                                               *)

\* Mutant: the sweep thread reads the clock once, before its loop.
RequestClockOnce(t, op, l, e) ==
  /\ pc[t] = "idle"
  /\ (t = Sweeper) = (op = "sweep")
  /\ job' = [job EXCEPT ![t] =
       [op |-> op, lease |-> l, at |-> IF t = Sweeper THEN 0 ELSE now, expires |-> e]]
  /\ Goto(t, IF op = "release" THEN "releaseLock" ELSE "sweepLock")
  /\ UNCHANGED <<now, manager, session, helpers, hand, crashes>>

\* dispatch_request reads the clock before any lock is taken.  Every operation
\* but release begins with sweep_expired.
Request(t, op, l, e) ==
  /\ pc[t] = "idle"
  /\ (t = Sweeper) = (op = "sweep")
  /\ job' = [job EXCEPT ![t] =
       [op |-> op, lease |-> l, at |-> now, expires |-> e]]
  /\ Goto(t, IF op = "release" THEN "releaseLock" ELSE "sweepLock")
  /\ UNCHANGED <<now, manager, session, helpers, hand, crashes>>

SweepLock(t) ==
  /\ pc[t] = "sweepLock" /\ lock = NoThread
  /\ lock' = t
  /\ left' = [left EXCEPT ![t] =
       {l \in Ids : rec[l].state = "Active" /\ job[t].at >= rec[l].expires}]
  /\ Goto(t, "sweeping")
  /\ UNCHANGED <<now, rec, nextLease, session, helpers, job, cur, snap, crashes>>

\* The next record of the loop, in any order (a HashMap).
SweepNext(t) ==
  /\ pc[t] = "sweeping"
  /\ \E l \in left[t] :
       /\ Take(t, l, rec[l].snap)
       /\ left' = [left EXCEPT ![t] = @ \ {l}]
  /\ Goto(t, "delTake")
  /\ UNCHANGED <<now, manager, session, helpers, job, crashes>>

\* The end of the loop frees the mutex.  query_lease and
\* device_identity_if_active take it again only to read.
SweepEnd(t) ==
  /\ pc[t] = "sweeping" /\ left[t] = {}
  /\ lock' = NoThread
  /\ \/ job[t].op = "create" /\ Goto(t, "spawn") /\ UNCHANGED <<job, cur, snap>>
     \/ job[t].op = "renew" /\ Goto(t, "renewLock") /\ UNCHANGED <<job, cur, snap>>
     \/ job[t].op \in {"query", "sweep"} /\ End(t)
  /\ UNCHANGED <<now, rec, nextLease, session, helpers, left, crashes>>

Renewed(t) ==
  [rec EXCEPT ![job[t].lease] =
    [state |-> @.state, snap |-> @.snap, expires |-> job[t].expires]]

\* Mutant: a renewal does not look at the state of the lease.
RenewLeaseAny(t) ==
  /\ pc[t] = "renewLock" /\ lock = NoThread
  /\ rec' = Renewed(t)
  /\ End(t)
  /\ UNCHANGED <<now, lock, nextLease, session, helpers, left, crashes>>

RenewLease(t) ==
  /\ pc[t] = "renewLock" /\ lock = NoThread
  /\ rec' = IF rec[job[t].lease].state = "Active" THEN Renewed(t) ELSE rec
  /\ End(t)
  /\ UNCHANGED <<now, lock, nextLease, session, helpers, left, crashes>>

\* Mutant: the mutex is dropped before the snapshot is deleted.
ReleaseLeaseUnlocked(t) ==
  /\ pc[t] = "releaseLock" /\ lock = NoThread
  /\ rec[job[t].lease].state = "Active"
  /\ Take(t, job[t].lease, rec[job[t].lease].snap)
  /\ Goto(t, "delTake")
  /\ UNCHANGED <<now, manager, session, helpers, job, left, crashes>>

\* release_lease: an unknown or finished lease is answered at once.
ReleaseLease(t) ==
  /\ pc[t] = "releaseLock" /\ lock = NoThread
  /\ \/ /\ rec[job[t].lease].state = "Active"
        /\ lock' = t
        /\ Take(t, job[t].lease, rec[job[t].lease].snap)
        /\ Goto(t, "delTake")
        /\ UNCHANGED job
     \/ /\ rec[job[t].lease].state # "Active"
        /\ End(t)
        /\ UNCHANGED lock
  /\ UNCHANGED <<now, rec, nextLease, session, helpers, left, crashes>>

-----------------------------------------------------------------------------
(* WindowsVssProvider::delete_snapshot, called with the mutex held.        *)

DelTake(t) ==
  /\ pc[t] = "delTake"
  /\ session' = session \ {snap[t]}
  /\ Goto(t, IF snap[t] \in session THEN "delSend" ELSE "delFailed")
  /\ UNCHANGED <<now, manager, helpers, job, hand, crashes>>

\* Writing to the pipe of a helper that has died fails.
DelSend(t) ==
  /\ pc[t] = "delSend"
  /\ IF helper[snap[t]] = "gone"
     THEN Goto(t, "delFailed") /\ UNCHANGED sent
     ELSE Goto(t, "delRecv") /\ sent' = sent \cup {snap[t]}
  /\ UNCHANGED <<now, manager, session, spawned, helper, reading, job, hand, crashes>>

\* `Released` and end of file both count as success.
DelRecv(t) ==
  /\ pc[t] = "delRecv" /\ helper[snap[t]] = "gone"
  /\ Goto(t, "delOk")
  /\ UNCHANGED <<now, manager, session, helpers, job, hand, crashes>>

\* Mutant: the session outlives an answer that cannot be read.
DelRecvKeepsHelper(t) ==
  /\ pc[t] = "delRecv" /\ "readFails" \in Faults
  /\ Goto(t, "delFailed")
  /\ UNCHANGED <<now, manager, session, helpers, job, hand, crashes>>

\* The answer cannot be read: the session is dropped all the same, and the Job
\* Object kills the helper.
DelRecvFails(t) ==
  /\ pc[t] = "delRecv" /\ "readFails" \in Faults
  /\ Kill(snap[t])
  /\ Goto(t, "delFailed")
  /\ UNCHANGED <<now, manager, session, job, hand, crashes>>

\* The caller of delete_snapshot goes on: the sweep ignores a failure, release
\* passes it on and leaves the lease Active.
DelEnd(t) ==
  /\ pc[t] \in {"delOk", "delFailed"}
  /\ \/ /\ job[t].op # "release"
        /\ rec' = Marked(cur[t], "Expired")
        /\ Goto(t, "sweeping") /\ Take(t, 0, 0)
        /\ UNCHANGED <<lock, job>>
     \/ /\ job[t].op = "release"
        /\ rec' = IF pc[t] = "delOk" THEN Marked(cur[t], "Released") ELSE rec
        /\ lock' = NoThread
        /\ End(t)
  /\ UNCHANGED <<now, nextLease, session, helpers, left, crashes>>

-----------------------------------------------------------------------------
(* create_lease after its sweep; create_snapshot runs without the mutex.   *)

Spawn(t) ==
  /\ pc[t] = "spawn" /\ spawned < MaxSnaps
  /\ spawned' = spawned + 1
  /\ helper' = [helper EXCEPT ![spawned'] = "spawned"]
  /\ Take(t, 0, spawned')
  /\ Goto(t, "connect")
  /\ UNCHANGED <<now, manager, session, reading, sent, job, left, crashes>>

\* ConnectNamedPipe has no timeout: it waits for ever for a helper that ends
\* before it connects.
Connect(t) ==
  /\ pc[t] = "connect" /\ helper[snap[t]] \notin {"spawned", "lost"}
  /\ Goto(t, "ready")
  /\ UNCHANGED <<now, manager, session, helpers, job, hand, crashes>>

\* Mutant: a helper that is slow is given up and not killed.
AwaitReadyGivesUp(t) ==
  /\ pc[t] = "ready"
  /\ \/ /\ helper[snap[t]] = "waiting"
        /\ session' = session \cup {snap[t]}
        /\ Goto(t, "assign")
        /\ UNCHANGED <<job, cur, snap>>
     \/ /\ helper[snap[t]] # "waiting"
        /\ End(t)
        /\ UNCHANGED session
  /\ UNCHANGED <<now, manager, helpers, left, crashes>>

\* wait_for_helper_ready and finish_create_snapshot: `Ready` registers the
\* session; `Failed` and end of file drop the PendingSpawn.
AwaitReady(t) ==
  /\ pc[t] = "ready"
  /\ \/ /\ helper[snap[t]] = "waiting"
        /\ session' = session \cup {snap[t]}
        /\ Goto(t, "assign")
        /\ UNCHANGED <<job, cur, snap>>
     \/ /\ helper[snap[t]] = "gone"
        /\ End(t)
        /\ UNCHANGED session
  /\ UNCHANGED <<now, manager, helpers, left, crashes>>

\* next_lease_id.fetch_add
Assign(t) ==
  /\ pc[t] = "assign" /\ nextLease <= MaxSnaps
  /\ nextLease' = nextLease + 1
  /\ Take(t, nextLease, snap[t])
  /\ Goto(t, "insert")
  /\ UNCHANGED <<now, lock, rec, session, helpers, job, left, crashes>>

\* The expiry counts from the time at which the request was dispatched.
Insert(t) ==
  /\ pc[t] = "insert" /\ lock = NoThread
  /\ rec' = [rec EXCEPT ![cur[t]] =
       [state |-> "Active", snap |-> snap[t], expires |-> job[t].expires]]
  /\ End(t)
  /\ UNCHANGED <<now, lock, nextLease, session, helpers, left, crashes>>

-----------------------------------------------------------------------------
(* uffs-vss-requestor.                                                     *)

HelperConnect(s) ==
  /\ helper[s] = "spawned"
  /\ helper' = [helper EXCEPT ![s] = "starting"]
  /\ UNCHANGED <<now, manager, session, spawned, reading, sent, pc, job, hand, crashes>>

\* create_snapshot_with_retry, then Ready and the reader thread, or Failed and
\* the end of the process.
HelperReady(s) ==
  /\ helper[s] = "starting"
  /\ \/ helper' = [helper EXCEPT ![s] = "waiting"] /\ reading' = reading \cup {s}
     \/ /\ "createFails" \in Faults
        /\ helper' = [helper EXCEPT ![s] = "gone"] /\ UNCHANGED reading
  /\ UNCHANGED <<now, manager, session, spawned, sent, pc, job, hand, crashes>>

\* Mutant: the reader thread goes on reading.
HelperReadOn(s) ==
  /\ helper[s] = "waiting" /\ s \in reading /\ s \in sent
  /\ helper' = [helper EXCEPT ![s] = "tearing"]
  /\ UNCHANGED <<now, manager, session, spawned, reading, sent, pc, job, hand, crashes>>

\* The reader thread passes Release on and stops, so that no read is pending on
\* the pipe when the main thread answers.
HelperRead(s) ==
  /\ helper[s] = "waiting" /\ s \in reading /\ s \in sent
  /\ helper' = [helper EXCEPT ![s] = "tearing"]
  /\ reading' = reading \ {s}
  /\ UNCHANGED <<now, manager, session, spawned, sent, pc, job, hand, crashes>>

\* Dropping the VssSnapshotSession deletes the snapshot.
HelperDrop(s) ==
  /\ helper[s] = "tearing"
  /\ helper' = [helper EXCEPT ![s] = "writing"]
  /\ UNCHANGED <<now, manager, session, spawned, reading, sent, pc, job, hand, crashes>>

\* Windows serialises the synchronous I/O on the handles of one pipe: the write
\* of `Released` waits for a pending read.
HelperWrite(s) ==
  /\ helper[s] = "writing" /\ s \notin reading
  /\ helper' = [helper EXCEPT ![s] = "gone"]
  /\ UNCHANGED <<now, manager, session, spawned, reading, sent, pc, job, hand, crashes>>

\* A helper dies by itself, before or after it has connected.
HelperDies(s) ==
  /\ \/ "helperDies" \in Faults /\ helper[s] \in {"starting", "waiting", "tearing", "writing"}
        /\ Kill(s)
     \/ /\ "diesEarly" \in Faults /\ helper[s] = "spawned"
        /\ helper' = [helper EXCEPT ![s] = "lost"]
        /\ UNCHANGED <<spawned, reading, sent>>
  /\ UNCHANGED <<now, manager, session, pc, job, hand, crashes>>

-----------------------------------------------------------------------------
Tick ==
  /\ now < MaxTime /\ now' = now + 1
  /\ UNCHANGED <<manager, session, helpers, pc, job, hand, crashes>>

\* The Broker dies: the Job Objects close, every helper is killed and nothing
\* is left of the leases; reconcile_at_startup finds no snapshot.
Crash ==
  /\ crashes < MaxCrashes /\ crashes' = crashes + 1
  /\ lock' = NoThread /\ rec' = [l \in Ids |-> NoRecord] /\ nextLease' = 1
  /\ session' = {}
  /\ helper' = [s \in Ids |-> IF helper[s] = "none" THEN "none" ELSE "gone"]
  /\ reading' = {} /\ UNCHANGED <<spawned, sent>>
  /\ pc' = [t \in Threads |-> "idle"] /\ job' = [t \in Threads |-> NoJob]
  /\ cur' = [t \in Threads |-> 0] /\ snap' = [t \in Threads |-> 0]
  /\ left' = [t \in Threads |-> {}]
  /\ UNCHANGED now

Step(t) ==
  \/ SweepLock(t) \/ SweepNext(t) \/ SweepEnd(t)
  \/ RenewLease(t) \/ ReleaseLease(t)
  \/ DelTake(t) \/ DelSend(t) \/ DelRecv(t) \/ DelEnd(t)
  \/ Spawn(t) \/ Connect(t) \/ AwaitReady(t) \/ Assign(t) \/ Insert(t)
HelperStep(s) ==
  HelperConnect(s) \/ HelperReady(s) \/ HelperRead(s) \/ HelperDrop(s) \/ HelperWrite(s)

Next ==
  \/ \E t \in Workers, l \in Ids, e \in Times :
       \/ e >= now /\ Request(t, "create", 0, e)
       \/ Request(t, "renew", l, e)
       \/ Request(t, "release", l, 0)
       \/ Request(t, "query", 0, 0)
  \/ Request(Sweeper, "sweep", 0, 0)
  \/ \E t \in Threads : Step(t) \/ DelRecvFails(t)
  \/ \E s \in Ids : HelperStep(s) \/ HelperDies(s)
  \/ Tick \/ Crash

Spec == Init /\ [][Next]_vars

\* Threads run, a mutex that is free again and again is obtained, the sweep
\* thread loops, helpers run, time passes.
FairSpec ==
  /\ Spec
  /\ \A t \in Threads : SF_vars(Step(t))
  /\ \A s \in Ids : WF_vars(HelperStep(s))
  /\ WF_vars(Request(Sweeper, "sweep", 0, 0)) /\ WF_vars(Tick)

-----------------------------------------------------------------------------
(* Properties.                                                             *)

Records == [state : {"none", "Active", "Expired", "Released"}, snap : 0..MaxSnaps,
            expires : Times]
Jobs == [op : Ops, lease : 0..MaxSnaps, at : Times, expires : Times]
Deleting == {"sweeping", "delTake", "delSend", "delRecv", "delOk", "delFailed"}

\* Types, and: the mutex is held by exactly the thread that sweeps or deletes.
TypeOK ==
  /\ now \in Times /\ lock \in Threads \cup {NoThread}
  /\ rec \in [Ids -> Records]
  /\ nextLease \in 1..(MaxSnaps + 1)
  /\ session \subseteq Ids /\ spawned \in 0..MaxSnaps
  /\ helper \in [Ids -> HelperStates] /\ reading \subseteq Ids /\ sent \subseteq Ids
  /\ pc \in [Threads -> Points]
  /\ job \in [Threads -> Jobs]
  /\ cur \in [Threads -> 0..MaxSnaps] /\ snap \in [Threads -> 0..MaxSnaps]
  /\ left \in [Threads -> SUBSET Ids]
  /\ crashes \in 0..MaxCrashes
  /\ \A t \in Threads : pc[t] \in Deleting <=> lock = t

\* sweep_expired ignores a failed delete, release_lease and delete_snapshot drop
\* the session in any case: a lease that reads Expired or Released has no
\* snapshot left behind.
TerminalIsGone ==
  \A l \in Ids : rec[l].state \in {"Expired", "Released"} => ~Live(rec[l].snap)

\* No snapshot is leaked: one that exists is being created, or is leased and
\* Active, or is being deleted.
NoOrphans ==
  \A s \in Ids : Live(s) =>
    \/ \E t \in Threads : pc[t] \in {"ready", "assign", "insert", "connect"} /\ snap[t] = s
    \/ \E l \in Ids : rec[l].state = "Active" /\ rec[l].snap = s

\* RecordState: a lease that has expired or was released never changes again,
\* whatever renewals and releases still name it, until the Broker is restarted.
TerminalIsFinal ==
  [][\A l \in Ids : rec[l].state \in {"Expired", "Released"} =>
       rec'[l] = rec[l] \/ crashes' # crashes]_vars

\* RecordState::Active, "Snapshot is retained; the lease has not reached its
\* expiry".
ActiveIsRetained == \A l \in Ids : rec[l].state = "Active" => Live(rec[l].snap)

\* The mutex is held while a helper is asked to delete its snapshot, but no
\* helper, alive or dead, keeps it for ever.
LockIsFreed == \A t \in Threads : lock = t ~> lock # t

\* Every snapshot is deleted in the end: by release, by a sweep once its lease
\* has expired (also if nobody asks for it again, or its Create answer was
\* lost), or with the Broker.
SnapshotsAreFreed == \A s \in Ids : Live(s) ~> ~Live(s)

=============================================================================
