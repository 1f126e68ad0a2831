------------------------ MODULE SnapshotLeaseProofs ------------------------
(***************************************************************************)
(* The inductive invariant of the Snapshot Manager, the steps that keep it,  *)
(* and the theorems that follow, for any number of connections, snapshots    *)
(* and crashes.                                                             *)
(***************************************************************************)
EXTENDS SnapshotLease, TLAPS

\* First-order steps; a step with arithmetic or with records and updates names SMT.
USE Zenon

Creating == {"connect", "ready", "assign", "insert"}
Named == {"delTake", "delSend", "delRecv", "delOk", "delFailed"}
Awaited == {"connect", "ready", "delSend", "delRecv"}
Starting == {"spawned", "starting"}
Held == {"waiting", "tearing", "writing", "gone"}

\* A thread inside delete_snapshot works on an Active lease and its snapshot,
\* which is out of the session map once it was taken and dead at the end.
DeleteInv ==
  \A t \in Threads : pc[t] \in Named =>
    /\ cur[t] \in Ids /\ snap[t] \in Ids
    /\ rec[cur[t]].state = "Active" /\ rec[cur[t]].snap = snap[t]
    /\ pc[t] # "delTake" => snap[t] \notin session
    /\ pc[t] \in {"delOk", "delFailed"} => ~Live(snap[t])

\* What is left of a sweep is Active; a release is not part of a sweep.
SweepInv ==
  \A t \in Threads :
    /\ pc[t] \notin Deleting \/ job[t].op = "release" => left[t] = {}
    /\ pc[t] \in {"sweepLock", "sweeping"} => job[t].op # "release"
    /\ \A l \in left[t] : rec[l].state = "Active" /\ (pc[t] \in Named => l # cur[t])

\* A snapshot that is being created belongs to nobody else.
CreateInv ==
  \A t \in Threads : pc[t] \in Creating =>
    /\ snap[t] \in Ids /\ helper[snap[t]] # "none"
    /\ pc[t] \in {"assign", "insert"} => helper[snap[t]] \in Held
    /\ \A l \in Ids : rec[l].state # "none" => rec[l].snap # snap[t]
    /\ \A u \in Threads \ {t} : pc[u] \in Creating => snap[u] # snap[t]

\* A lease id that was handed out is new.
InsertInv ==
  \A t \in Threads : pc[t] = "insert" =>
    /\ cur[t] \in Ids /\ cur[t] < nextLease /\ rec[cur[t]].state = "none"
    /\ \A u \in Threads \ {t} : pc[u] = "insert" => cur[u] # cur[t]

\* Leases have been handed out, each one with a snapshot of its own that was
\* made by its helper.
RecordInv ==
  \A l \in Ids : rec[l].state # "none" =>
    /\ l < nextLease
    /\ rec[l].snap \in Ids /\ helper[rec[l].snap] \in Held
    /\ \A k \in Ids \ {l} : rec[k].state # "none" => rec[k].snap # rec[l].snap

\* A snapshot that exists has a session, is awaited or is being deleted.
SessionInv ==
  \A s \in Ids :
    /\ helper[s] = "none" <=> s > spawned
    /\ Live(s) => \/ s \in session
                  \/ \E t \in Threads : pc[t] \in Awaited /\ snap[t] = s

\* A helper that is starting is awaited.
StartInv ==
  \A s \in Ids : helper[s] \in Starting =>
    \E t \in Threads : pc[t] \in {"connect", "ready"} /\ snap[t] = s

\* Requests name leases the protocol can name.
RequestInv ==
  \A t \in Threads : pc[t] \in {"releaseLock", "renewLock"} \/
                     (pc[t] \in {"sweepLock"} \cup Deleting /\ job[t].op \in {"renew", "release"})
                     => job[t].lease \in Ids

IInv ==
  /\ TypeOK /\ DeleteInv /\ SweepInv /\ CreateInv /\ InsertInv /\ RecordInv /\ SessionInv
  /\ StartInv /\ RequestInv /\ TerminalIsGone /\ NoOrphans

LEMMA Basics ==
  /\ NoThread \notin Threads /\ Workers \subseteq Threads /\ Sweeper \in Threads
  /\ 0 \in 0..MaxSnaps /\ Ids \subseteq 0..MaxSnaps /\ 0 \in Times
BY SMT, LeaseBounds, LeaseThreads DEF Threads, Ids, Times

LEMMA InitIInv == Init => IInv
<1> SUFFICES ASSUME Init PROVE IInv
  OBVIOUS
<1> USE Basics DEF Init, NoJob, NoRecord
<1>1. NoJob \in Jobs /\ NoRecord \in Records
  BY DEF Jobs, Records, Ops
<1>2. TypeOK
  BY SMT, <1>1, LeaseBounds DEF TypeOK, HelperStates, Points, Deleting
<1>3. DeleteInv /\ SweepInv /\ CreateInv /\ InsertInv /\ RecordInv
  BY DEF DeleteInv, SweepInv, CreateInv, InsertInv, RecordInv, Named, Deleting, Creating
<1>4. SessionInv /\ StartInv /\ RequestInv
  BY SMT DEF Ids, SessionInv, StartInv, Starting, RequestInv, Live, Deleting
<1>5. TerminalIsGone /\ NoOrphans
  BY DEF TerminalIsGone, NoOrphans, Live
<1> QED
  BY <1>2, <1>3, <1>4, <1>5 DEF IInv

-----------------------------------------------------------------------------
(* What keeps the existential conjuncts: their witnesses stay.             *)

LEMMA NoOrphansKept ==
  ASSUME NoOrphans,
         \A s \in Ids : Live(s)' => Live(s),
         \A u \in Threads : pc[u] \in Creating /\ helper'[snap[u]] \in {"waiting", "tearing"} =>
           pc'[u] \in Creating /\ snap'[u] = snap[u],
         \A l \in Ids : rec[l].state = "Active" /\ helper'[rec[l].snap] \in {"waiting", "tearing"} =>
           rec'[l].state = "Active" /\ rec'[l].snap = rec[l].snap
  PROVE  NoOrphans'
<1>1. SUFFICES ASSUME NEW s \in Ids, Live(s)'
      PROVE \/ \E t \in Threads : pc'[t] \in Creating /\ snap'[t] = s
            \/ \E l \in Ids : rec'[l].state = "Active" /\ rec'[l].snap = s
  BY DEF NoOrphans, Creating
<1>2. CASE \E t \in Threads : pc[t] \in Creating /\ snap[t] = s
  BY <1>1, <1>2 DEF Live
<1>3. CASE \E l \in Ids : rec[l].state = "Active" /\ rec[l].snap = s
  BY <1>1, <1>3 DEF Live
<1> QED
  BY <1>1, <1>2, <1>3 DEF NoOrphans, Creating

LEMMA SessionKept ==
  ASSUME SessionInv,
         spawned' = spawned,
         \A s \in Ids : (helper'[s] = "none" <=> helper[s] = "none") /\ (Live(s)' => Live(s)),
         \A s \in session : Live(s)' => s \in session',
         \A u \in Threads : pc[u] \in Awaited /\ helper'[snap[u]] \in {"waiting", "tearing"} =>
           snap[u] \in session' \/ (pc'[u] \in Awaited /\ snap'[u] = snap[u])
  PROVE  SessionInv'
<1>1. SUFFICES ASSUME NEW s \in Ids, Live(s)', s \notin session'
      PROVE  \E t \in Threads : pc'[t] \in Awaited /\ snap'[t] = s
  BY DEF SessionInv
<1>2. PICK t \in Threads : pc[t] \in Awaited /\ snap[t] = s
  BY <1>1 DEF SessionInv
<1> QED
  BY <1>1, <1>2 DEF Live

LEMMA StartKept ==
  ASSUME StartInv,
         \A s \in Ids : helper'[s] \in Starting => helper[s] \in Starting,
         \A u \in Threads : pc[u] \in {"connect", "ready"} =>
           \/ helper'[snap[u]] \notin Starting
           \/ pc'[u] \in {"connect", "ready"} /\ snap'[u] = snap[u]
  PROVE  StartInv'
<1>1. SUFFICES ASSUME NEW s \in Ids, helper'[s] \in Starting
      PROVE  \E t \in Threads : pc'[t] \in {"connect", "ready"} /\ snap'[t] = s
  BY DEF StartInv
<1>2. PICK t \in Threads : pc[t] \in {"connect", "ready"} /\ snap[t] = s
  BY <1>1 DEF StartInv
<1> QED
  BY <1>1, <1>2

LEMMA EndFrame ==
  ASSUME TypeOK, NEW t \in Threads, End(t)
  PROVE  /\ pc' \in [Threads -> Points] /\ job' \in [Threads -> Jobs]
         /\ cur' \in [Threads -> 0..MaxSnaps] /\ snap' \in [Threads -> 0..MaxSnaps]
         /\ pc'[t] = "idle" /\ job'[t] = NoJob /\ cur'[t] = 0 /\ snap'[t] = 0
         /\ \A u \in Threads \ {t} : /\ pc'[u] = pc[u] /\ job'[u] = job[u] /\ cur'[u] = cur[u]
                                     /\ snap'[u] = snap[u]
<1>1. NoJob \in Jobs
  BY Basics DEF NoJob, Jobs, Ops
<1> QED
  BY <1>1, Basics DEF TypeOK, End, Goto, Take, Points

\* Leased snapshots are known and were created.
LEMMA SnapsAreHeld ==
  ASSUME IInv, NEW l \in Ids, rec[l].state # "none"
  PROVE  rec[l].snap \in Ids /\ helper[rec[l].snap] \in Held
BY DEF IInv, RecordInv

-----------------------------------------------------------------------------
(* One lemma per action.                                                   *)

LEMMA RequestStep ==
  ASSUME IInv, NEW t \in Threads, NEW op \in Ops, NEW l \in 0..MaxSnaps, NEW e \in Times,
         op \in {"renew", "release"} => l \in Ids, Request(t, op, l, e)
  PROVE  IInv'
<1> USE DEF IInv, manager, helpers, hand, Request, Goto
<1>1. /\ pc[t] = "idle" /\ pc'[t] \in {"releaseLock", "sweepLock"}
      /\ \A u \in Threads \ {t} : pc'[u] = pc[u] /\ job'[u] = job[u]
  BY DEF TypeOK
<1>2. TypeOK'
  BY Basics DEF TypeOK, Points, Deleting, Jobs, Records, Ops, HelperStates
<1>3. DeleteInv'
  BY DEF TypeOK, DeleteInv, Live, Named
<1>4. SweepInv'
  BY SMT DEF TypeOK, SweepInv, DeleteInv, Named, Deleting
<1>5. CreateInv'
  BY SMT DEF TypeOK, CreateInv, RecordInv, SessionInv, Creating, Held
<1>6. InsertInv'
  BY DEF TypeOK, InsertInv, RecordInv
<1>7. RecordInv'
  BY <1>1 DEF RecordInv
<1>8. SessionInv'
  BY <1>1, SessionKept DEF Live, Awaited
<1>9. StartInv'
  BY <1>1, StartKept
<1>10. RequestInv'
  BY DEF TypeOK, RequestInv, Deleting
<1>11. TerminalIsGone'
  BY DEF TypeOK, TerminalIsGone, DeleteInv, RecordInv, Live, Named, Held
<1>12. NoOrphans'
  BY <1>1, NoOrphansKept DEF Creating, Live
<1> QED
  BY <1>2, <1>3, <1>4, <1>5, <1>6, <1>7, <1>8, <1>9, <1>10, <1>11, <1>12

LEMMA HelperFrame ==
  ASSUME IInv, UNCHANGED <<now, manager, session, spawned, sent, pc, job, hand, crashes>>,
         helper' \in [Ids -> HelperStates], reading' \subseteq Ids,
         \A s \in Ids : /\ helper'[s] = "none" <=> helper[s] = "none"
                        /\ Live(s)' => Live(s)
                        /\ helper[s] \in Held => helper'[s] \in Held
                        /\ helper'[s] \in Starting => helper[s] \in Starting
  PROVE  IInv'
<1> USE DEF IInv, manager, hand
<1>1. TypeOK'
  BY Basics DEF TypeOK, Deleting
<1>2. DeleteInv'
  BY DEF DeleteInv, Live
<1>3. SweepInv'
  BY DEF SweepInv
<1>4. CreateInv'
  BY DEF  CreateInv
<1>5. InsertInv'
  BY DEF InsertInv
<1>6. RecordInv'
  BY DEF  RecordInv
<1>7. SessionInv'
  BY SessionKept
<1>8. StartInv'
  BY StartKept
<1>9. RequestInv'
  BY DEF RequestInv
<1>10. TerminalIsGone'
  BY DEF  TerminalIsGone, RecordInv, Live
<1>11. NoOrphans'
  BY NoOrphansKept DEF Live
<1> QED
  BY <1>1, <1>2, <1>3, <1>4, <1>5, <1>6, <1>7, <1>8, <1>9, <1>10, <1>11

LEMMA HelperStepsDown ==
  ASSUME IInv, NEW s \in Ids,
         HelperConnect(s) \/ HelperRead(s) \/ HelperDrop(s) \/ HelperWrite(s) \/ HelperDies(s)
  PROVE  IInv'
<1> USE DEF IInv, helpers
<1>1. /\ UNCHANGED <<now, manager, session, spawned, sent, pc, job, hand, crashes>>
      /\ helper' \in [Ids -> HelperStates] /\ reading' \subseteq Ids
  BY DEF TypeOK, HelperStates, HelperConnect, HelperRead, HelperDrop, HelperWrite, HelperDies, Kill
<1>2. \A r \in Ids : /\ helper'[r] = "none" <=> helper[r] = "none"
                     /\ helper'[r] \in {"waiting", "tearing"} => helper[r] \in {"waiting", "tearing"}
                     /\ helper[r] \in Held => helper'[r] \in Held
                     /\ helper'[r] \in Starting => helper[r] \in Starting
  BY DEF TypeOK, HelperStates, Held, Starting, HelperConnect, HelperRead, HelperDrop, HelperWrite, HelperDies, Kill
<1> QED
  BY <1>1, <1>2, HelperFrame DEF Live

LEMMA HelperReadyStep ==
  ASSUME IInv, NEW s \in Ids, HelperReady(s) PROVE IInv'
<1> USE DEF IInv, manager, hand
<1>1. /\ helper[s] = "starting" /\ helper'[s] \in {"waiting", "gone"}
      /\ \A r \in Ids \ {s} : helper'[r] = helper[r]
      /\ helper' \in [Ids -> HelperStates] /\ reading' \subseteq Ids
      /\ UNCHANGED <<now, manager, session, spawned, sent, pc, job, hand, crashes>>
  BY DEF TypeOK, HelperStates, HelperReady
<1>2. PICK t \in Threads : pc[t] \in {"connect", "ready"} /\ snap[t] = s
  BY <1>1 DEF StartInv, Starting
<1>3. \A l \in Ids : rec[l].state # "none" =>
        rec[l].snap \in Ids /\ helper'[rec[l].snap] = helper[rec[l].snap]
  BY <1>1, SnapsAreHeld DEF Held
<1>4. TypeOK'
  BY <1>1, Basics DEF TypeOK, Deleting
<1>5. DeleteInv'
  BY SMT, <1>1, <1>2 DEF DeleteInv, CreateInv, Creating, Live
<1>6. SweepInv'
  BY <1>1 DEF SweepInv
<1>7. CreateInv'
  BY <1>1 DEF TypeOK, CreateInv, Held
<1>8. InsertInv'
  BY <1>1 DEF InsertInv
<1>9. RecordInv'
  BY <1>1, <1>3 DEF RecordInv
<1>10. SessionInv'
  BY SMT, <1>1, <1>2 DEF TypeOK, SessionInv, Live, Awaited
<1>11. StartInv'
  BY <1>1, StartKept DEF Starting
<1>12. RequestInv'
  BY <1>1 DEF RequestInv
<1>13. TerminalIsGone'
  BY SMT, <1>1, <1>2 DEF TypeOK, TerminalIsGone, CreateInv, Creating, RecordInv, Live
<1>14. NoOrphans'
  BY <1>1, <1>2 DEF NoOrphans, Live
<1> QED
  BY <1>4, <1>5, <1>6, <1>7, <1>8, <1>9, <1>10, <1>11, <1>12, <1>13, <1>14

LEMMA TickStep ==
  ASSUME IInv, Tick PROVE IInv'
<1> USE DEF IInv, Tick, manager, helpers, hand
<1>1. TypeOK'
  BY SMT, LeaseBounds DEF TypeOK, Times
<1>2. DeleteInv'
  BY DEF DeleteInv, Live
<1>3. SweepInv'
  BY DEF SweepInv
<1>4. CreateInv'
  BY DEF CreateInv
<1>5. InsertInv'
  BY DEF InsertInv
<1>6. RecordInv'
  BY DEF RecordInv
<1>7. SessionInv'
  BY DEF SessionInv, Live
<1>8. StartInv'
  BY DEF StartInv, Starting
<1>9. RequestInv'
  BY DEF RequestInv
<1>10. TerminalIsGone'
  BY DEF TerminalIsGone, Live
<1>11. NoOrphans'
  BY DEF NoOrphans, Live
<1> QED
  BY <1>1, <1>2, <1>3, <1>4, <1>5, <1>6, <1>7, <1>8, <1>9, <1>10, <1>11

LEMMA CrashStep ==
  ASSUME IInv, Crash PROVE IInv'
<1> USE Basics DEF IInv, Crash, NoJob, NoRecord
<1>1. NoJob \in Jobs /\ NoRecord \in Records
  BY DEF Jobs, Records, Ops
<1>2. TypeOK'
  BY SMT, <1>1, LeaseBounds DEF TypeOK, Points, Deleting, HelperStates
<1>3. DeleteInv'
  BY DEF DeleteInv, Named
<1>4. SweepInv'
  BY DEF SweepInv, Deleting, Named
<1>5. CreateInv'
  BY DEF CreateInv, Creating
<1>6. InsertInv'
  BY DEF InsertInv
<1>7. RecordInv'
  BY DEF RecordInv
<1>8. SessionInv'
  BY DEF TypeOK, SessionInv, Live
<1>9. StartInv'
  BY DEF StartInv, Starting
<1>10. RequestInv'
  BY DEF RequestInv, Deleting
<1>11. TerminalIsGone'
  BY DEF TerminalIsGone
<1>12. NoOrphans'
  BY DEF NoOrphans, Live
<1> QED
  BY <1>2, <1>3, <1>4, <1>5, <1>6, <1>7, <1>8, <1>9, <1>10, <1>11, <1>12

-----------------------------------------------------------------------------
(* sweep_expired, renew_lease, release_lease and delete_snapshot.          *)

LEMMA SweepLockStep ==
  ASSUME IInv, NEW t \in Threads, SweepLock(t) PROVE IInv'
<1> USE DEF IInv, manager, helpers
<1>1. /\ pc[t] = "sweepLock" /\ lock = NoThread /\ lock' = t /\ pc'[t] = "sweeping"
      /\ \A l \in left'[t] : rec[l].state = "Active"
      /\ \A u \in Threads \ {t} : pc'[u] = pc[u] /\ left'[u] = left[u]
      /\ UNCHANGED <<now, rec, nextLease, session, helpers, job, cur, snap, crashes>>
  BY DEF TypeOK, SweepLock, Goto
<1>2. TypeOK'
  BY Basics DEF TypeOK, SweepLock, Goto, Points, Deleting
<1>3. DeleteInv'
  BY <1>1 DEF DeleteInv, Live, Named
<1>4. SweepInv'
  BY <1>1 DEF SweepInv, Deleting, Named
<1>5. CreateInv'
  BY <1>1 DEF CreateInv, Creating
<1>6. InsertInv'
  BY SMT, <1>1 DEF InsertInv
<1>7. RecordInv'
  BY <1>1 DEF RecordInv
<1>8. SessionInv'
  BY <1>1, SessionKept DEF Live, Awaited
<1>9. StartInv'
  BY <1>1, StartKept
<1>10. RequestInv'
  BY <1>1 DEF RequestInv, Deleting
<1>11. TerminalIsGone'
  BY <1>1 DEF TerminalIsGone, Live
<1>12. NoOrphans'
  BY <1>1, NoOrphansKept DEF Creating, Live
<1> QED
  BY <1>2, <1>3, <1>4, <1>5, <1>6, <1>7, <1>8, <1>9, <1>10, <1>11, <1>12

LEMMA SweepNextStep ==
  ASSUME IInv, NEW t \in Threads, SweepNext(t) PROVE IInv'
<1> USE DEF IInv, manager, helpers
<1>1. PICK l \in left[t] : cur' = [cur EXCEPT ![t] = l] /\ snap' = [snap EXCEPT ![t] = rec[l].snap]
                           /\ left' = [left EXCEPT ![t] = @ \ {l}]
  BY DEF SweepNext, Take
<1>2. /\ pc[t] = "sweeping" /\ pc' = [pc EXCEPT ![t] = "delTake"]
      /\ UNCHANGED <<now, manager, session, helpers, job, crashes>>
  BY DEF SweepNext, Goto
<1>3. l \in Ids /\ rec[l].state = "Active" /\ rec[l].snap \in Ids
  BY <1>1, <1>2 DEF TypeOK, SweepInv, Deleting, Named, RecordInv
<1>4. /\ pc'[t] = "delTake" /\ cur'[t] = l /\ snap'[t] = rec[l].snap /\ left'[t] = left[t] \ {l}
      /\ \A u \in Threads \ {t} : /\ pc'[u] = pc[u] /\ cur'[u] = cur[u] /\ snap'[u] = snap[u]
                                  /\ left'[u] = left[u]
  BY <1>1, <1>2 DEF TypeOK
<1>5. TypeOK'
  BY <1>1, <1>2, <1>3, Basics DEF TypeOK, Points, Deleting
<1>6. DeleteInv'
  BY SMT, <1>2, <1>3, <1>4 DEF DeleteInv, Live, Named
<1>7. SweepInv'
  BY SMT, <1>2, <1>3, <1>4 DEF SweepInv, Deleting, Named
<1>8. CreateInv'
  BY SMT, <1>2, <1>4 DEF CreateInv, Creating
<1>9. InsertInv'
  BY SMT, <1>2, <1>4 DEF InsertInv
<1>10. RecordInv'
  BY <1>2 DEF RecordInv
<1>11. SessionInv'
  BY <1>2, <1>4, SessionKept DEF Live, Awaited
<1>12. StartInv'
  BY <1>2, <1>4, StartKept
<1>13. RequestInv'
  BY <1>2, <1>4 DEF RequestInv, Deleting
<1>14. TerminalIsGone'
  BY <1>2 DEF TerminalIsGone, Live
<1>15. NoOrphans'
  BY <1>2, <1>4, NoOrphansKept DEF Creating, Live
<1> QED
  BY <1>5, <1>6, <1>7, <1>8, <1>9, <1>10, <1>11, <1>12, <1>13, <1>14, <1>15

LEMMA SweepEndStep ==
  ASSUME IInv, NEW t \in Threads, SweepEnd(t) PROVE IInv'
<1> USE DEF IInv, helpers
<1>1. /\ pc[t] = "sweeping" /\ lock' = NoThread /\ left[t] = {}
      /\ pc'[t] \in {"spawn", "renewLock", "idle"}
      /\ pc'[t] = "renewLock" => job[t].op = "renew" /\ job'[t] = job[t]
      /\ UNCHANGED <<now, rec, nextLease, session, helpers, left, crashes>>
  BY DEF TypeOK, SweepEnd, End, Goto
<1>2. /\ pc' \in [Threads -> Points] /\ job' \in [Threads -> Jobs]
      /\ cur' \in [Threads -> 0..MaxSnaps] /\ snap' \in [Threads -> 0..MaxSnaps]
      /\ \A u \in Threads \ {t} : /\ pc'[u] = pc[u] /\ job'[u] = job[u] /\ cur'[u] = cur[u]
                                  /\ snap'[u] = snap[u]
  <2>1. CASE End(t)
    BY <2>1, EndFrame
  <2>2. CASE ~End(t)
    BY <2>2 DEF TypeOK, SweepEnd, Goto, Points
  <2> QED
    BY <2>1, <2>2
<1>3. TypeOK'
  BY <1>1, <1>2, Basics DEF TypeOK, Deleting
<1>4. DeleteInv'
  BY <1>1, <1>2 DEF DeleteInv, Live, Named
<1>5. SweepInv'
  BY SMT, <1>1, <1>2 DEF SweepInv, Deleting, Named
<1>6. CreateInv'
  BY SMT, <1>1, <1>2 DEF CreateInv, Creating
<1>7. InsertInv'
  BY SMT, <1>1, <1>2 DEF InsertInv
<1>8. RecordInv'
  BY <1>1 DEF RecordInv
<1>9. SessionInv'
  BY <1>1, <1>2, SessionKept DEF Live, Awaited
<1>10. StartInv'
  BY <1>1, <1>2, StartKept
<1>11. RequestInv'
  BY <1>1, <1>2 DEF RequestInv, Deleting
<1>12. TerminalIsGone'
  BY <1>1 DEF TerminalIsGone, Live
<1>13. NoOrphans'
  BY <1>1, <1>2, NoOrphansKept DEF Creating, Live
<1> QED
  BY <1>3, <1>4, <1>5, <1>6, <1>7, <1>8, <1>9, <1>10, <1>11, <1>12, <1>13

LEMMA RenewLeaseStep ==
  ASSUME IInv, NEW t \in Threads, RenewLease(t) PROVE IInv'
<1> USE DEF IInv, helpers
<1>1. /\ pc[t] = "renewLock" /\ lock = NoThread /\ pc'[t] = "idle" /\ cur'[t] = 0 /\ snap'[t] = 0
      /\ UNCHANGED <<now, lock, nextLease, session, helpers, left, crashes>>
  BY DEF TypeOK, RenewLease, End, Goto, Take
<1>2. job[t].lease \in Ids
  BY <1>1 DEF RequestInv
<1>3. /\ pc' \in [Threads -> Points] /\ job' \in [Threads -> Jobs]
      /\ cur' \in [Threads -> 0..MaxSnaps] /\ snap' \in [Threads -> 0..MaxSnaps]
      /\ \A u \in Threads \ {t} : /\ pc'[u] = pc[u] /\ job'[u] = job[u] /\ cur'[u] = cur[u]
                                  /\ snap'[u] = snap[u]
  BY EndFrame DEF RenewLease
<1>4. /\ rec' \in [Ids -> Records]
      /\ \A l \in Ids : rec'[l].state = rec[l].state /\ rec'[l].snap = rec[l].snap
  <2>1. rec[job[t].lease] \in Records /\ job[t].expires \in Times
    BY <1>2 DEF TypeOK, Jobs
  <2> QED
    BY <1>2, <2>1 DEF TypeOK, RenewLease, Renewed, Records
<1>5. ASSUME NEW u \in Threads, pc'[u] # "idle"
      PROVE  u # t /\ pc'[u] = pc[u] /\ job'[u] = job[u] /\ cur'[u] = cur[u] /\ snap'[u] = snap[u]
  BY <1>1, <1>3, <1>5
<1>6. left[t] = {} /\ left \in [Threads -> SUBSET Ids]
  BY <1>1 DEF TypeOK, SweepInv, Deleting
<1>7. TypeOK'
  BY <1>1, <1>3, <1>4, Basics DEF TypeOK, Deleting
<1>8. DeleteInv'
  BY SMT, <1>1, <1>4, <1>5 DEF DeleteInv, Live, Named
<1>9. SweepInv'
  <2>1. SUFFICES ASSUME NEW u \in Threads PROVE
          /\ pc'[u] \notin Deleting \/ job'[u].op = "release" => left'[u] = {}
          /\ pc'[u] \in {"sweepLock", "sweeping"} => job'[u].op # "release"
          /\ \A l \in left'[u] : rec'[l].state = "Active" /\ (pc'[u] \in Named => l # cur'[u])
    BY DEF SweepInv
  <2>2. CASE u = t
    BY <1>1, <1>6, <2>2
  <2>3. CASE u # t
    <3>1. pc'[u] = pc[u] /\ job'[u] = job[u] /\ cur'[u] = cur[u] /\ left'[u] = left[u]
      BY <1>1, <1>3, <2>3
    <3>2. \A l \in left[u] : rec'[l].state = rec[l].state
      BY <1>4, <1>6
    <3> QED
      BY <3>1, <3>2 DEF SweepInv
  <2> QED
    BY <2>2, <2>3
<1>10. CreateInv'
  BY SMT, <1>1, <1>4, <1>5 DEF CreateInv, Creating
<1>11. InsertInv'
  BY SMT, <1>1, <1>3, <1>4 DEF InsertInv
<1>12. RecordInv'
  BY <1>1, <1>4 DEF RecordInv
<1>13. SessionInv'
  BY <1>1, <1>3, SessionKept DEF Live, Awaited
<1>14. StartInv'
  BY <1>1, <1>3, StartKept
<1>15. RequestInv'
  BY <1>1, <1>3 DEF RequestInv, Deleting
<1>16. TerminalIsGone'
  BY <1>1, <1>4 DEF TerminalIsGone, Live
<1>17. NoOrphans'
  BY <1>1, <1>3, <1>4, NoOrphansKept DEF Creating, Live
<1> QED
  BY <1>7, <1>8, <1>9, <1>10, <1>11, <1>12, <1>13, <1>14, <1>15, <1>16, <1>17

LEMMA ReleaseLeaseStep ==
  ASSUME IInv, NEW t \in Threads, ReleaseLease(t) PROVE IInv'
<1> USE DEF IInv, helpers
<1>1. /\ pc[t] = "releaseLock" /\ lock = NoThread
      /\ UNCHANGED <<now, rec, nextLease, session, helpers, left, crashes>>
  BY DEF ReleaseLease
<1>2. job[t].lease \in Ids /\ rec[job[t].lease].snap \in 0..MaxSnaps
  BY <1>1 DEF RequestInv, TypeOK, Records
<1>3. /\ pc' \in [Threads -> Points] /\ job' \in [Threads -> Jobs]
      /\ cur' \in [Threads -> 0..MaxSnaps] /\ snap' \in [Threads -> 0..MaxSnaps]
      /\ \A u \in Threads \ {t} : /\ pc'[u] = pc[u] /\ job'[u] = job[u] /\ cur'[u] = cur[u]
                                  /\ snap'[u] = snap[u]
  <2>1. CASE End(t)
    BY <2>1, EndFrame
  <2>2. CASE ~End(t)
    <3>1. /\ pc' = [pc EXCEPT ![t] = "delTake"] /\ job' = job
          /\ cur' = [cur EXCEPT ![t] = job[t].lease]
          /\ snap' = [snap EXCEPT ![t] = rec[job[t].lease].snap]
      BY <2>2 DEF ReleaseLease, Goto, Take
    <3> QED
      BY <1>2, <3>1, Basics DEF TypeOK, Points
  <2> QED
    BY <2>1, <2>2
<1>4. \/ /\ pc'[t] = "delTake" /\ lock' = t /\ job'[t] = job[t]
         /\ cur'[t] \in Ids /\ snap'[t] = rec[cur'[t]].snap /\ rec[cur'[t]].state = "Active"
      \/ pc'[t] = "idle" /\ lock' = lock /\ cur'[t] = 0 /\ snap'[t] = 0
  BY <1>2 DEF TypeOK, ReleaseLease, End, Goto, Take
<1>5. left[t] = {}
  BY <1>1 DEF SweepInv, Deleting
<1>6. TypeOK'
  BY SMT, <1>1, <1>3, <1>4, Basics DEF TypeOK, Deleting
<1>7. DeleteInv'
  BY SMT, <1>1, <1>3, <1>4 DEF DeleteInv, RecordInv, TypeOK, Live, Named
<1>8. SweepInv'
  BY SMT, <1>1, <1>3, <1>4, <1>5 DEF SweepInv, Deleting, Named
<1>9. CreateInv'
  BY SMT, <1>1, <1>3, <1>4 DEF CreateInv, Creating
<1>10. InsertInv'
  BY SMT, <1>1, <1>3, <1>4 DEF InsertInv
<1>11. RecordInv'
  BY <1>1 DEF RecordInv
<1>12. SessionInv'
  BY <1>1, <1>3, <1>4, SessionKept DEF Live, Awaited
<1>13. StartInv'
  BY <1>1, <1>3, <1>4, StartKept
<1>14. RequestInv'
  BY <1>1, <1>2, <1>3, <1>4 DEF RequestInv, Deleting
<1>15. TerminalIsGone'
  BY <1>1 DEF TerminalIsGone, Live
<1>16. NoOrphans'
  BY <1>1, <1>3, <1>4, NoOrphansKept DEF Creating, Live
<1> QED
  BY <1>6, <1>7, <1>8, <1>9, <1>10, <1>11, <1>12, <1>13, <1>14, <1>15, <1>16

LEMMA DelTakeStep ==
  ASSUME IInv, NEW t \in Threads, DelTake(t) PROVE IInv'
<1> USE DEF IInv, manager, helpers, hand
<1>1. /\ pc[t] = "delTake" /\ session' = session \ {snap[t]}
      /\ pc'[t] = IF snap[t] \in session THEN "delSend" ELSE "delFailed"
      /\ \A u \in Threads \ {t} : pc'[u] = pc[u]
      /\ UNCHANGED <<now, manager, helpers, job, hand, crashes>>
  BY DEF TypeOK, DelTake, Goto
<1>2. \A u \in Threads \ {t} : pc[u] \notin Deleting
  BY <1>1 DEF TypeOK, Deleting
<1>3. \A u \in Threads : pc[u] \in Creating => snap[u] # snap[t]
  BY SMT, <1>1 DEF DeleteInv, CreateInv, Named
<1>4. snap[t] \notin session => ~Live(snap[t])
  BY SMT, <1>1, <1>2, <1>3 DEF SessionInv, DeleteInv, Awaited, Deleting, Creating, Named
<1>5. TypeOK'
  BY Basics DEF TypeOK, DelTake, Goto, Points, Deleting
<1>6. DeleteInv'
  BY <1>1, <1>4 DEF DeleteInv, Live, Named
<1>7. SweepInv'
  BY SMT, <1>1 DEF SweepInv, Deleting, Named
<1>8. CreateInv'
  BY <1>1 DEF CreateInv, Creating
<1>9. InsertInv'
  BY <1>1 DEF InsertInv
<1>10. RecordInv'
  BY <1>1 DEF RecordInv
<1>11. SessionInv'
  BY <1>1, <1>4 DEF SessionInv, Live, Awaited
<1>12. StartInv'
  BY <1>1, StartKept
<1>13. RequestInv'
  BY <1>1 DEF RequestInv, Deleting
<1>14. TerminalIsGone'
  BY <1>1 DEF TerminalIsGone, Live
<1>15. NoOrphans'
  BY <1>1, NoOrphansKept DEF Creating, Live
<1> QED
  BY <1>5, <1>6, <1>7, <1>8, <1>9, <1>10, <1>11, <1>12, <1>13, <1>14, <1>15

LEMMA DelSendStep ==
  ASSUME IInv, NEW t \in Threads, DelSend(t) PROVE IInv'
<1> USE DEF IInv, manager, hand
<1>1. /\ pc[t] = "delSend" /\ pc'[t] \in {"delRecv", "delFailed"} /\ pc' \in [Threads -> Points]
      /\ pc'[t] = "delFailed" => helper[snap[t]] = "gone"
      /\ \A u \in Threads \ {t} : pc'[u] = pc[u]
      /\ sent' \subseteq sent \cup {snap[t]}
      /\ UNCHANGED <<now, manager, session, spawned, helper, reading, job, hand, crashes>>
  BY DEF TypeOK, DelSend, Goto, Points
<1>2. snap[t] \in Ids
  BY <1>1 DEF DeleteInv, Named
<1>3. TypeOK'
  BY <1>1, <1>2, Basics DEF TypeOK, Deleting
<1>4. DeleteInv'
  BY <1>1 DEF DeleteInv, Live, Named
<1>5. SweepInv'
  BY <1>1 DEF SweepInv, Deleting, Named
<1>6. CreateInv'
  BY <1>1 DEF CreateInv, Creating
<1>7. InsertInv'
  BY <1>1 DEF InsertInv
<1>8. RecordInv'
  BY <1>1 DEF RecordInv
<1>9. SessionInv'
  BY <1>1, SessionKept DEF Live, Awaited
<1>10. StartInv'
  BY <1>1, StartKept
<1>11. RequestInv'
  BY <1>1 DEF RequestInv, Deleting
<1>12. TerminalIsGone'
  BY <1>1 DEF TerminalIsGone, Live
<1>13. NoOrphans'
  BY <1>1, NoOrphansKept DEF Creating, Live
<1> QED
  BY <1>3, <1>4, <1>5, <1>6, <1>7, <1>8, <1>9, <1>10, <1>11, <1>12, <1>13

LEMMA DelRecvStep ==
  ASSUME IInv, NEW t \in Threads, DelRecv(t) \/ DelRecvFails(t) PROVE IInv'
<1> USE DEF IInv, manager, hand
<1>1. /\ pc[t] = "delRecv" /\ pc'[t] \in {"delOk", "delFailed"} /\ pc' \in [Threads -> Points]
      /\ \A u \in Threads \ {t} : pc'[u] = pc[u]
      /\ UNCHANGED <<now, manager, session, spawned, sent, job, hand, crashes>>
  BY DEF TypeOK, DelRecv, DelRecvFails, Kill, helpers, Goto, Points
<1>2. snap[t] \in Ids /\ helper[snap[t]] \in Held
  BY <1>1, SnapsAreHeld DEF DeleteInv, Named
<1>3. /\ helper' \in [Ids -> HelperStates] /\ reading' \subseteq Ids
      /\ helper'[snap[t]] = "gone" /\ \A s \in Ids \ {snap[t]} : helper'[s] = helper[s]
  BY <1>2 DEF TypeOK, DelRecv, DelRecvFails, Kill, helpers, HelperStates, Held
<1>4. \A l \in Ids : rec[l].state # "none" => rec[l].snap \in Ids /\ helper[rec[l].snap] \in Held
  BY SnapsAreHeld
<1>5. TypeOK'
  BY <1>1, <1>3, Basics DEF TypeOK, Deleting
<1>6. DeleteInv'
  BY <1>1, <1>2, <1>3 DEF DeleteInv, Live, Named
<1>7. SweepInv'
  BY <1>1 DEF SweepInv, Deleting, Named
<1>8. CreateInv'
  BY SMT, <1>1, <1>2, <1>3 DEF TypeOK, CreateInv, Creating, Held
<1>9. InsertInv'
  BY <1>1 DEF InsertInv
<1>10. RecordInv'
  BY <1>1, <1>2, <1>3, <1>4 DEF RecordInv, Held
<1>11. SessionInv'
  BY <1>1, <1>2, <1>3, SessionKept DEF Live, Awaited, Held
<1>12. StartInv'
  BY <1>1, <1>3, StartKept DEF Starting
<1>13. RequestInv'
  BY <1>1 DEF RequestInv, Deleting
<1>14. TerminalIsGone'
  BY <1>1, <1>3, <1>4 DEF TerminalIsGone, Live
<1>15. NoOrphans'
  BY <1>1, <1>2, <1>3, NoOrphansKept DEF Creating, Live
<1> QED
  BY <1>5, <1>6, <1>7, <1>8, <1>9, <1>10, <1>11, <1>12, <1>13, <1>14, <1>15

LEMMA MarkedFrame ==
  ASSUME TypeOK, NEW c \in Ids, rec[c].state = "Active", NEW st \in {"Expired", "Released"}
  PROVE  /\ Marked(c, st) \in [Ids -> Records]
         /\ Marked(c, st)[c].snap = rec[c].snap /\ Marked(c, st)[c].state = st
         /\ \A l \in Ids \ {c} : Marked(c, st)[l] = rec[l]
<1>1. rec[c] \in Records
  BY DEF TypeOK
<1>2. [state |-> st, snap |-> rec[c].snap, expires |-> rec[c].expires] \in Records
  BY <1>1 DEF Records
<1> QED
  BY <1>2 DEF TypeOK, Marked

LEMMA DelEndStep ==
  ASSUME IInv, NEW t \in Threads, DelEnd(t) PROVE IInv'
<1> USE DEF IInv, helpers
<1>1. /\ pc[t] \in {"delOk", "delFailed"} /\ lock = t
      /\ UNCHANGED <<now, nextLease, session, helpers, left, crashes>>
  BY DEF DelEnd, TypeOK, Deleting
<1>2. /\ cur[t] \in Ids /\ rec[cur[t]].state = "Active" /\ ~Live(rec[cur[t]].snap)
      /\ rec[cur[t]] \in Records /\ cur[t] \notin left[t] /\ left[t] \subseteq Ids
  BY <1>1 DEF TypeOK, DeleteInv, SweepInv, Named, Deleting
<1>3. \A u \in Threads \ {t} : pc[u] \notin Deleting
  BY <1>1 DEF TypeOK
<1>4. /\ pc' \in [Threads -> Points] /\ job' \in [Threads -> Jobs]
      /\ cur' \in [Threads -> 0..MaxSnaps] /\ snap' \in [Threads -> 0..MaxSnaps]
      /\ \A u \in Threads \ {t} : /\ pc'[u] = pc[u] /\ job'[u] = job[u] /\ cur'[u] = cur[u]
                                  /\ snap'[u] = snap[u]
  <2>1. CASE End(t)
    BY <2>1, EndFrame
  <2>2. CASE ~End(t)
    <3>1. /\ pc' = [pc EXCEPT ![t] = "sweeping"] /\ job' = job
          /\ cur' = [cur EXCEPT ![t] = 0] /\ snap' = [snap EXCEPT ![t] = 0]
      BY <2>2 DEF DelEnd, Goto, Take
    <3> QED
      BY <3>1, Basics DEF TypeOK, Points
  <2> QED
    BY <2>1, <2>2
<1>5. \/ pc'[t] = "sweeping" /\ lock' = t /\ job'[t] = job[t] /\ job[t].op # "release"
      \/ pc'[t] = "idle" /\ lock' = NoThread /\ left[t] = {}
  BY <1>1 DEF TypeOK, DelEnd, End, Goto, SweepInv
<1>6. \/ rec' = Marked(cur[t], "Expired") \/ rec' = Marked(cur[t], "Released") \/ rec' = rec
  BY DEF DelEnd
<1>7. /\ rec' \in [Ids -> Records]
      /\ rec'[cur[t]].snap = rec[cur[t]].snap /\ rec'[cur[t]].state # "none"
      /\ \A l \in Ids \ {cur[t]} : rec'[l] = rec[l]
  BY SMT, <1>2, <1>6, MarkedFrame DEF TypeOK
<1>8. \A l \in Ids : rec'[l].snap = rec[l].snap /\ (rec'[l].state = "none" <=> rec[l].state = "none")
  BY <1>2, <1>7
<1>9. TypeOK'
  BY SMT, <1>1, <1>3, <1>4, <1>5, <1>7, <1>8, Basics DEF TypeOK, Deleting
<1>10. DeleteInv'
  BY SMT, <1>3, <1>4, <1>5 DEF DeleteInv, Named, Deleting
<1>11. SweepInv'
  <2>1. SUFFICES ASSUME NEW u \in Threads PROVE
          /\ pc'[u] \notin Deleting \/ job'[u].op = "release" => left'[u] = {}
          /\ pc'[u] \in {"sweepLock", "sweeping"} => job'[u].op # "release"
          /\ \A l \in left'[u] : rec'[l].state = "Active" /\ (pc'[u] \in Named => l # cur'[u])
    BY DEF SweepInv
  <2>2. CASE u = t
    BY SMT, <1>1, <1>2, <1>5, <1>7, <2>2 DEF SweepInv, Deleting, Named
  <2>3. CASE u # t
    BY <1>1, <1>3, <1>4, <2>3 DEF SweepInv
  <2> QED
    BY <2>2, <2>3
<1>12. ASSUME NEW u \in Threads, pc'[u] \in Creating
      PROVE  u # t /\ pc'[u] = pc[u] /\ cur'[u] = cur[u] /\ snap'[u] = snap[u]
  BY <1>4, <1>5, <1>12 DEF Creating
<1>13. CreateInv'
  BY SMT, <1>1, <1>8, <1>12 DEF CreateInv, Creating
<1>14. InsertInv'
  BY SMT, <1>1, <1>8, <1>12 DEF InsertInv, Creating
<1>15. RecordInv'
  BY SMT, <1>1, <1>7, <1>8 DEF RecordInv
<1>16. SessionInv'
  BY <1>1, <1>4, SessionKept DEF Live, Awaited
<1>17. StartInv'
  BY <1>1, <1>4, StartKept
<1>18. RequestInv'
  BY <1>1, <1>4, <1>5 DEF RequestInv, Deleting
<1>19. TerminalIsGone'
  BY <1>1, <1>2, <1>7, <1>8 DEF TerminalIsGone, Live
<1>20. NoOrphans'
  BY <1>1, <1>2, <1>4, <1>7, <1>8, NoOrphansKept DEF Creating, Live
<1> QED
  BY <1>9, <1>10, <1>11, <1>13, <1>14, <1>15, <1>16, <1>17, <1>18, <1>19, <1>20

LEMMA SpawnStep ==
  ASSUME IInv, NEW t \in Threads, Spawn(t) PROVE IInv'
<1> USE DEF IInv, manager
<1> DEFINE n == spawned + 1
<1>1. /\ pc[t] = "spawn" /\ pc' = [pc EXCEPT ![t] = "connect"] /\ spawned' = n
      /\ helper' = [helper EXCEPT ![n] = "spawned"]
      /\ cur' = [cur EXCEPT ![t] = 0] /\ snap' = [snap EXCEPT ![t] = n]
      /\ UNCHANGED <<now, manager, session, reading, sent, job, left, crashes>>
  BY DEF Spawn, Goto, Take
<1>2. n \in Ids /\ spawned \in 0..MaxSnaps /\ helper[n] = "none"
  BY SMT, LeaseBounds DEF TypeOK, Spawn, SessionInv, Ids
<1>3. /\ pc'[t] = "connect" /\ snap'[t] = n
      /\ \A u \in Threads \ {t} : pc'[u] = pc[u] /\ cur'[u] = cur[u] /\ snap'[u] = snap[u]
      /\ helper'[n] = "spawned" /\ \A s \in Ids \ {n} : helper'[s] = helper[s]
  BY <1>1, <1>2 DEF TypeOK
<1>4. \A l \in Ids : rec[l].state # "none" => rec[l].snap \in Ids /\ rec[l].snap # n
  BY <1>2, SnapsAreHeld DEF Held
<1>5. \A u \in Threads : pc[u] \in Creating => snap[u] \in Ids /\ snap[u] # n
  BY <1>2 DEF CreateInv
<1>6. TypeOK'
  BY <1>1, <1>2, Basics DEF TypeOK, Points, Deleting, HelperStates
<1>7. DeleteInv'
  BY SMT, <1>1, <1>3, <1>4 DEF DeleteInv, Live, Named
<1>8. SweepInv'
  BY SMT, <1>1, <1>3 DEF SweepInv, Deleting, Named
<1>9. CreateInv'
  BY SMT, <1>1, <1>2, <1>3, <1>4, <1>5 DEF CreateInv, Creating
<1>10. InsertInv'
  BY SMT, <1>1, <1>3 DEF InsertInv
<1>11. RecordInv'
  BY SMT, <1>1, <1>2, <1>3, <1>4 DEF RecordInv
<1>12. SessionInv'
  BY SMT, <1>1, <1>2, <1>3, LeaseBounds DEF SessionInv, Ids, Live, Awaited
<1>13. StartInv'
  BY SMT, <1>1, <1>2, <1>3 DEF StartInv, Starting
<1>14. RequestInv'
  BY <1>1, <1>3 DEF RequestInv, Deleting
<1>15. TerminalIsGone'
  BY SMT, <1>1, <1>3, <1>4 DEF TerminalIsGone, Live
<1>16. NoOrphans'
  BY <1>1, <1>3, <1>4, <1>5, NoOrphansKept DEF Creating, Live
<1> QED
  BY <1>6, <1>7, <1>8, <1>9, <1>10, <1>11, <1>12, <1>13, <1>14, <1>15, <1>16

LEMMA ConnectStep ==
  ASSUME IInv, NEW t \in Threads, Connect(t) PROVE IInv'
<1> USE DEF IInv, manager, helpers, hand
<1>1. /\ pc[t] = "connect" /\ pc'[t] = "ready" /\ \A u \in Threads \ {t} : pc'[u] = pc[u]
      /\ UNCHANGED <<now, manager, session, helpers, job, hand, crashes>>
  BY DEF TypeOK, Connect, Goto
<1>2. TypeOK'
  BY Basics DEF TypeOK, Connect, Goto, Points, Deleting
<1>3. DeleteInv'
  BY <1>1 DEF DeleteInv, Live, Named
<1>4. SweepInv'
  BY <1>1 DEF SweepInv, Deleting, Named
<1>5. CreateInv'
  BY <1>1 DEF CreateInv, Creating
<1>6. InsertInv'
  BY <1>1 DEF InsertInv
<1>7. RecordInv'
  BY <1>1 DEF RecordInv
<1>8. SessionInv'
  BY <1>1, SessionKept DEF Live, Awaited
<1>9. StartInv'
  BY <1>1, StartKept
<1>10. RequestInv'
  BY <1>1 DEF RequestInv, Deleting
<1>11. TerminalIsGone'
  BY <1>1 DEF TerminalIsGone, Live
<1>12. NoOrphans'
  BY <1>1, NoOrphansKept DEF Creating, Live
<1> QED
  BY <1>2, <1>3, <1>4, <1>5, <1>6, <1>7, <1>8, <1>9, <1>10, <1>11, <1>12

LEMMA AwaitReadyStep ==
  ASSUME IInv, NEW t \in Threads, AwaitReady(t) PROVE IInv'
<1> USE DEF IInv, manager, helpers
<1>1. /\ pc[t] = "ready" /\ UNCHANGED <<now, manager, helpers, left, crashes>>
  BY DEF AwaitReady
<1>2. snap[t] \in Ids
  BY <1>1 DEF TypeOK, CreateInv, Creating
<1>3. /\ pc' \in [Threads -> Points] /\ job' \in [Threads -> Jobs]
      /\ cur' \in [Threads -> 0..MaxSnaps] /\ snap' \in [Threads -> 0..MaxSnaps]
      /\ \A u \in Threads \ {t} : /\ pc'[u] = pc[u] /\ job'[u] = job[u] /\ cur'[u] = cur[u]
                                  /\ snap'[u] = snap[u]
  <2>1. CASE End(t)
    BY <2>1, EndFrame
  <2>2. CASE ~End(t)
    BY <2>2 DEF TypeOK, AwaitReady, Goto, Points
  <2> QED
    BY <2>1, <2>2
<1>4. \/ /\ helper[snap[t]] = "waiting" /\ session' = session \cup {snap[t]}
         /\ pc'[t] = "assign" /\ job'[t] = job[t] /\ cur'[t] = cur[t] /\ snap'[t] = snap[t]
      \/ helper[snap[t]] = "gone" /\ session' = session /\ pc'[t] = "idle"
  BY DEF TypeOK, AwaitReady, End, Goto
<1>5. \A u \in Threads : pc[u] \in Named => snap[u] # snap[t]
  BY SMT, <1>1 DEF DeleteInv, CreateInv, Creating, Named
<1>6. \A u \in Threads : left'[u] = left[u] /\ (pc'[u] \in Deleting => u # t)
  BY <1>1, <1>4 DEF Deleting
<1>7. helper' = helper /\ helper[snap[t]] \notin Starting
  BY <1>1, <1>4 DEF Starting
<1>8. \A u \in Threads : helper[snap[u]] \in Starting =>
        pc'[u] = pc[u] /\ snap'[u] = snap[u]
  BY <1>3, <1>7
<1>9. TypeOK'
  BY <1>1, <1>2, <1>3, <1>4, Basics DEF TypeOK, Deleting
<1>10. DeleteInv'
  BY SMT, <1>1, <1>3, <1>4, <1>5 DEF DeleteInv, Live, Named
<1>11. SweepInv'
  BY SMT, <1>1, <1>3, <1>4 DEF SweepInv, Deleting, Named
<1>12. CreateInv'
  BY SMT, <1>1, <1>3, <1>4 DEF CreateInv, Creating, Held
<1>13. InsertInv'
  BY SMT, <1>1, <1>3, <1>4 DEF InsertInv
<1>14. RecordInv'
  BY <1>1 DEF RecordInv
<1>15. SessionInv'
  BY <1>1, <1>3, <1>4, SessionKept DEF Live, Awaited
<1>16. StartInv'
  BY <1>7, <1>8, StartKept
<1>17. RequestInv'
  BY <1>1, <1>3, <1>4 DEF RequestInv, Deleting
<1>18. TerminalIsGone'
  BY <1>1 DEF TerminalIsGone, Live
<1>19. NoOrphans'
  BY <1>1, <1>3, <1>4, NoOrphansKept DEF Creating, Live
<1> QED
  BY <1>9, <1>10, <1>11, <1>12, <1>13, <1>14, <1>15, <1>16, <1>17, <1>18, <1>19

LEMMA AssignStep ==
  ASSUME IInv, NEW t \in Threads, Assign(t) PROVE IInv'
<1> USE DEF IInv, helpers
<1>1. /\ pc[t] = "assign" /\ pc' = [pc EXCEPT ![t] = "insert"]
      /\ nextLease \in Ids /\ nextLease' = nextLease + 1
      /\ cur' = [cur EXCEPT ![t] = nextLease] /\ snap' = [snap EXCEPT ![t] = snap[t]]
      /\ UNCHANGED <<now, lock, rec, session, helpers, job, left, crashes>>
  BY SMT, LeaseBounds DEF TypeOK, Assign, Goto, Take, Ids
<1>2. /\ pc'[t] = "insert" /\ cur'[t] = nextLease /\ snap' = snap
      /\ \A u \in Threads \ {t} : pc'[u] = pc[u] /\ cur'[u] = cur[u]
  BY <1>1 DEF TypeOK
<1>3. TypeOK'
  BY SMT, <1>1, <1>2, Basics, LeaseBounds DEF Ids, TypeOK, Points, Deleting
<1>4. DeleteInv'
  BY <1>1, <1>2 DEF DeleteInv, Live, Named
<1>5. SweepInv'
  BY SMT, <1>1, <1>2 DEF SweepInv, Deleting, Named
<1>6. CreateInv'
  BY SMT, <1>1, <1>2 DEF CreateInv, Creating
<1>7. InsertInv'
  BY SMT, <1>1, <1>2 DEF InsertInv, RecordInv, Ids
<1>8. RecordInv'
  BY SMT, <1>1 DEF Ids, RecordInv
<1>9. SessionInv'
  BY <1>1, <1>2, SessionKept DEF Live, Awaited
<1>10. StartInv'
  BY <1>1, <1>2, StartKept
<1>11. RequestInv'
  BY <1>1, <1>2 DEF RequestInv, Deleting
<1>12. TerminalIsGone'
  BY <1>1 DEF TerminalIsGone, Live
<1>13. NoOrphans'
  BY <1>1, <1>2, NoOrphansKept DEF Creating, Live
<1> QED
  BY <1>3, <1>4, <1>5, <1>6, <1>7, <1>8, <1>9, <1>10, <1>11, <1>12, <1>13

LEMMA InsertStep ==
  ASSUME IInv, NEW t \in Threads, Insert(t) PROVE IInv'
<1> USE DEF IInv, helpers
<1> DEFINE r == [state |-> "Active", snap |-> snap[t], expires |-> job[t].expires]
<1>1. /\ pc[t] = "insert" /\ lock = NoThread /\ End(t) /\ rec' = [rec EXCEPT ![cur[t]] = r]
      /\ UNCHANGED <<now, lock, nextLease, session, helpers, left, crashes>>
  BY DEF Insert
<1>2. /\ cur[t] \in Ids /\ cur[t] < nextLease /\ rec[cur[t]].state = "none" /\ snap[t] \in Ids
      /\ helper[snap[t]] \in Held /\ \A l \in Ids : rec[l].state # "none" => rec[l].snap # snap[t]
  BY <1>1 DEF TypeOK, InsertInv, CreateInv, Creating
<1>3. r \in Records /\ r.state = "Active" /\ r.snap = snap[t]
  BY DEF TypeOK, Records, Jobs
<1> HIDE DEF r
<1>4. /\ pc' \in [Threads -> Points] /\ job' \in [Threads -> Jobs]
      /\ cur' \in [Threads -> 0..MaxSnaps] /\ snap' \in [Threads -> 0..MaxSnaps]
      /\ pc'[t] = "idle"
      /\ \A u \in Threads \ {t} : /\ pc'[u] = pc[u] /\ job'[u] = job[u] /\ cur'[u] = cur[u]
                                  /\ snap'[u] = snap[u]
  BY <1>1, EndFrame
<1>5. rec' \in [Ids -> Records] /\ rec'[cur[t]] = r /\ \A l \in Ids \ {cur[t]} : rec'[l] = rec[l]
  BY <1>1, <1>2, <1>3 DEF TypeOK
<1>6. \A l \in Ids : rec[l].state = "Active" => rec'[l] = rec[l]
  BY <1>2, <1>5
<1>7. ASSUME NEW u \in Threads, pc'[u] \in Creating
      PROVE  /\ u # t /\ pc'[u] = pc[u] /\ cur'[u] = cur[u] /\ snap'[u] = snap[u]
             /\ snap[u] # snap[t] /\ (pc[u] = "insert" => cur[u] # cur[t])
  BY SMT, <1>1, <1>4, <1>7 DEF Creating, CreateInv, InsertInv
<1>8. TypeOK'
  BY <1>1, <1>4, <1>5, Basics DEF TypeOK, Deleting
<1>9. DeleteInv'
  BY SMT, <1>1, <1>4, <1>6 DEF DeleteInv, Live, Named
<1>10. SweepInv'
  BY SMT, <1>1, <1>4, <1>6 DEF TypeOK, SweepInv, Deleting, Named
<1>11. CreateInv'
  BY SMT, <1>1, <1>3, <1>5, <1>7 DEF CreateInv
<1>12. InsertInv'
  BY SMT, <1>1, <1>5, <1>7 DEF InsertInv, Creating
<1>13. RecordInv'
  BY SMT, <1>1, <1>2, <1>3, <1>5 DEF RecordInv
<1>14. SessionInv'
  BY <1>1, <1>4, SessionKept DEF Live, Awaited
<1>15. StartInv'
  BY <1>1, <1>4, StartKept
<1>16. RequestInv'
  BY <1>1, <1>4 DEF RequestInv, Deleting
<1>17. TerminalIsGone'
  BY <1>1, <1>3, <1>5 DEF TerminalIsGone, Live
<1>18. NoOrphans'
  <2>1. SUFFICES ASSUME NEW s \in Ids, Live(s)
        PROVE \/ \E u \in Threads : pc'[u] \in Creating /\ snap'[u] = s
              \/ \E l \in Ids : rec'[l].state = "Active" /\ rec'[l].snap = s
    BY SMT, <1>1 DEF NoOrphans, Creating, Live
  <2>2. CASE s = snap[t]
    BY <1>2, <1>3, <1>5, <2>2
  <2>3. CASE \E u \in Threads \ {t} : pc[u] \in Creating /\ snap[u] = s
    BY <1>4, <2>3
  <2>4. CASE \E l \in Ids : rec[l].state = "Active" /\ rec[l].snap = s
    BY <1>6, <2>4
  <2> QED
    BY <2>1, <2>2, <2>3, <2>4 DEF NoOrphans, Creating
<1> QED
  BY <1>8, <1>9, <1>10, <1>11, <1>12, <1>13, <1>14, <1>15, <1>16, <1>17, <1>18

-----------------------------------------------------------------------------
(* The theorems.                                                           *)

LEMMA NextStep ==
  ASSUME IInv, [Next]_vars PROVE IInv'
<1>1. CASE Next
  <2>1. ASSUME NEW t \in Workers, NEW l \in Ids, NEW e \in Times,
               \/ Request(t, "create", 0, e) \/ Request(t, "renew", l, e)
               \/ Request(t, "release", l, 0) \/ Request(t, "query", 0, 0)
        PROVE  IInv'
    <3>1. {"create", "renew", "release", "query"} \subseteq Ops /\ l \in 0..MaxSnaps /\ t \in Threads
      BY Basics DEF Ops
    <3> QED
      BY <2>1, <3>1, Basics, RequestStep
  <2>2. CASE Request(Sweeper, "sweep", 0, 0)
    <3>1. "sweep" \in Ops
      BY DEF Ops
    <3> QED
      BY <2>2, <3>1, Basics, RequestStep
  <2>3. ASSUME NEW t \in Threads, Step(t) \/ DelRecvFails(t) PROVE IInv'
    BY <2>3, SweepLockStep, SweepNextStep, SweepEndStep, RenewLeaseStep, ReleaseLeaseStep,
      DelTakeStep, DelSendStep, DelRecvStep, DelEndStep, SpawnStep, ConnectStep, AwaitReadyStep,
      AssignStep, InsertStep DEF Step
  <2>4. ASSUME NEW s \in Ids, HelperStep(s) \/ HelperDies(s) PROVE IInv'
    BY <2>4, HelperStepsDown, HelperReadyStep DEF HelperStep
  <2> QED
    BY <1>1, <2>1, <2>2, <2>3, <2>4, TickStep, CrashStep DEF Next
<1>2. CASE UNCHANGED vars
  BY SMT, <1>2 DEF vars, IInv, TypeOK, DeleteInv, SweepInv, CreateInv, InsertInv, RecordInv,
    SessionInv, StartInv, RequestInv, TerminalIsGone, NoOrphans, Live
<1> QED
  BY <1>1, <1>2

\* The inductive invariant holds for any number of connections, snapshots and
\* crashes of the Broker.
THEOREM Invariance == Spec => []IInv
<1>1. Init => IInv
  BY InitIInv
<1>2. IInv /\ [Next]_vars => IInv'
  BY NextStep
<1> QED
  BY <1>1, <1>2, PTL DEF Spec

\* Every variable keeps its type, and the `leases` mutex is held by exactly the
\* thread that sweeps or deletes.
THEOREM TypeCorrect == Spec => []TypeOK
<1>1. IInv => TypeOK
  BY DEF IInv
<1> QED
  BY <1>1, Invariance, PTL

\* A lease that reads Expired or Released has no snapshot left, whichever step of
\* delete_snapshot failed.
THEOREM FinishedLeasesAreGone == Spec => []TerminalIsGone
<1>1. IInv => TerminalIsGone
  BY DEF IInv
<1> QED
  BY <1>1, Invariance, PTL

\* No snapshot outlives its lease: create_snapshot and delete_snapshot leak none
\* on any of their error paths.
THEOREM SnapshotsHaveOwners == Spec => []NoOrphans
<1>1. IInv => NoOrphans
  BY DEF IInv
<1> QED
  BY <1>1, Invariance, PTL

\* A renewal or a release that comes late does not revive a finished lease.
THEOREM FinishedLeasesStay == Spec => TerminalIsFinal
<1>1. IInv /\ [Next]_vars => [\A l \in Ids : rec[l].state \in {"Expired", "Released"} =>
                               rec'[l] = rec[l] \/ crashes' # crashes]_vars
  <2>1. SUFFICES ASSUME IInv, Next, NEW l \in Ids, rec[l].state \in {"Expired", "Released"},
                        crashes' = crashes
                 PROVE  rec'[l] = rec[l]
    BY DEF vars
  <2>2. ASSUME NEW t \in Threads, RenewLease(t) PROVE rec'[l] = rec[l]
    BY <2>1, <2>2 DEF RenewLease, Renewed, IInv, TypeOK
  <2>3. ASSUME NEW t \in Threads, DelEnd(t) PROVE rec'[l] = rec[l]
    BY <2>1, <2>3 DEF DelEnd, Marked, IInv, TypeOK, DeleteInv, Named
  <2>4. ASSUME NEW t \in Threads, Insert(t) PROVE rec'[l] = rec[l]
    BY <2>1, <2>4 DEF Insert, IInv, TypeOK, InsertInv
  <2>5. CASE Crash
    BY SMT, <2>1, <2>5, LeaseBounds DEF Crash, IInv, TypeOK
  <2> QED
    BY <2>1, <2>2, <2>3, <2>4, <2>5 DEF Next, Step, HelperStep, Request, SweepLock, SweepNext,
      SweepEnd, ReleaseLease, DelTake, DelSend, DelRecv, DelRecvFails, Spawn, Connect, AwaitReady,
      Assign, HelperConnect, HelperReady, HelperRead, HelperDrop, HelperWrite, HelperDies, Tick,
      manager
<1> QED
  BY <1>1, Invariance, PTL DEF Spec, TerminalIsFinal

=============================================================================
