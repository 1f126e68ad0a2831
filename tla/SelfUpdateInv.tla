--------------------------- MODULE SelfUpdateInv ----------------------------
(***************************************************************************)
(* The steps of an update keep four invariants: every binary is in place or *)
(* aside (IInv), every value and control point has its type (TInv), what a  *)
(* rollback and a recovery rely on holds (OInv), and no binary of a running *)
(* service is swapped (StopInv).                                            *)
(***************************************************************************)
EXTENDS SelfUpdate, TLAPS

\* First-order steps; a step with arithmetic or with records and updates names SMT.
USE Zenon

\* What the steps rely on: a process starts only when no other one runs, and the
\* plan that drop_broker leaves has binaries of the snapshot other than the broker's.
\* SelfUpdateProofs shows the first for MaxAlive = 1 and the second for every plan.
StartsAlone == \A p \in Procs : MayStart(p) => \A q \in Procs : ~Alive(q)
BrokerDropped == Retain[Len(Plan)] \in Seq({t \in Targets : Stem[t] # "uffs-broker"})

Fields == {"owner", "state", "committed", "added", "running", "plan", "to"}

\* Control points of apply at which every binary of the installation is in place.
Intact == {"acquired", "preflight", "preflightOk", "stop", "stopped", "swapping", "backup",
           "record", "smoke"}
Undoing == {"rollingBack", "undo", "clear", "rename"}
\* Control points at which the commit point is ahead, on disk and in memory.
Uncommitted == (Intact \ {"acquired"}) \cup {"swap"} \cup Undoing

Clean == "applyOverPending" \notin errors
InPlace == \A t \in Replaced : image[t] # 0

Shape ==
  /\ DOMAIN image = Targets /\ DOMAIN bak = Targets
  /\ DOMAIN pc = Procs /\ DOMAIN mem = Procs /\ DOMAIN todo = Procs
  /\ DOMAIN journal = Fields
  /\ \A p \in Procs : DOMAIN mem[p] = Fields
  /\ \A p \in Procs : ~Alive(p) => mem[p] = NoJournal

OneAlive == \A p, q \in Procs : Alive(p) /\ Alive(q) => p = q

\* What the journal on disk lets a recovery do: prune only what is in place,
\* remove as added only what was not there before.
DiskInv ==
  /\ journal.committed => InPlace
  /\ Pending => journal.added \cap Replaced = {}

\* What a control point says of the commit point and of the binaries.
PcOK(l, m, j) ==
  /\ l \in Intact => InPlace
  /\ l \in Uncommitted => ~j.committed
  /\ l \in Uncommitted \cup {"acquired"} => ~m.committed
  /\ l \in {"restartNew", "prune"} => m.committed

\* The same of a process, which knows what was added, has renamed aside the one
\* binary that may be missing in a swap, and clears none without its .bak.
ProcInv ==
  \A p \in Procs : Alive(p) =>
    /\ PcOK(pc[p], mem[p], journal)
    /\ mem[p].committed => InPlace
    /\ mem[p].added \cap Replaced = {}
    /\ pc[p] = "swap" => \A t \in Replaced : image[t] # 0 \/ t = Head(todo[p])
    /\ pc[p] \in {"clear", "rename"} => bak[Head(todo[p])] # 0

IInv == Shape /\ OneAlive /\ NoBinaryLost /\ (Clean => DiskInv /\ ProcInv)

LEMMA InitIInv == Init => IInv
<1> SUFFICES ASSUME Init PROVE IInv
  OBVIOUS
<1>1. Shape
  BY DEF Init, Shape, Fields, NoJournal, Alive
<1>2. OneAlive /\ ProcInv
  BY DEF Init, OneAlive, ProcInv, Alive
<1>3. NoBinaryLost
  BY DEF Init, NoBinaryLost, Replaced
<1>4. DiskInv
  BY DEF Init, DiskInv, Pending, NoJournal
<1> QED
  BY <1>1, <1>2, <1>3, <1>4 DEF IInv

\* A step of one process leaves the others dead.
LEMMA BecomeKeeps ==
  ASSUME Shape, OneAlive, NEW p \in Procs, NEW l, NEW m, NEW w,
         \A q \in Procs \ {p} : ~Alive(q),
         DOMAIN m = Fields, Become(p, l, m, w)
  PROVE  /\ OneAlive'
         /\ DOMAIN pc' = Procs /\ DOMAIN mem' = Procs /\ DOMAIN todo' = Procs
         /\ \A q \in Procs : DOMAIN mem'[q] = Fields
         /\ \A q \in Procs : pc'[q] = "dead" => mem'[q] = NoJournal
         /\ \A q \in Procs : pc'[q] # "dead" => q = p
         /\ pc'[p] = l
         /\ l # "dead" => mem'[p] = m /\ todo'[p] = w
  BY DEF Shape, OneAlive, Become, Alive, Fields, NoJournal

\* A journal transition that moves to points which fit keeps the invariant,
\* whether it is saved or not.
LEMMA TransitionKeeps ==
  ASSUME IInv, NEW p \in Procs, NEW from, NEW m, NEW work, NEW to, NEW onError,
         Transition(p, from, m, work, to, onError), from # "dead",
         DOMAIN m = Fields, m.added = mem[p].added,
         to \notin {"swap", "clear", "rename"}, onError \notin {"swap", "clear", "rename"},
         Clean => (m.committed => InPlace) /\ PcOK(to, m, m) /\ PcOK(onError, m, journal)
  PROVE  IInv'
<1>1. Alive(p) /\ \A q \in Procs \ {p} : ~Alive(q)
  BY DEF Transition, IInv, OneAlive, Alive
<1>2. UNCHANGED <<image, bak, origin>> /\ (Clean' => Clean)
  BY DEF Transition, files, trouble, Error, Clean
<1>3. NoBinaryLost' /\ (InPlace' <=> InPlace) /\ Replaced' = Replaced
  BY <1>2 DEF IInv, NoBinaryLost, InPlace, Replaced, Clean
<1>4. CASE journal' = m /\ Become(p, to, m, work)
  <2>1. Shape' /\ OneAlive'
    BY <1>1, <1>2, <1>4, BecomeKeeps DEF IInv, Shape, Alive
  <2>2. Clean' => DiskInv'
    BY <1>1, <1>2, <1>3, <1>4 DEF IInv, DiskInv, ProcInv
  <2>3. Clean' => ProcInv'
    BY SMT, <1>1, <1>2, <1>3, <1>4, BecomeKeeps DEF IInv, ProcInv, Alive, PcOK
  <2> QED
    BY <1>3, <2>1, <2>2, <2>3 DEF IInv
<1>5. CASE UNCHANGED journal /\ Become(p, onError, m, StartOrder)
  <2>1. Shape' /\ OneAlive'
    BY <1>1, <1>2, <1>5, BecomeKeeps DEF IInv, Shape, Alive
  <2>2. Clean' => DiskInv'
    BY <1>2, <1>3, <1>5 DEF IInv, DiskInv, Pending, Terminal
  <2>3. Clean' => ProcInv'
    BY SMT, <1>1, <1>2, <1>3, <1>5, BecomeKeeps DEF IInv, ProcInv, Alive, PcOK
  <2> QED
    BY <1>3, <2>1, <2>2, <2>3 DEF IInv
<1> QED
  BY <1>4, <1>5 DEF Transition

\* What a process at a control point knows, and the shape of what it writes.
LEMMA AtPoint ==
  ASSUME IInv, NEW p \in Procs, Alive(p)
  PROVE  /\ DOMAIN mem[p] = Fields
         /\ \A s : /\ DOMAIN In(p, s) = Fields /\ In(p, s).added = mem[p].added
                  /\ In(p, s).committed = mem[p].committed
         /\ \A q \in Procs \ {p} : ~Alive(q)
         /\ Clean => /\ PcOK(pc[p], mem[p], journal)
                     /\ mem[p].committed => InPlace
                     /\ mem[p].added \cap Replaced = {}
  BY DEF IInv, Shape, OneAlive, ProcInv, In, Fields

LEMMA ApplyTransitions ==
  ASSUME IInv, NEW p \in Procs,
         \/ Acquired(p) \/ PreflightOk(p) \/ Stopped(p) \/ Quiesced(p) \/ Swapping(p)
         \/ Record(p) \/ Swapped(p) \/ Commit(p)
  PROVE  IInv'
<1> USE DEF PcOK, Intact, Uncommitted, Undoing
<1>1. CASE Acquired(p)
  <2>1. pc[p] = "acquired" /\ Transition(p, "acquired", In(p, "Acquired"), todo[p], "preflight", "dead")
    BY <1>1 DEF Acquired, Transition
  <2>2. Clean => (mem[p].committed => InPlace) /\ PcOK("preflight", In(p, "Acquired"), In(p, "Acquired")) /\ PcOK("dead", In(p, "Acquired"), journal)
    BY <2>1, AtPoint DEF Alive
  <2> QED
    BY SMT, <2>1, <2>2, AtPoint, TransitionKeeps DEF Alive
<1>2. CASE PreflightOk(p)
  BY SMT, <1>2, AtPoint, TransitionKeeps DEF PreflightOk, Transition, Alive
<1>3. CASE Stopped(p)
  <2>1. pc[p] = "stopped" /\ Transition(p, "stopped", In(p, "Quiesced"), Tail(todo[p]), "stop", "dead")
    BY <1>3 DEF Stopped, Transition
  <2>2. Clean => (mem[p].committed => InPlace) /\ PcOK("stop", In(p, "Quiesced"), In(p, "Quiesced")) /\ PcOK("dead", In(p, "Quiesced"), journal)
    BY <2>1, AtPoint DEF Alive
  <2> QED
    BY SMT, <2>1, <2>2, AtPoint, TransitionKeeps DEF Alive
<1>4. CASE Quiesced(p)
  <2>1. pc[p] = "stop" /\ Transition(p, "stop", In(p, "Quiesced"), <<>>, "swapping", "dead")
    BY <1>4 DEF Quiesced, Transition
  <2>2. Clean => (mem[p].committed => InPlace) /\ PcOK("swapping", In(p, "Quiesced"), In(p, "Quiesced")) /\ PcOK("dead", In(p, "Quiesced"), journal)
    BY <2>1, AtPoint DEF Alive
  <2> QED
    BY SMT, <2>1, <2>2, AtPoint, TransitionKeeps DEF Alive
<1>5. CASE Swapping(p)
  BY SMT, <1>5, AtPoint, TransitionKeeps DEF Swapping, Transition, Alive
<1>6. CASE Record(p)
  BY SMT, <1>6, AtPoint, TransitionKeeps DEF Record, Transition, Alive
<1>7. CASE Swapped(p)
  <2>1. pc[p] = "backup" /\ Transition(p, "backup", In(p, "Swapped"), mem[p].plan, "smoke", "restartOld")
    BY <1>7 DEF Swapped, Transition
  <2>2. Clean => (mem[p].committed => InPlace) /\ PcOK("smoke", In(p, "Swapped"), In(p, "Swapped")) /\ PcOK("restartOld", In(p, "Swapped"), journal)
    BY <2>1, AtPoint DEF Alive
  <2> QED
    BY SMT, <2>1, <2>2, AtPoint, TransitionKeeps DEF Alive
<1>8. CASE Commit(p)
  <2> DEFINE m == [In(p, "SmokeOk") EXCEPT !.committed = TRUE]
  <2>1. pc[p] = "smoke" /\ Transition(p, "smoke", m, StartOrder, "restartNew", "restartOld")
    BY <1>8 DEF Commit, Transition
  <2>2. DOMAIN m = Fields /\ m.added = mem[p].added /\ m.committed
    BY <2>1, AtPoint DEF Alive, Fields
  <2>3. Clean => InPlace /\ PcOK("restartNew", m, m) /\ PcOK("restartOld", m, journal)
    BY <2>1, <2>2, AtPoint DEF Alive
  <2> HIDE DEF m
  <2> QED
    BY SMT, <2>1, <2>2, <2>3, TransitionKeeps
<1> QED
  BY <1>1, <1>2, <1>3, <1>4, <1>5, <1>6, <1>7, <1>8

LEMMA FinishTransitions ==
  ASSUME IInv, NEW p \in Procs,
         RollingBack(p) \/ RolledBack(p) \/ Restored(p) \/ Done(p) \/ Aborted(p)
  PROVE  IInv'
<1> USE DEF PcOK, Intact, Uncommitted, Undoing
<1>1. Leave(p) \in {"sweep", "dead"} /\ UndoError(p) \in {"restartOld", "sweep", "dead"}
  BY DEF Leave, UndoError
<1>2. CASE RollingBack(p)
  <2> DEFINE m == In(p, "RollingBack")
  <2>1. /\ pc[p] = "rollingBack" /\ Alive(p)
        /\ Transition(p, "rollingBack", m, mem[p].plan, "undo", UndoError(p))
    BY <1>2 DEF RollingBack, Transition, Alive
  <2>2. /\ DOMAIN m = Fields /\ m.added = mem[p].added
        /\ Clean => ~m.committed /\ ~journal.committed
    BY <2>1, AtPoint
  <2> HIDE DEF m
  <2>3. Clean => PcOK("undo", m, m) /\ PcOK(UndoError(p), m, journal)
    BY <1>1, <2>2
  <2> QED
    BY SMT, <1>1, <2>1, <2>2, <2>3, TransitionKeeps
<1>3. CASE RolledBack(p)
  BY SMT, <1>1, <1>3, AtPoint, TransitionKeeps DEF RolledBack, Transition, Alive
<1>4. CASE Restored(p)
  <2>1. pc[p] = "restartNew" /\ Transition(p, "restartNew", In(p, "Restored"), mem[p].plan, "prune", Leave(p))
    BY <1>4 DEF Restored, Transition
  <2>2. Clean => /\ mem[p].committed => InPlace
                 /\ PcOK("prune", In(p, "Restored"), In(p, "Restored"))
                 /\ PcOK(Leave(p), In(p, "Restored"), journal)
    BY <1>1, <2>1, AtPoint DEF Alive
  <2> QED
    BY SMT, <1>1, <2>1, <2>2, AtPoint, TransitionKeeps DEF Alive
<1>5. CASE Done(p)
  <2>1. pc[p] = "prune" /\ Transition(p, "prune", In(p, "Done"), <<>>, "archive", Leave(p))
    BY <1>5 DEF Done, Transition
  <2>2. Clean => /\ mem[p].committed => InPlace
                 /\ PcOK("archive", In(p, "Done"), In(p, "Done"))
                 /\ PcOK(Leave(p), In(p, "Done"), journal)
    BY <1>1, <2>1, AtPoint DEF Alive
  <2> QED
    BY SMT, <1>1, <2>1, <2>2, AtPoint, TransitionKeeps DEF Alive
<1>6. CASE Transition(p, "restartOld", In(p, "Aborted"), <<>>, "archive", Leave(p))
  <2>1. pc[p] = "restartOld" /\ Transition(p, "restartOld", In(p, "Aborted"), <<>>, "archive", Leave(p))
    BY <1>6 DEF Transition
  <2>2. Clean => /\ mem[p].committed => InPlace
                 /\ PcOK("archive", In(p, "Aborted"), In(p, "Aborted"))
                 /\ PcOK(Leave(p), In(p, "Aborted"), journal)
    BY <1>1, <2>1, AtPoint DEF Alive
  <2> QED
    BY SMT, <1>1, <2>1, <2>2, AtPoint, TransitionKeeps DEF Alive
<1>7. CASE Transition(p, "aborted", In(p, "Aborted"), <<>>, "archive", "dead")
  <2>1. pc[p] = "aborted" /\ Transition(p, "aborted", In(p, "Aborted"), <<>>, "archive", "dead")
    BY <1>7 DEF Transition
  <2>2. Clean => /\ mem[p].committed => InPlace
                 /\ PcOK("archive", In(p, "Aborted"), In(p, "Aborted"))
                 /\ PcOK("dead", In(p, "Aborted"), journal)
    BY <1>1, <2>1, AtPoint DEF Alive
  <2> QED
    BY SMT, <1>1, <2>1, <2>2, AtPoint, TransitionKeeps DEF Alive
<1> QED
  BY <1>2, <1>3, <1>4, <1>5, <1>6, <1>7 DEF Aborted

\* A step that touches neither binaries nor journal keeps the invariant when the
\* point it moves to fits.
LEMMA MoveKeeps ==
  ASSUME IInv, NEW p \in Procs, NEW l, NEW w, \A q \in Procs \ {p} : ~Alive(q),
         Become(p, l, mem[p], w), l \notin {"swap", "clear", "rename"},
         UNCHANGED <<image, bak, origin, journal>>, errors \subseteq errors',
         Clean => /\ PcOK(l, mem[p], journal)
                  /\ mem[p].committed => InPlace
                  /\ mem[p].added \cap Replaced = {}
  PROVE  IInv'
<1>1. DOMAIN mem[p] = Fields /\ (Clean' => Clean)
  BY DEF IInv, Shape, Clean
<1>2. NoBinaryLost' /\ (InPlace' <=> InPlace) /\ Replaced' = Replaced
  BY DEF IInv, NoBinaryLost, InPlace, Replaced
<1>3. Shape' /\ OneAlive'
  BY <1>1, BecomeKeeps DEF IInv, Shape, Alive
<1>4. Clean' => DiskInv'
  BY <1>1, <1>2 DEF IInv, DiskInv, Pending, Terminal
<1>5. Clean' => ProcInv'
  BY SMT, <1>1, <1>2, BecomeKeeps DEF IInv, ProcInv, Alive, PcOK
<1> QED
  BY <1>2, <1>3, <1>4, <1>5 DEF IInv

LEMMA ErrorKeeps == ASSUME NEW e, Error(e) \/ UNCHANGED trouble PROVE errors \subseteq errors'
  BY DEF Error, trouble

LEMMA Moves ==
  ASSUME IInv, NEW p \in Procs,
         Preflight(p) \/ Stop(p) \/ Smoke(p) \/ Restart(p) \/ Crash(p)
  PROVE  IInv'
<1> USE ErrorKeeps DEF PcOK, Intact, Uncommitted, Undoing, Move, Advance, files
<1>1. CASE Preflight(p)
  <2>1. /\ Alive(p) /\ errors \subseteq errors'
        /\ UNCHANGED <<image, bak, origin, journal>>
    BY <1>1 DEF Preflight, Alive
  <2>2. PICK l \in {"preflightOk", "aborted"} : Become(p, l, mem[p], todo[p])
    BY <1>1 DEF Preflight
  <2>3. Clean => PcOK(l, mem[p], journal)
    BY <1>1, <2>1, AtPoint DEF Preflight
  <2> QED
    BY <2>1, <2>2, <2>3, AtPoint, MoveKeeps
<1>2. CASE Stop(p)
  <2>1. /\ Alive(p) /\ errors \subseteq errors'
        /\ UNCHANGED <<image, bak, origin, journal>>
    BY <1>2 DEF Stop, Alive
  <2>2. PICK l \in {"stopped", "dead"} : Become(p, l, mem[p], todo[p])
    BY <1>2 DEF Stop
  <2>3. Clean => PcOK(l, mem[p], journal)
    BY <1>2, <2>1, AtPoint DEF Stop
  <2> QED
    BY <2>1, <2>2, <2>3, AtPoint, MoveKeeps
<1>3. CASE Smoke(p)
  <2>1. /\ Alive(p) /\ errors \subseteq errors'
        /\ UNCHANGED <<image, bak, origin, journal>>
    BY <1>3 DEF Smoke, Alive
  <2>2. PICK l \in {"smoke", "rollingBack"}, w \in {todo[p], Tail(todo[p])} : Become(p, l, mem[p], w)
    BY <1>3 DEF Smoke
  <2>3. Clean => PcOK(l, mem[p], journal)
    BY <1>3, <2>1, <2>2, AtPoint DEF Smoke
  <2> QED
    BY <2>1, <2>2, <2>3, AtPoint, MoveKeeps
<1>4. CASE Restart(p)
  <2>1. /\ Alive(p) /\ errors \subseteq errors'
        /\ UNCHANGED <<image, bak, origin, journal>>
        /\ Become(p, pc[p], mem[p], Tail(todo[p]))
        /\ pc[p] \notin {"swap", "clear", "rename"}
    BY <1>4 DEF Restart, Alive
  <2> QED
    BY <2>1, AtPoint, MoveKeeps
<1>5. CASE Crash(p)
  BY <1>5, AtPoint, MoveKeeps DEF Crash, Alive
<1> QED
  BY <1>1, <1>2, <1>3, <1>4, <1>5

\* A step of a running process that changes files but not the journal: what is
\* left to show is about the binaries and about the process itself.
LEMMA FileStepKeeps ==
  ASSUME IInv, NEW p \in Procs, Alive(p), NEW l, NEW m, NEW w, Become(p, l, m, w),
         DOMAIN m = Fields, UNCHANGED <<journal, origin>>, errors \subseteq errors',
         DOMAIN image' = Targets, DOMAIN bak' = Targets, NoBinaryLost',
         Clean => /\ journal.committed => InPlace'
                  /\ m.added \cap Replaced = {}
                  /\ m.committed => InPlace'
                  /\ l \in Intact => InPlace'
                  /\ l \in Uncommitted => ~journal.committed
                  /\ l \in Uncommitted \cup {"acquired"} => ~m.committed
                  /\ l \in {"restartNew", "prune"} => m.committed
                  /\ l = "swap" => \A t \in Replaced : image'[t] # 0 \/ t = Head(w)
                  /\ l \in {"clear", "rename"} => bak'[Head(w)] # 0
  PROVE  IInv'
<1>1. (Clean' => Clean) /\ Replaced' = Replaced /\ \A q \in Procs \ {p} : ~Alive(q)
  BY AtPoint DEF Clean, Replaced
<1>2. Shape' /\ OneAlive'
  BY <1>1, BecomeKeeps DEF IInv, Shape, Alive
<1>3. Clean' => DiskInv'
  BY <1>1 DEF IInv, DiskInv, Pending, Terminal
<1>4. Clean' => ProcInv'
  <2>1. /\ \A q \in Procs : pc'[q] # "dead" => q = p
        /\ pc'[p] = l /\ (l # "dead" => mem'[p] = m /\ todo'[p] = w)
    BY <1>1, BecomeKeeps DEF IInv
  <2> QED
    BY <1>1, <2>1 DEF ProcInv, Alive, PcOK
<1> QED
  BY <1>2, <1>3, <1>4 DEF IInv

LEMMA BackupStep == ASSUME IInv, NEW p \in Procs, Backup(p) PROVE IInv'
<1> DEFINE t == Head(todo[p])
           m == IF image[t] = 0 THEN Adds(p, t) ELSE mem[p]
<1> USE DEF Intact, Uncommitted, Undoing
<1>1. /\ Alive(p) /\ pc[p] = "backup" /\ errors \subseteq errors'
      /\ UNCHANGED <<journal, origin>>
  BY ErrorKeeps DEF Backup, Alive
<1>2. Clean => InPlace /\ ~journal.committed /\ ~mem[p].committed
  BY <1>1, AtPoint DEF PcOK
<1>3. DOMAIN m = Fields /\ m.committed = mem[p].committed /\ (Clean => m.added \cap Replaced = {})
  BY <1>1, <1>2, AtPoint DEF Adds, Fields, InPlace
<1>4. CASE Become(p, "swap", m, todo[p]) /\
           IF image[t] # 0 /\ bak[t] = 0
           THEN bak' = [bak EXCEPT ![t] = image[t]] /\ image' = [image EXCEPT ![t] = 0]
           ELSE UNCHANGED <<image, bak>>
  <2>1. DOMAIN image' = Targets /\ DOMAIN bak' = Targets
    BY <1>4 DEF IInv, Shape
  <2>2. NoBinaryLost'
    BY <1>1, <1>4 DEF IInv, Shape, NoBinaryLost, Replaced
  <2>3. Clean => \A s \in Replaced : image'[s] # 0 \/ s = t
    BY <1>2, <1>4 DEF IInv, Shape, InPlace, Replaced
  <2> HIDE DEF m
  <2> QED
    BY <1>1, <1>2, <1>3, <1>4, <2>1, <2>2, <2>3, FileStepKeeps
<1>5. CASE Move(p, "rollingBack") /\ UNCHANGED <<image, bak>>
  <2>1. Clean => PcOK("rollingBack", mem[p], journal)
    BY <1>2 DEF PcOK
  <2> QED
    BY <1>1, <1>5, <2>1, AtPoint, MoveKeeps DEF Move
<1> QED
  BY <1>4, <1>5 DEF Backup

LEMMA SwapStep == ASSUME IInv, NEW p \in Procs, Swap(p) PROVE IInv'
<1> DEFINE t == Head(todo[p])
           m == [mem[p] EXCEPT !.added = @ \ {t}]
<1> USE DEF Intact, Uncommitted, Undoing
<1>1. /\ Alive(p) /\ pc[p] = "swap" /\ errors \subseteq errors'
      /\ UNCHANGED <<bak, journal, origin>>
  BY ErrorKeeps DEF Swap, Alive
<1>2. Clean => /\ ~journal.committed /\ ~mem[p].committed
               /\ \A s \in Replaced : image[s] # 0 \/ s = t
  BY <1>1, AtPoint DEF PcOK, IInv, ProcInv
<1>3. CASE Move(p, "record") /\ staged[Stem[t]] # 0 /\ image' = [image EXCEPT ![t] = staged[Stem[t]]]
  <2>1. DOMAIN image' = Targets /\ DOMAIN bak' = Targets
    BY <1>1, <1>3 DEF IInv, Shape
  <2>2. NoBinaryLost'
    BY <1>1, <1>3 DEF IInv, Shape, NoBinaryLost, Replaced
  <2>3. Clean => InPlace'
    BY <1>1, <1>2, <1>3 DEF IInv, Shape, InPlace, Replaced
  <2> QED
    BY <1>1, <1>2, <1>3, <2>1, <2>2, <2>3, AtPoint, FileStepKeeps DEF Move
<1>4. CASE Become(p, "rollingBack", m, todo[p]) /\ UNCHANGED image
  <2>1. DOMAIN m = Fields /\ m.committed = mem[p].committed /\ (Clean => m.added \cap Replaced = {})
    BY <1>1, AtPoint DEF Fields
  <2>2. NoBinaryLost' /\ DOMAIN image' = Targets /\ DOMAIN bak' = Targets
    BY <1>1, <1>4 DEF IInv, Shape, NoBinaryLost, Replaced
  <2> HIDE DEF m
  <2> QED
    BY <1>1, <1>2, <1>4, <2>1, <2>2, FileStepKeeps
<1> QED
  BY <1>3, <1>4 DEF Swap

LEMMA UndoSteps ==
  ASSUME IInv, NEW p \in Procs, Undo(p) \/ Clear(p) \/ Rename(p)
  PROVE  IInv'
<1> DEFINE t == Head(todo[p])
<1> USE DEF Intact, Uncommitted, Undoing
<1>1. /\ Alive(p) /\ pc[p] \in {"undo", "clear", "rename"} /\ errors \subseteq errors'
      /\ UNCHANGED <<journal, origin>>
  BY ErrorKeeps DEF Undo, Clear, Rename, Alive
<1>2. /\ DOMAIN mem[p] = Fields
      /\ Clean => /\ ~journal.committed /\ ~mem[p].committed
                  /\ mem[p].added \cap Replaced = {}
                  /\ pc[p] \in {"clear", "rename"} => bak[t] # 0
  BY <1>1, AtPoint DEF PcOK, IInv, ProcInv
<1>3. UndoError(p) \in {"restartOld", "sweep", "dead"}
  BY DEF Leave, UndoError
<1>4. CASE /\ \E l \in {"undo", "restartOld", "sweep", "dead"} : \E w : Become(p, l, mem[p], w)
           /\ DOMAIN image' = Targets /\ DOMAIN bak' = Targets /\ NoBinaryLost'
  BY <1>1, <1>2, <1>4, FileStepKeeps
<1>5. CASE Undo(p)
  <2>1. CASE t \in mem[p].added /\ image' = [image EXCEPT ![t] = 0] /\ Advance(p, "undo")
    <3>1. DOMAIN image' = Targets /\ DOMAIN bak' = Targets
      BY <1>5, <2>1 DEF IInv, Shape, Undo
    <3>2. NoBinaryLost'
      BY <1>1, <1>2, <1>5, <2>1 DEF Undo, IInv, Shape, NoBinaryLost, Replaced, Clean
    <3> QED
      BY <1>4, <2>1, <3>1, <3>2 DEF Advance
  <2>2. CASE UNCHANGED image /\ Advance(p, "undo")
    <3>1. DOMAIN image' = Targets /\ DOMAIN bak' = Targets /\ NoBinaryLost'
      BY <1>1, <1>5, <2>2 DEF IInv, Shape, Undo, NoBinaryLost, Replaced
    <3> QED
      BY <1>4, <2>2, <3>1 DEF Advance
  <2>3. CASE bak[t] # 0 /\ Move(p, "clear") /\ UNCHANGED image
    <3>1. UNCHANGED bak /\ DOMAIN image' = Targets /\ DOMAIN bak' = Targets /\ NoBinaryLost'
      BY <1>1, <1>5, <2>3 DEF IInv, Shape, Undo, NoBinaryLost, Replaced
    <3> QED
      BY <1>1, <1>2, <2>3, <3>1, FileStepKeeps DEF Move
  <2>4. CASE Become(p, UndoError(p), mem[p], StartOrder) /\ UNCHANGED image
    <3>1. DOMAIN image' = Targets /\ DOMAIN bak' = Targets /\ NoBinaryLost'
      BY <1>1, <1>5, <2>4 DEF IInv, Shape, Undo, NoBinaryLost, Replaced
    <3> QED
      BY <1>3, <1>4, <2>4, <3>1
  <2> QED
    BY <1>5, <2>1, <2>2, <2>3, <2>4 DEF Undo
<1>6. CASE Clear(p)
  <2>1. pc[p] = "clear" /\ UNCHANGED bak /\ DOMAIN image' = Targets /\ DOMAIN bak' = Targets
    BY <1>6 DEF IInv, Shape, Clear
  <2>2. NoBinaryLost'
    BY <1>1, <1>2, <1>6, <2>1 DEF Clear, IInv, Shape, NoBinaryLost, Replaced, Clean
  <2> QED
    BY <1>1, <1>2, <1>6, <2>1, <2>2, FileStepKeeps DEF Clear, Move
<1>7. CASE Rename(p)
  <2>1. CASE /\ bak[t] # 0 /\ image' = [image EXCEPT ![t] = bak[t]]
             /\ bak' = [bak EXCEPT ![t] = 0] /\ Advance(p, "undo")
    <3>1. DOMAIN image' = Targets /\ DOMAIN bak' = Targets
      BY <2>1 DEF IInv, Shape
    <3>2. NoBinaryLost'
      BY <1>1, <2>1 DEF IInv, Shape, NoBinaryLost, Replaced
    <3> QED
      BY <1>4, <2>1, <3>1, <3>2 DEF Advance
  <2>2. CASE Become(p, UndoError(p), mem[p], StartOrder) /\ UNCHANGED <<image, bak>>
    <3>1. DOMAIN image' = Targets /\ DOMAIN bak' = Targets /\ NoBinaryLost'
      BY <1>1, <2>2 DEF IInv, Shape, NoBinaryLost, Replaced
    <3> QED
      BY <1>3, <1>4, <2>2, <3>1
  <2> QED
    BY <1>7, <2>1, <2>2 DEF Rename
<1> QED
  BY <1>5, <1>6, <1>7

LEMMA CleanupSteps ==
  ASSUME IInv, NEW p \in Procs, Prune(p) \/ DoctorSweep(p)
  PROVE  IInv'
<1> USE DEF Intact, Uncommitted, Undoing
<1>1. /\ Alive(p) /\ errors \subseteq errors' /\ UNCHANGED <<image, journal, origin>>
      /\ InPlace' <=> InPlace
  BY ErrorKeeps DEF Prune, DoctorSweep, Alive, trouble, InPlace, Replaced
<1>2. /\ DOMAIN mem[p] = Fields
      /\ Clean => /\ PcOK(pc[p], mem[p], journal)
                  /\ journal.committed => InPlace
                  /\ mem[p].committed => InPlace
                  /\ mem[p].added \cap Replaced = {}
  BY <1>1, AtPoint DEF IInv, DiskInv
<1>3. CASE Prune(p)
  <2>1. pc[p] = "prune" /\ DOMAIN image' = Targets /\ DOMAIN bak' = Targets
    BY <1>3 DEF IInv, Shape, Prune
  <2>2. Clean => InPlace /\ mem[p].committed
    BY <1>2, <2>1 DEF PcOK
  <2>3. NoBinaryLost'
    BY <1>1, <2>2 DEF NoBinaryLost, InPlace, Replaced, Clean
  <2> QED
    BY <1>1, <1>2, <1>3, <2>1, <2>2, <2>3, FileStepKeeps DEF Prune, Advance
<1>4. CASE DoctorSweep(p)
  <2>1. DOMAIN image' = Targets /\ DOMAIN bak' = Targets
    BY <1>4 DEF IInv, Shape, DoctorSweep, Swept
  <2>2. NoBinaryLost'
    BY <1>1, <1>4 DEF DoctorSweep, Swept, IInv, NoBinaryLost, Replaced
  <2> QED
    BY <1>1, <1>2, <1>4, <2>1, <2>2, FileStepKeeps DEF DoctorSweep, Move
<1> QED
  BY <1>3, <1>4

LEMMA ArchiveStep == ASSUME IInv, NEW p \in Procs, Archive(p) PROVE IInv'
<1>1. /\ Alive(p) /\ UNCHANGED <<image, bak, origin, errors>> /\ journal' = NoJournal
      /\ Become(p, Leave(p), mem[p], todo[p])
  BY DEF Archive, Alive, files, trouble, Move
<1>2. Leave(p) \in {"sweep", "dead"}
  BY DEF Leave
<1>3. NoBinaryLost' /\ (InPlace' <=> InPlace) /\ Replaced' = Replaced /\ (Clean' <=> Clean)
  BY <1>1 DEF IInv, NoBinaryLost, InPlace, Replaced, Clean
<1>4. Shape' /\ OneAlive'
  BY <1>1, AtPoint, BecomeKeeps DEF IInv, Shape, Alive, NoJournal, Fields
<1>5. DiskInv'
  BY <1>1 DEF DiskInv, Pending, NoJournal
<1>6. Clean' => ProcInv'
  <2>1. \A q \in Procs : Alive(q)' => q = p /\ pc'[p] = "sweep" /\ mem'[p] = mem[p]
    <3>1. DOMAIN mem[p] = Fields /\ \A q \in Procs \ {p} : ~Alive(q)
      BY <1>1, AtPoint
    <3> QED
      BY SMT, <1>1, <1>2, <3>1, BecomeKeeps DEF IInv, Alive
  <2>2. Clean => (mem[p].committed => InPlace) /\ mem[p].added \cap Replaced = {}
    BY <1>1, AtPoint DEF IInv
  <2> QED
    BY <1>3, <2>1, <2>2 DEF ProcInv, PcOK, Intact, Uncommitted, Undoing
<1> QED
  BY <1>3, <1>4, <1>5, <1>6 DEF IInv

\* A recovery begins with what the journal says; a doctor with nothing to recover
\* goes on to its sweep.
LEMMA RecoverSteps ==
  ASSUME StartsAlone, IInv, NEW p \in Procs, (\E k : Recover(p, k)) \/ DoctorIdle(p)
  PROVE  IInv'
<1>1. /\ \A q \in Procs : ~Alive(q)
      /\ UNCHANGED <<image, bak, origin, journal, errors>>
  BY DEF StartsAlone, Recover, RecoverAt, DoctorIdle, files, trouble
<1>2. NoBinaryLost' /\ (InPlace' <=> InPlace) /\ Replaced' = Replaced /\ (Clean' <=> Clean)
  BY <1>1 DEF IInv, NoBinaryLost, InPlace, Replaced, Clean
<1>3. Clean' => DiskInv'
  BY <1>1, <1>2 DEF IInv, DiskInv, Pending, Terminal
<1>4. CASE \E k : Recover(p, k)
  <2> DEFINE l == IF journal.committed THEN "restartNew" ELSE "rollingBack"
  <2>1. Become(p, l, journal, StartOrder) /\ Pending /\ DOMAIN journal = Fields
    BY <1>4 DEF Recover, RecoverAt, NeedsRecovery, IInv, Shape
  <2>2. Shape' /\ OneAlive'
    BY <1>1, <2>1, BecomeKeeps DEF IInv, Shape, Alive
  <2>3. Clean' => ProcInv'
    <3>1. \A q \in Procs : Alive(q)' => q = p
      BY <1>1, <2>1, BecomeKeeps DEF IInv, Alive
    <3>2. pc'[p] = l /\ mem'[p] = journal
      BY SMT, <1>1, <2>1, BecomeKeeps DEF IInv
    <3>3. Clean => (journal.committed => InPlace) /\ journal.added \cap Replaced = {}
      BY <2>1 DEF IInv, DiskInv
    <3>4. PcOK(l, journal, journal)'
      BY <1>1 DEF PcOK, Intact, Uncommitted, Undoing
    <3>5. l \notin {"swap", "clear", "rename"}
      OBVIOUS
    <3> QED
      BY <1>1, <1>2, <3>1, <3>2, <3>3, <3>4, <3>5 DEF ProcInv, PcOK
  <2> QED
    BY <1>2, <1>3, <2>2, <2>3 DEF IInv
<1>5. CASE DoctorIdle(p)
  <2>1. Become(p, "sweep", mem[p], todo[p])
    BY <1>5 DEF DoctorIdle, Move
  <2>2. mem[p] = NoJournal
    BY <1>1 DEF IInv, Shape
  <2>3. ~mem[p].committed /\ mem[p].added = {}
    BY SMT, <2>2 DEF NoJournal
  <2>4. PcOK("sweep", mem[p], journal)
    <3>1. "sweep" \notin Intact \cup Uncommitted \cup {"acquired", "restartNew", "prune"}
      BY DEF Intact, Uncommitted, Undoing
    <3> QED
      BY <3>1 DEF PcOK
  <2>5. (mem[p].committed => InPlace) /\ mem[p].added \cap Replaced = {}
    BY <2>3
  <2>6. "sweep" \notin {"swap", "clear", "rename"} /\ errors \subseteq errors'
    BY <1>1
  <2> QED
    BY <1>1, <2>1, <2>4, <2>5, <2>6, MoveKeeps
<1> QED
  BY <1>4, <1>5

\* An update begins: what is installed now is what it may not lose.
LEMMA ApplyStarts ==
  ASSUME StartsAlone, IInv, NEW p \in Procs, NEW v, NEW elevated, Apply(p, v, elevated)
  PROVE  IInv'
<1>1. PICK m, w : /\ Become(p, "acquired", m, w)
                  /\ DOMAIN m = Fields /\ m.committed = FALSE /\ m.added = {}
  <2> DEFINE m == [owner |-> p, state |-> "Init", committed |-> FALSE, added |-> {},
                   running |-> up, plan |-> PlanFor(elevated), to |-> v]
  <2>1. DOMAIN m = Fields /\ m.committed = FALSE /\ m.added = {}
    BY DEF Fields
  <2>2. Become(p, "acquired", m, StopsFor(elevated))
    BY DEF Apply
  <2> HIDE DEF m
  <2> QED
    BY <2>1, <2>2
<1>2. (\A q \in Procs : ~Alive(q)) /\ UNCHANGED <<image, journal>>
  BY DEF StartsAlone, Apply
<1>3. Clean' => ~Pending /\ origin' = image /\ Clean
  BY DEF Apply, Clean, Error, Lossy, trouble
<1>4. DOMAIN bak' = Targets
  BY DEF Apply, Swept, IInv, Shape
<1>5. Shape' /\ OneAlive'
  BY <1>1, <1>2, <1>4, BecomeKeeps DEF IInv, Shape, Alive
<1>6. Clean' => InPlace'
  BY <1>2, <1>3 DEF InPlace, Replaced
<1>7. NoBinaryLost'
  BY <1>6 DEF NoBinaryLost, InPlace, Clean
<1>8. Clean' => DiskInv'
  BY <1>2, <1>3, <1>6 DEF DiskInv, Pending, Terminal
<1>9. /\ pc'[p] = "acquired" /\ mem'[p] = m
      /\ \A q \in Procs \ {p} : ~Alive(q)'
  BY SMT, <1>1, <1>2, BecomeKeeps DEF IInv, Alive
<1>10. Clean' => ProcInv'
  BY <1>1, <1>6, <1>9 DEF ProcInv, PcOK, Intact, Uncommitted, Undoing
<1> QED
  BY <1>5, <1>7, <1>8, <1>10 DEF IInv

LEMMA NextIInv == ASSUME StartsAlone, IInv, [Next]_vars PROVE IInv'
<1>1. CASE UNCHANGED vars
  BY <1>1 DEF vars, IInv, Shape, OneAlive, NoBinaryLost, Clean, DiskInv, ProcInv, PcOK, InPlace,
              Replaced, Alive, Pending, Terminal
<1>2. CASE Next
  <2>1. PICK p \in Procs : \/ \E v \in 2..MaxVersion, elevated \in BOOLEAN : Apply(p, v, elevated)
                           \/ (\E k : Recover(p, k)) \/ DoctorIdle(p) \/ Step(p) \/ Crash(p)
    BY <1>2 DEF Next
  <2>2. CASE Step(p)
    BY <2>2, ApplyTransitions, FinishTransitions, Moves, BackupStep, SwapStep, UndoSteps,
       CleanupSteps, ArchiveStep DEF Step, ApplyStep, UndoStep, FinishStep
  <2> QED
    BY <2>1, <2>2, ApplyStarts, RecoverSteps, Moves
<1> QED
  BY <1>1, <1>2

-----------------------------------------------------------------------------
(* Sequences of work.                                                       *)

Elems(s) == {s[i] : i \in 1..Len(s)}

LEMMA WorkAhead ==
  ASSUME NEW S, NEW w \in Seq(S)
  PROVE  /\ Elems(w) \subseteq S
         /\ w = <<>> => Elems(w) = {}
         /\ w # <<>> => /\ Tail(w) \in Seq(S) /\ Head(w) \in S /\ Head(w) \in Elems(w)
                        /\ Elems(w) = {Head(w)} \cup Elems(Tail(w))
<1>1. Elems(w) \subseteq S /\ (w = <<>> => Elems(w) = {})
  BY SMT DEF Elems
<1>2. ASSUME w # <<>>
      PROVE  /\ Tail(w) \in Seq(S) /\ Head(w) \in S /\ Head(w) \in Elems(w)
             /\ Elems(w) = {Head(w)} \cup Elems(Tail(w))
  <2>1. /\ Len(w) \in Nat \ {0} /\ Tail(w) \in Seq(S) /\ Head(w) = w[1]
        /\ Len(Tail(w)) = Len(w) - 1 /\ \A i \in 1..(Len(w) - 1) : Tail(w)[i] = w[i + 1]
    BY SMT, <1>2
  <2>2. \A i \in 1..Len(w) : w[i] \in {w[1]} \cup Elems(Tail(w))
    <3> TAKE i \in 1..Len(w)
    <3>1. i = 1 \/ (i - 1 \in 1..(Len(w) - 1) /\ (i - 1) + 1 = i)
      BY SMT, <2>1
    <3> QED
      BY <2>1, <3>1 DEF Elems
  <2>3. \A i \in 1..(Len(w) - 1) : Tail(w)[i] \in Elems(w)
    <3> TAKE i \in 1..(Len(w) - 1)
    <3>1. i + 1 \in 1..Len(w)
      BY SMT, <2>1
    <3> QED
      BY <2>1, <3>1 DEF Elems
  <2>4. Head(w) \in S /\ Head(w) \in Elems(w)
    BY SMT, <1>2, <2>1 DEF Elems
  <2>5. Elems(w) \subseteq {Head(w)} \cup Elems(Tail(w))
    BY <2>1, <2>2 DEF Elems
  <2>6. Elems(Tail(w)) \subseteq Elems(w)
    <3> SUFFICES ASSUME NEW i \in 1..(Len(w) - 1) PROVE Tail(w)[i] \in Elems(w)
      BY <2>1 DEF Elems
    <3> QED
      BY <2>3
  <2> QED
    BY <2>1, <2>4, <2>5, <2>6
<1> QED
  BY <1>1, <1>2

LEMMA ElemsConcat ==
  ASSUME NEW S, NEW v \in Seq(S), NEW w \in Seq(S)
  PROVE  v \o w \in Seq(S) /\ Elems(v \o w) = Elems(v) \cup Elems(w)
<1>1. /\ Len(v) \in Nat /\ Len(w) \in Nat /\ v \o w \in Seq(S) /\ Len(v \o w) = Len(v) + Len(w)
      /\ \A i \in 1..(Len(v) + Len(w)) :
           (v \o w)[i] = IF i <= Len(v) THEN v[i] ELSE w[i - Len(v)]
  BY SMT
<1>2. \A i \in 1..(Len(v) + Len(w)) : (v \o w)[i] \in Elems(v) \cup Elems(w)
  <2> TAKE i \in 1..(Len(v) + Len(w))
  <2>1. i \in 1..Len(v) \/ (~(i <= Len(v)) /\ i - Len(v) \in 1..Len(w))
    BY SMT, <1>1
  <2> QED
    BY SMT, <1>1, <2>1 DEF Elems
<1>3. \A i \in 1..Len(v) : v[i] \in Elems(v \o w)
  <2> TAKE i \in 1..Len(v)
  <2>1. i \in 1..(Len(v) + Len(w)) /\ (v \o w)[i] = v[i]
    BY SMT, <1>1
  <2> QED
    BY <1>1, <2>1 DEF Elems
<1>4. \A i \in 1..Len(w) : w[i] \in Elems(v \o w)
  <2> TAKE i \in 1..Len(w)
  <2>1. i + Len(v) \in 1..(Len(v) + Len(w)) /\ (v \o w)[i + Len(v)] = w[i]
    BY SMT, <1>1
  <2> QED
    BY <1>1, <2>1 DEF Elems
<1> QED
  BY <1>1, <1>2, <1>3, <1>4 DEF Elems

LEMMA WholeWork == ASSUME NEW S, NEW w \in Seq(S) PROVE w \in Seq(Elems(w))
  BY SMT DEF Elems

-----------------------------------------------------------------------------
(* Types and control.                                                       *)

Journals == [owner : Procs \cup {0}, state : States, committed : BOOLEAN,
             added : SUBSET Targets, running : SUBSET Services, plan : Seq(Targets),
             to : Versions]

\* Control points in a loop over the plan or over the services, and those that
\* work on the head of what is left.
Looping == {"backup", "swap", "record", "smoke", "undo", "clear", "rename", "prune"}
Serving == {"acquired", "preflight", "preflightOk", "stop", "stopped", "restartOld", "restartNew"}
AtHand == {"stopped", "swap", "record", "clear", "rename"}

Fits(l, m, w) ==
  /\ l \in Looping => w \in Seq(Elems(m.plan))
  /\ l \in Serving => w \in Seq(Services)
  /\ l \in AtHand => w # <<>>

FileTypes ==
  /\ image \in [Targets -> Versions] /\ bak \in [Targets -> Versions]
  /\ staged \in [Stems -> Versions]
RestTypes ==
  /\ journal \in Journals
  /\ up \subseteq Services /\ failed \subseteq Services
  /\ hits \in 0..MaxTrouble /\ errors \subseteq Lossy
Control ==
  /\ DOMAIN pc = Procs /\ mem \in [Procs -> Journals] /\ DOMAIN todo = Procs
  /\ \A p \in Procs : Fits(pc[p], mem[p], todo[p])
TInv == FileTypes /\ RestTypes /\ Control

LEMMA NoJournalType == NoJournal \in Journals
<1>1. <<>> \in Seq(Targets) /\ 0 \in Versions
  BY SMT, UpdateBoundAssumption DEF Versions
<1> QED
  BY <1>1 DEF NoJournal, Journals, States

LEMMA InitTInv == Init => TInv
<1> SUFFICES ASSUME Init PROVE TInv
  OBVIOUS
<1>1. FileTypes
  <2>1. {0, 1} \subseteq Versions
    BY SMT, UpdateBoundAssumption DEF Versions
  <2> QED
    BY <2>1 DEF Init, FileTypes
<1>2. RestTypes
  BY SMT, NoJournalType, UpdateBoundAssumption DEF Init, RestTypes
<1>3. Control
  BY NoJournalType DEF Init, Control, Fits, Looping, Serving, AtHand
<1> QED
  BY <1>1, <1>2, <1>3 DEF TInv

LEMMA BecomeFits ==
  ASSUME Control, NEW p \in Procs, NEW l, NEW m \in Journals, NEW w, Become(p, l, m, w),
         Fits(l, m, w)
  PROVE  Control'
<1>1. DOMAIN pc' = Procs /\ mem' \in [Procs -> Journals] /\ DOMAIN todo' = Procs
  BY NoJournalType DEF Control, Become
<1>2. ASSUME NEW q \in Procs PROVE Fits(pc'[q], mem'[q], todo'[q])
  <2>1. CASE q = p
    BY <2>1 DEF Become, Fits, Control, Looping, Serving, AtHand
  <2>2. CASE q # p
    BY <2>2 DEF Become, Control
  <2> QED
    BY <2>1, <2>2
<1> QED
  BY <1>1, <1>2 DEF Control

LEMMA TroubleTypes ==
  ASSUME RestTypes, NEW e, Error(e) \/ UNCHANGED trouble
  PROVE  hits' \in 0..MaxTrouble /\ errors' \subseteq Lossy
  BY SMT, UpdateBoundAssumption DEF RestTypes, Error, trouble

LEMMA StartOrderType == StartOrder \in Seq(Services) /\ StartOrder # <<>>
  BY SMT DEF StartOrder, Services

LEMMA TransitionTypes ==
  ASSUME TInv, NEW p \in Procs, NEW from, NEW m \in Journals, NEW work, NEW to, NEW onError,
         Transition(p, from, m, work, to, onError),
         Fits(to, m, work), onError \in {"dead", "sweep", "restartOld"}
  PROVE  TInv'
<1>1. FileTypes'
  BY DEF Transition, TInv, FileTypes, files
<1>2. RestTypes'
  BY TroubleTypes DEF Transition, TInv, RestTypes, services
<1>3. Fits(onError, m, StartOrder)
  BY StartOrderType DEF Fits, Looping, Serving, AtHand
<1>4. Control'
  BY <1>3, BecomeFits DEF Transition, TInv
<1> QED
  BY <1>1, <1>2, <1>4 DEF TInv

\* What the types say of one process.
LEMMA AtType ==
  ASSUME TInv, NEW p \in Procs
  PROVE  /\ mem[p] \in Journals /\ Fits(pc[p], mem[p], todo[p])
         /\ \A s \in States : /\ In(p, s) \in Journals /\ In(p, s).plan = mem[p].plan
                              /\ In(p, s).state = s /\ In(p, s).to = mem[p].to
                              /\ In(p, s).owner = mem[p].owner
                              /\ In(p, s).running = mem[p].running
         /\ mem[p].plan \in Seq(Targets) /\ mem[p].plan \in Seq(Elems(mem[p].plan))
         /\ Elems(mem[p].plan) \subseteq Targets
<1>1. mem[p] \in Journals /\ Fits(pc[p], mem[p], todo[p])
  BY DEF TInv, Control
<1>2. mem[p].plan \in Seq(Targets)
  BY <1>1 DEF Journals
<1> QED
  BY SMT, <1>1, <1>2, WorkAhead, WholeWork DEF Journals, In

\* What is left of a loop after its head.
LEMMA Ahead ==
  ASSUME TInv, NEW p \in Procs, todo[p] # <<>>
  PROVE  /\ pc[p] \in Looping => /\ Tail(todo[p]) \in Seq(Elems(mem[p].plan))
                                 /\ Head(todo[p]) \in Elems(mem[p].plan)
                                 /\ Head(todo[p]) \in Targets
                                 /\ Elems(todo[p]) = {Head(todo[p])} \cup Elems(Tail(todo[p]))
         /\ pc[p] \in Serving => /\ Tail(todo[p]) \in Seq(Services)
                                 /\ Head(todo[p]) \in Services
                                 /\ Elems(todo[p]) = {Head(todo[p])} \cup Elems(Tail(todo[p]))
<1>1. CASE pc[p] \in Looping
  <2>1. todo[p] \in Seq(Elems(mem[p].plan)) /\ Elems(mem[p].plan) \subseteq Targets
    BY <1>1, AtType DEF Fits
  <2>2. pc[p] \notin Serving
    BY <1>1 DEF Looping, Serving
  <2>3. /\ Tail(todo[p]) \in Seq(Elems(mem[p].plan)) /\ Head(todo[p]) \in Elems(mem[p].plan)
        /\ Elems(todo[p]) = {Head(todo[p])} \cup Elems(Tail(todo[p]))
    <3> DEFINE S == Elems(mem[p].plan)
    <3>1. todo[p] \in Seq(S)
      BY <2>1
    <3> HIDE DEF S
    <3>2. /\ Tail(todo[p]) \in Seq(S) /\ Head(todo[p]) \in S
          /\ Elems(todo[p]) = {Head(todo[p])} \cup Elems(Tail(todo[p]))
      BY SMT, <3>1, WorkAhead
    <3> QED
      BY <3>2 DEF S
  <2> QED
    BY <2>1, <2>2, <2>3
<1>2. CASE pc[p] \in Serving
  <2>1. todo[p] \in Seq(Services)
    BY <1>2, AtType DEF Fits
  <2>2. pc[p] \notin Looping
    BY <1>2 DEF Looping, Serving
  <2> QED
    BY SMT, <2>1, <2>2, WorkAhead
<1> QED
  BY <1>1, <1>2

\* Which work fits which control point.
LEMMA FitsWork ==
  ASSUME NEW m, NEW w
  PROVE  /\ w \in Seq(Elems(m.plan)) => \A l \in {"backup", "smoke", "undo", "prune"} : Fits(l, m, w)
         /\ w \in Seq(Services) =>
              \A l \in {"preflight", "stop", "restartOld", "restartNew"} : Fits(l, m, w)
         /\ \A l \in {"swapping", "archive"} : Fits(l, m, w)
  BY DEF Fits, Looping, Serving, AtHand

LEMMA TransitionsTyped ==
  ASSUME TInv, NEW p \in Procs,
         \/ Acquired(p) \/ PreflightOk(p) \/ Stopped(p) \/ Quiesced(p) \/ Swapping(p)
         \/ Record(p) \/ Swapped(p) \/ Commit(p)
         \/ RollingBack(p) \/ RolledBack(p) \/ Restored(p) \/ Done(p) \/ Aborted(p)
  PROVE  TInv'
<1>1. Leave(p) \in {"sweep", "dead"} /\ UndoError(p) \in {"restartOld", "sweep", "dead"}
  BY DEF Leave, UndoError
<1>2. \A s \in {"Acquired", "PreflightOk", "Quiesced", "Swapping", "Swapped", "SmokeOk",
                "RollingBack", "RolledBack", "Restored", "Done", "Aborted"} :
        In(p, s) \in Journals /\ mem[p].plan \in Seq(Elems(In(p, s).plan))
  <2>1. ASSUME NEW s \in States
        PROVE  In(p, s) \in Journals /\ mem[p].plan \in Seq(Elems(In(p, s).plan))
    <3>1. In(p, s) \in Journals /\ In(p, s).plan = mem[p].plan
      BY AtType
    <3>2. mem[p].plan \in Seq(Elems(mem[p].plan))
      BY AtType
    <3> QED
      BY <3>1, <3>2
  <2> QED
    BY <2>1 DEF States
<1>3. /\ pc[p] \in {"acquired", "preflightOk"} => todo[p] \in Seq(Services)
      /\ pc[p] = "stopped" => Tail(todo[p]) \in Seq(Services)
      /\ pc[p] = "record" => Tail(todo[p]) \in Seq(Elems(mem[p].plan))
  <2>1. Fits(pc[p], mem[p], todo[p])
    BY AtType
  <2>2. pc[p] \in {"stopped", "record"} => todo[p] # <<>>
    BY <2>1 DEF Fits, AtHand
  <2>3. pc[p] \in {"acquired", "preflightOk"} => todo[p] \in Seq(Services)
    BY <2>1 DEF Fits, Serving
  <2> QED
    BY <2>2, <2>3, Ahead DEF Serving, Looping
<1>4. CASE Acquired(p)
  <2>1. pc[p] = "acquired" /\ Transition(p, "acquired", In(p, "Acquired"), todo[p], "preflight", "dead")
    BY <1>4 DEF Acquired, Transition
  <2>2. In(p, "Acquired") \in Journals /\ Fits("preflight", In(p, "Acquired"), todo[p])
    BY <1>2, <1>3, <2>1, FitsWork
  <2> QED
    BY <1>1, <2>1, <2>2, TransitionTypes
<1>5. CASE PreflightOk(p)
  <2>1. pc[p] = "preflightOk" /\ Transition(p, "preflightOk", In(p, "PreflightOk"), todo[p], "stop", "dead")
    BY <1>5 DEF PreflightOk, Transition
  <2>2. In(p, "PreflightOk") \in Journals /\ Fits("stop", In(p, "PreflightOk"), todo[p])
    BY <1>2, <1>3, <2>1, FitsWork
  <2> QED
    BY <1>1, <2>1, <2>2, TransitionTypes
<1>6. CASE Stopped(p)
  <2>1. pc[p] = "stopped" /\ Transition(p, "stopped", In(p, "Quiesced"), Tail(todo[p]), "stop", "dead")
    BY <1>6 DEF Stopped, Transition
  <2>2. In(p, "Quiesced") \in Journals /\ Fits("stop", In(p, "Quiesced"), Tail(todo[p]))
    BY <1>2, <1>3, <2>1, FitsWork
  <2> QED
    BY <1>1, <2>1, <2>2, TransitionTypes
<1>7. CASE Quiesced(p)
  <2>1. pc[p] = "stop" /\ Transition(p, "stop", In(p, "Quiesced"), <<>>, "swapping", "dead")
    BY <1>7 DEF Quiesced, Transition
  <2>2. In(p, "Quiesced") \in Journals /\ Fits("swapping", In(p, "Quiesced"), <<>>)
    BY <1>2, FitsWork
  <2> QED
    BY <1>1, <2>1, <2>2, TransitionTypes
<1>8. CASE Swapping(p)
  <2>1. pc[p] = "swapping" /\ Transition(p, "swapping", In(p, "Swapping"), mem[p].plan, "backup", "restartOld")
    BY <1>8 DEF Swapping, Transition
  <2>2. In(p, "Swapping") \in Journals /\ Fits("backup", In(p, "Swapping"), mem[p].plan)
    BY <1>2, FitsWork
  <2> QED
    BY <1>1, <2>1, <2>2, TransitionTypes
<1>9. CASE Record(p)
  <2>1. pc[p] = "record" /\ Transition(p, "record", mem[p], Tail(todo[p]), "backup", "restartOld")
    BY <1>9 DEF Record, Transition
  <2>2. mem[p] \in Journals /\ Fits("backup", mem[p], Tail(todo[p]))
    BY <1>3, <2>1, AtType, FitsWork
  <2> QED
    BY <1>1, <2>1, <2>2, TransitionTypes
<1>10. CASE Swapped(p)
  <2>1. pc[p] = "backup" /\ Transition(p, "backup", In(p, "Swapped"), mem[p].plan, "smoke", "restartOld")
    BY <1>10 DEF Swapped, Transition
  <2>2. In(p, "Swapped") \in Journals /\ Fits("smoke", In(p, "Swapped"), mem[p].plan)
    BY <1>2, FitsWork
  <2> QED
    BY <1>1, <2>1, <2>2, TransitionTypes
<1>11. CASE Commit(p)
  <2> DEFINE m == [In(p, "SmokeOk") EXCEPT !.committed = TRUE]
  <2>1. m \in Journals
    BY <1>2 DEF Journals
  <2>2. Fits("restartNew", m, StartOrder)
    BY StartOrderType, FitsWork
  <2>3. Transition(p, "smoke", m, StartOrder, "restartNew", "restartOld")
    BY <1>11 DEF Commit
  <2> HIDE DEF m
  <2> QED
    BY <2>1, <2>2, <2>3, TransitionTypes
<1>12. CASE RollingBack(p)
  <2>1. pc[p] = "rollingBack" /\ Transition(p, "rollingBack", In(p, "RollingBack"), mem[p].plan, "undo", UndoError(p))
    BY <1>12 DEF RollingBack, Transition
  <2>2. In(p, "RollingBack") \in Journals /\ Fits("undo", In(p, "RollingBack"), mem[p].plan)
    BY <1>2, FitsWork
  <2> QED
    BY <1>1, <2>1, <2>2, TransitionTypes
<1>13. CASE Restored(p)
  <2>1. pc[p] = "restartNew" /\ Transition(p, "restartNew", In(p, "Restored"), mem[p].plan, "prune", Leave(p))
    BY <1>13 DEF Restored, Transition
  <2>2. In(p, "Restored") \in Journals /\ Fits("prune", In(p, "Restored"), mem[p].plan)
    BY <1>2, FitsWork
  <2> QED
    BY <1>1, <2>1, <2>2, TransitionTypes
<1>14. CASE RolledBack(p)
  <2>1. pc[p] = "undo" /\ Transition(p, "undo", In(p, "RolledBack"), StartOrder, "restartOld", UndoError(p))
    BY <1>14 DEF RolledBack, Transition
  <2>2. In(p, "RolledBack") \in Journals /\ Fits("restartOld", In(p, "RolledBack"), StartOrder)
    BY <1>2, StartOrderType, FitsWork
  <2> QED
    BY <1>1, <2>1, <2>2, TransitionTypes
<1>15. CASE Done(p) \/ Aborted(p)
  <2>1. PICK s \in {"Done", "Aborted"}, e \in {"sweep", "dead"} :
          \E from : Transition(p, from, In(p, s), <<>>, "archive", e)
    BY <1>1, <1>15 DEF Done, Aborted
  <2>2. In(p, s) \in Journals /\ Fits("archive", In(p, s), <<>>)
    BY <1>2, FitsWork
  <2> QED
    BY <2>1, <2>2, TransitionTypes
<1> QED
  BY <1>4, <1>5, <1>6, <1>7, <1>8, <1>9, <1>10, <1>11, <1>12, <1>13, <1>14, <1>15

LEMMA MovesTyped ==
  ASSUME TInv, NEW p \in Procs,
         \/ Preflight(p) \/ Stop(p) \/ Smoke(p) \/ Restart(p) \/ Archive(p)
         \/ DoctorIdle(p) \/ Crash(p)
  PROVE  TInv'
<1> USE DEF Looping, Serving, AtHand, Move, Advance
<1>1. FileTypes'
  BY DEF TInv, FileTypes, files, Preflight, Stop, Smoke, Restart, Archive, DoctorIdle, Crash
<1>2. hits' \in 0..MaxTrouble /\ errors' \subseteq Lossy
  <2>1. CASE Crash(p)
    <3>1. hits \in 0..MaxTrouble /\ hits < MaxTrouble /\ hits' = hits + 1
      BY <2>1 DEF Crash, TInv, RestTypes
    <3>2. hits' \in 0..MaxTrouble
      BY SMT, <3>1, UpdateBoundAssumption
    <3> QED
      BY <2>1, <3>2 DEF Crash, TInv, RestTypes
  <2> QED
    BY <2>1, TroubleTypes DEF TInv, Preflight, Stop, Smoke, Restart, Archive, DoctorIdle
<1>3. journal' \in Journals
  BY NoJournalType DEF TInv, RestTypes, Preflight, Stop, Smoke, Restart, Archive, DoctorIdle, Crash
<1>4. up' \subseteq Services /\ failed' \subseteq Services
  <2>1. CASE Restart(p)
    <3>1. mem[p].running \subseteq Services
      BY AtType DEF Journals
    <3> QED
      BY <2>1, <3>1 DEF Restart, TInv, RestTypes, services
  <2> QED
    BY <2>1 DEF TInv, RestTypes, services, Preflight, Stop, Smoke, Archive, DoctorIdle, Crash
<1>5. Control'
  <2>1. CASE Preflight(p)
    BY <2>1, AtType, BecomeFits DEF Preflight, Fits, TInv
  <2>2. CASE Stop(p)
    BY <2>2, AtType, BecomeFits DEF Stop, Fits, TInv
  <2>3. CASE Smoke(p)
    BY <2>3, AtType, Ahead, BecomeFits DEF Smoke, Fits, TInv
  <2>4. CASE Restart(p)
    BY <2>4, AtType, Ahead, BecomeFits DEF Restart, Fits, TInv
  <2>5. CASE Archive(p)
    BY <2>5, AtType, BecomeFits DEF Archive, Leave, Fits, TInv
  <2>6. CASE DoctorIdle(p) \/ Crash(p)
    BY <2>6, AtType, BecomeFits DEF DoctorIdle, Crash, Fits, TInv
  <2> QED
    BY <2>1, <2>2, <2>3, <2>4, <2>5, <2>6
<1> QED
  BY <1>1, <1>2, <1>3, <1>4, <1>5 DEF TInv, RestTypes

\* The steps that touch binaries.
LEMMA FileStepsTyped ==
  ASSUME TInv, NEW p \in Procs,
         \/ Backup(p) \/ Swap(p) \/ Undo(p) \/ Clear(p) \/ Rename(p) \/ Prune(p)
         \/ DoctorSweep(p)
  PROVE  TInv'
<1> DEFINE t == Head(todo[p])
<1> USE DEF Looping, Serving, AtHand, Move, Advance
<1>1. RestTypes'
  BY TroubleTypes DEF TInv, RestTypes, services, Backup, Swap, Undo, Clear, Rename, Prune,
                      DoctorSweep
<1>2. 0 \in Versions /\ mem[p] \in Journals /\ Fits(pc[p], mem[p], todo[p])
  <2>1. 0 \in Versions
    BY SMT, UpdateBoundAssumption DEF Versions
  <2> QED
    BY <2>1, AtType
<1>3. UndoError(p) \in {"restartOld", "sweep", "dead"}
  BY DEF Leave, UndoError
<1>4. CASE Backup(p)
  <2>1. pc[p] = "backup" /\ t \in Targets
    BY <1>4, Ahead DEF Backup
  <2>2. FileTypes'
    BY <1>2, <1>4, <2>1 DEF Backup, TInv, FileTypes
  <2>3. Adds(p, t) \in Journals /\ Adds(p, t).plan = mem[p].plan
    BY <1>2, <2>1 DEF Adds, Journals
  <2>4. \E l \in {"swap", "rollingBack"}, m \in {mem[p], Adds(p, t)} : Become(p, l, m, todo[p])
    BY <1>4 DEF Backup
  <2>5. Control'
    BY <1>2, <1>4, <2>1, <2>3, <2>4, BecomeFits DEF Backup, Fits, TInv
  <2> QED
    BY <1>1, <2>2, <2>5 DEF TInv
<1>5. CASE Swap(p)
  <2> DEFINE m == [mem[p] EXCEPT !.added = @ \ {t}]
  <2>1. pc[p] = "swap" /\ todo[p] # <<>> /\ t \in Targets /\ Stem[t] \in Stems
    BY <1>2, <1>5, Ahead DEF Swap, Fits, Stems
  <2>2. FileTypes'
    BY <1>2, <1>5, <2>1 DEF Swap, TInv, FileTypes
  <2>3. m \in Journals
    BY <1>2 DEF Journals
  <2>4. \/ Become(p, "record", mem[p], todo[p]) \/ Become(p, "rollingBack", m, todo[p])
    BY <1>5 DEF Swap
  <2> HIDE DEF m
  <2>5. Control'
    BY <1>2, <2>1, <2>3, <2>4, BecomeFits DEF Fits, TInv
  <2> QED
    BY <1>1, <2>2, <2>5 DEF TInv
<1>6. CASE Undo(p)
  <2>1. pc[p] = "undo" /\ todo[p] # <<>> /\ t \in Targets /\ Tail(todo[p]) \in Seq(Elems(mem[p].plan))
    BY <1>6, Ahead DEF Undo
  <2>2. FileTypes'
    BY <1>2, <1>6, <2>1 DEF Undo, TInv, FileTypes
  <2>3. \/ Become(p, "undo", mem[p], Tail(todo[p])) \/ Become(p, "clear", mem[p], todo[p])
        \/ Become(p, UndoError(p), mem[p], StartOrder)
    BY <1>6 DEF Undo
  <2>4. Control'
    BY <1>2, <1>3, <2>1, <2>3, StartOrderType, BecomeFits DEF Fits, TInv
  <2> QED
    BY <1>1, <2>2, <2>4 DEF TInv
<1>7. CASE Clear(p) \/ Rename(p)
  <2>1. pc[p] \in {"clear", "rename"} /\ todo[p] # <<>>
    BY <1>2, <1>7 DEF Clear, Rename, Fits
  <2>2. t \in Targets /\ Tail(todo[p]) \in Seq(Elems(mem[p].plan))
    BY <2>1, Ahead
  <2>3. FileTypes'
    BY <1>2, <1>7, <2>2 DEF Clear, Rename, TInv, FileTypes
  <2>4. \/ Become(p, "undo", mem[p], Tail(todo[p])) \/ Become(p, "rename", mem[p], todo[p])
        \/ Become(p, UndoError(p), mem[p], StartOrder)
    BY <1>7 DEF Clear, Rename
  <2>5. Control'
    BY <1>2, <1>3, <2>1, <2>2, <2>4, StartOrderType, BecomeFits DEF Fits, TInv
  <2> QED
    BY <1>1, <2>3, <2>5 DEF TInv
<1>8. CASE Prune(p)
  <2>1. pc[p] = "prune" /\ t \in Targets /\ Tail(todo[p]) \in Seq(Elems(mem[p].plan))
    BY <1>8, Ahead DEF Prune
  <2>2. FileTypes'
    BY <1>2, <1>8, <2>1 DEF Prune, TInv, FileTypes
  <2>3. Control'
    BY <1>2, <1>8, <2>1, BecomeFits DEF Prune, Fits, TInv
  <2> QED
    BY <1>1, <2>2, <2>3 DEF TInv
<1>9. CASE DoctorSweep(p)
  <2>1. FileTypes'
    BY <1>2, <1>9 DEF DoctorSweep, Swept, TInv, FileTypes
  <2>2. Control'
    BY <1>2, <1>9, BecomeFits DEF DoctorSweep, Fits, TInv
  <2> QED
    BY <1>1, <2>1, <2>2 DEF TInv
<1> QED
  BY <1>4, <1>5, <1>6, <1>7, <1>8, <1>9

\* quiesce stops the daemon, and with elevation the broker, when they run.
LEMMA StopsKnown ==
  ASSUME NEW elevated \in BOOLEAN
  PROVE  /\ StopsFor(elevated) \in Seq(Services)
         /\ "daemon" \in up => "daemon" \in Elems(StopsFor(elevated))
         /\ "broker" \in up /\ elevated => "broker" \in Elems(StopsFor(elevated))
<1> DEFINE one(c, ok) == IF c \in up /\ ok THEN <<c>> ELSE <<>>
<1>1. \A c \in Services : \A ok : one(c, ok) \in Seq(Services)
  BY SMT
<1>2. \A c : c \in Elems(<<c>>)
  BY SMT DEF Elems
<1>3. "mcp" \in Services /\ "daemon" \in Services /\ "broker" \in Services
  BY DEF Services
<1> DEFINE a == one("mcp", TRUE)
           b == one("daemon", TRUE)
           d == one("broker", elevated)
<1>4. /\ a \in Seq(Services) /\ b \in Seq(Services) /\ d \in Seq(Services)
      /\ "daemon" \in up => "daemon" \in Elems(b)
      /\ "broker" \in up /\ elevated => "broker" \in Elems(d)
  BY <1>1, <1>2, <1>3
<1>5. StopsFor(elevated) = a \o b \o d
  BY DEF StopsFor
<1> HIDE DEF a, b, d
<1>6. a \o b \in Seq(Services) /\ Elems(a \o b) = Elems(a) \cup Elems(b)
  BY SMT, <1>4, ElemsConcat
<1>7. a \o b \o d \in Seq(Services) /\ Elems(a \o b \o d) = Elems(a \o b) \cup Elems(d)
  <2> DEFINE ab == a \o b
  <2>1. ab \in Seq(Services)
    BY <1>6
  <2> HIDE DEF ab
  <2>2. ab \o d \in Seq(Services) /\ Elems(ab \o d) = Elems(ab) \cup Elems(d)
    BY SMT, <1>4, <2>1, ElemsConcat
  <2> QED
    BY <2>2 DEF ab
<1> QED
  BY <1>4, <1>5, <1>6, <1>7

\* An update begins with a plan out of the snapshot and with services to stop.
LEMMA StartsTyped ==
  ASSUME BrokerDropped, TInv, NEW p \in Procs,
         \/ \E v \in 2..MaxVersion, elevated \in BOOLEAN : Apply(p, v, elevated)
         \/ \E k : Recover(p, k)
  PROVE  TInv'
<1>1. CASE \E k : Recover(p, k)
  <2>1. FileTypes' /\ RestTypes'
    BY <1>1 DEF Recover, RecoverAt, TInv, FileTypes, RestTypes, files, services, trouble
  <2>2. journal \in Journals /\ \E l \in {"restartNew", "rollingBack"} : Become(p, l, journal, StartOrder)
    BY <1>1 DEF Recover, RecoverAt, TInv, RestTypes
  <2>3. Control'
    BY <2>2, StartOrderType, BecomeFits DEF TInv, Fits, Looping, Serving, AtHand
  <2> QED
    BY <2>1, <2>3 DEF TInv
<1>2. ASSUME NEW v \in 2..MaxVersion, NEW elevated \in BOOLEAN, Apply(p, v, elevated)
      PROVE  TInv'
  <2> DEFINE m == [owner |-> p, state |-> "Init", committed |-> FALSE, added |-> {},
                   running |-> up, plan |-> PlanFor(elevated), to |-> v]
             w == StopsFor(elevated)
  <2>1. v \in Versions /\ 0 \in Versions
    BY SMT, UpdateBoundAssumption DEF Versions
  <2>2. FileTypes'
    BY <1>2, <2>1 DEF Apply, Swept, TInv, FileTypes
  <2>3. RestTypes'
    BY <1>2, TroubleTypes DEF Apply, TInv, RestTypes, services
  <2>4. PlanFor(elevated) \in Seq(Targets)
    <3>1. Retain[Len(Plan)] \in Seq(Targets)
      BY SMT DEF BrokerDropped
    <3> QED
      BY <3>1, PlanAssumption DEF PlanFor
  <2>5. m \in Journals
    BY <2>1, <2>4 DEF Journals, States, TInv, RestTypes
  <2>6. w \in Seq(Services)
    BY StopsKnown
  <2>7. Become(p, "acquired", m, w)
    BY <1>2 DEF Apply
  <2> HIDE DEF m, w
  <2>8. Control'
    BY <2>5, <2>6, <2>7, BecomeFits DEF TInv, Fits, Looping, Serving, AtHand
  <2> QED
    BY <2>2, <2>3, <2>8 DEF TInv
<1> QED
  BY <1>1, <1>2

LEMMA NextTInv == ASSUME BrokerDropped, TInv, [Next]_vars PROVE TInv'
<1>1. CASE UNCHANGED vars
  BY <1>1 DEF vars, TInv, FileTypes, RestTypes, Control
<1>2. CASE Next
  <2>1. PICK p \in Procs : \/ \E v \in 2..MaxVersion, elevated \in BOOLEAN : Apply(p, v, elevated)
                           \/ (\E k : Recover(p, k)) \/ DoctorIdle(p) \/ Step(p) \/ Crash(p)
    BY <1>2 DEF Next
  <2>2. CASE Step(p)
    BY <2>2, TransitionsTyped, MovesTyped, FileStepsTyped
       DEF Step, ApplyStep, UndoStep, FinishStep
  <2> QED
    BY <2>1, <2>2, StartsTyped, MovesTyped
<1> QED
  BY <1>1, <1>2

-----------------------------------------------------------------------------
(* What a rollback and a recovery rely on, and the stops before the swaps.  *)

\* On disk: no backups; every replaced binary back; nothing touched; every replaced
\* binary in place or aside, and nothing else aside.
NoBaks == \A t \in Targets : bak[t] = 0
Rolled == NoBaks /\ \A t \in Targets : origin[t] # 0 => image[t] = origin[t]
Pristine == NoBaks /\ \A t \in Targets : image[t] = origin[t]
Kept == \A t \in Targets : /\ bak[t] \in {0, origin[t]}
                           /\ origin[t] # 0 /\ bak[t] = 0 => image[t] = origin[t]
\* Backups only of the binaries in s; the plan of j all at the new version.
BaksIn(s) == \A t \in Targets : bak[t] # 0 => t \in Elems(s)
AllNew(j) == \A t \in Elems(j.plan) : image[t] = j.to
\* The staging directory of version v: an added binary is in place or still staged.
Stage(v) == /\ \A s \in Stems : staged[s] \in {0, v}
            /\ \A t \in Targets : origin[t] = 0 => image[t] = 0 \/ staged[Stem[t]] = 0

Live(j) == j.state \notin {"none", "Done", "Aborted"}

\* What a journal j on disk says of the binaries.
DiskOK(j) ==
  /\ Live(j) => /\ j.owner \in Procs /\ BaksIn(j.plan)
                /\ IF j.committed THEN AllNew(j) ELSE Kept
  /\ ~Live(j) => NoBaks
  /\ j.state = "none" => j = NoJournal
  /\ j.state = "Done" => AllNew(j)
  /\ j.state = "Aborted" => Rolled

\* What a process at l with journal value m and work w knows, j on disk.
Before == {"preflight", "preflightOk", "stop", "stopped", "swapping", "aborted"}
InSwap == {"backup", "swap", "record"}
ProcOK(l, m, w, j) ==
  /\ l \notin {"dead", "sweep", "archive"} => m.owner \in Procs /\ Live(m)
  /\ l \notin {"dead", "sweep", "archive", "acquired"} =>
       Live(j) /\ j.plan = m.plan /\ j.to = m.to
  /\ l \in {"acquired", "sweep", "archive"} => ~Live(j)
  /\ l \in Before \cup {"acquired"} => Pristine
  /\ l \in (Before \cup InSwap \cup {"acquired"}) \ {"aborted"} => Stage(m.to)
  /\ l \in InSwap => \A t \in Elems(m.plan) : t \in Elems(w) \/ image[t] = m.to
  /\ l = "swap" => (origin[Head(w)] # 0 => bak[Head(w)] # 0)
  /\ l = "record" => image[Head(w)] = m.to
  /\ l = "smoke" => AllNew(m)
  /\ l \in {"undo", "clear", "rename", "prune"} => BaksIn(w)
  /\ l = "restartOld" => Rolled
  /\ l \in {"restartNew", "prune"} => j.committed

OInv == errors = {} =>
  /\ DiskOK(journal)
  /\ \A p \in Procs : ProcOK(pc[p], mem[p], todo[p], journal)

LEMMA InitOInv == Init => OInv
<1> SUFFICES ASSUME Init PROVE OInv
  OBVIOUS
<1>1. DiskOK(journal)
  BY DEF Init, DiskOK, Live, NoBaks, NoJournal
<1>2. ASSUME NEW p \in Procs PROVE ProcOK(pc[p], mem[p], todo[p], journal)
  BY DEF Init, ProcOK, Before, InSwap
<1> QED
  BY <1>1, <1>2 DEF OInv

\* Pending, once a journal without a state is no journal.
LEMMA LiveIsPending ==
  ASSUME DiskOK(journal) PROVE Pending <=> Live(journal)
  BY SMT DEF DiskOK, Pending, Terminal, Live, NoJournal

\* A pristine or rolled back disk meets every weaker condition.
LEMMA Weaker ==
  /\ Pristine => Rolled
  /\ Rolled => Kept
  /\ Rolled => NoBaks
  /\ NoBaks => \A s : BaksIn(s)
  BY DEF Pristine, Rolled, Kept, NoBaks, BaksIn

\* What a step that leaves the binaries alone leaves as it was.
LEMMA SameFiles ==
  ASSUME UNCHANGED <<image, bak, staged, origin>>
  PROVE  /\ \A l, m, w, j : ProcOK(l, m, w, j)' <=> ProcOK(l, m, w, j)
         /\ \A j : DiskOK(j)' <=> DiskOK(j)
<1>1. /\ NoBaks' <=> NoBaks
      /\ Rolled' <=> Rolled
      /\ Pristine' <=> Pristine
      /\ Kept' <=> Kept
  BY DEF NoBaks, Rolled, Pristine, Kept
<1>2. \A s : BaksIn(s)' <=> BaksIn(s)
  BY DEF BaksIn
<1>3. \A j : AllNew(j)' <=> AllNew(j)
  BY DEF AllNew
<1>4. \A v : Stage(v)' <=> Stage(v)
  BY DEF Stage
<1> QED
  BY SMT, <1>1, <1>2, <1>3, <1>4 DEF ProcOK, DiskOK

\* After a step of the only process that runs, its own knowledge is what counts.
LEMMA OnlyOne ==
  ASSUME NEW p \in Procs, \A q \in Procs \ {p} : pc'[q] = "dead",
         errors' = {} => /\ DiskOK(journal)'
                         /\ ProcOK(pc[p], mem[p], todo[p], journal)'
  PROVE  OInv'
<1>1. ASSUME NEW q \in Procs \ {p} PROVE ProcOK(pc[q], mem[q], todo[q], journal)'
  BY <1>1 DEF ProcOK, Before, InSwap
<1> QED
  BY <1>1 DEF OInv

\* Where a step takes its process, while the others stay dead.
LEMMA BecomeAt ==
  ASSUME IInv, TInv, NEW p \in Procs, \A q \in Procs \ {p} : ~Alive(q),
         NEW l, NEW m, NEW w, Become(p, l, m, w)
  PROVE  /\ \A q \in Procs \ {p} : pc'[q] = "dead"
         /\ pc'[p] = l
         /\ l # "dead" => mem'[p] = m /\ todo'[p] = w
  BY DEF TInv, Control, Become, Alive

\* A journal transition when nothing is lost: it was saved.
LEMMA SavedOutcome ==
  ASSUME IInv, TInv, OInv, NEW p \in Procs, NEW from, NEW m, NEW work, NEW to, NEW onError,
         Transition(p, from, m, work, to, onError), from # "dead", to # "dead",
         errors = {} => DiskOK(m) /\ ProcOK(to, m, work, m)
  PROVE  OInv'
<1>1. Alive(p) /\ \A q \in Procs \ {p} : ~Alive(q)
  BY DEF Transition, IInv, OneAlive, Alive
<1>2. UNCHANGED <<image, bak, staged, origin>>
  BY DEF Transition, files
<1>3. CASE journal' = m /\ Become(p, to, m, work) /\ UNCHANGED trouble
  <2>1. /\ \A q \in Procs \ {p} : pc'[q] = "dead"
        /\ pc'[p] = to /\ mem'[p] = m /\ todo'[p] = work
    BY <1>1, <1>3, BecomeAt
  <2>2. errors' = {} => DiskOK(m)' /\ ProcOK(to, m, work, m)'
    BY <1>2, <1>3, SameFiles DEF trouble
  <2>3. errors' = {} => DiskOK(journal)' /\ ProcOK(pc[p], mem[p], todo[p], journal)'
    BY <1>3, <2>1, <2>2
  <2> QED
    BY <2>1, <2>3, OnlyOne
<1>4. CASE Error("saveFails") /\ Become(p, onError, m, StartOrder)
  <2>1. errors' # {} /\ \A q \in Procs \ {p} : pc'[q] = "dead"
    BY <1>1, <1>4, BecomeAt DEF Error, Lossy
  <2> QED
    BY <2>1 DEF OInv
<1> QED
  BY <1>3, <1>4 DEF Transition

\* A step that touches neither binaries nor journal.
LEMMA MovedOutcome ==
  ASSUME IInv, TInv, OInv, NEW p \in Procs, NEW l, NEW m, NEW w,
         \A q \in Procs \ {p} : ~Alive(q), Become(p, l, m, w),
         UNCHANGED <<image, bak, staged, origin, journal>>, errors \subseteq errors',
         errors = {} => ProcOK(l, m, w, journal)
  PROVE  OInv'
<1>1. errors' = {} => errors = {} /\ DiskOK(journal) /\ ProcOK(l, m, w, journal)
  BY DEF OInv
<1>2. \A q \in Procs \ {p} : pc'[q] = "dead"
  BY BecomeAt
<1>3. CASE l = "dead"
  <2>1. pc'[p] = "dead"
    BY <1>3, BecomeAt
  <2>2. errors' = {} => DiskOK(journal)'
    BY <1>1, SameFiles
  <2>3. ProcOK(pc[p], mem[p], todo[p], journal)'
    BY <2>1 DEF ProcOK, Before, InSwap
  <2> QED
    BY <1>2, <2>2, <2>3, OnlyOne
<1>4. CASE l # "dead"
  <2>1. pc'[p] = l /\ mem'[p] = m /\ todo'[p] = w
    BY SMT, <1>4, BecomeAt
  <2>2. errors' = {} => DiskOK(journal)' /\ ProcOK(pc[p], mem[p], todo[p], journal)'
    BY <1>1, <2>1, SameFiles
  <2> QED
    BY <1>2, <2>2, OnlyOne
<1> QED
  BY <1>3, <1>4

LEMMA HereOK ==
  ASSUME IInv, TInv, OInv, NEW p \in Procs, Alive(p)
  PROVE  /\ \A q \in Procs \ {p} : ~Alive(q)
         /\ errors = {} => /\ DiskOK(journal) /\ ProcOK(pc[p], mem[p], todo[p], journal)
                           /\ Clean /\ PcOK(pc[p], mem[p], journal)
                           /\ mem[p].added \cap Replaced = {}
  BY AtPoint DEF OInv, Clean

\* What a transition to the given state writes.
LEMMA Written ==
  ASSUME IInv, TInv, NEW p \in Procs, Alive(p), NEW s \in States
  PROVE  /\ In(p, s).plan = mem[p].plan /\ In(p, s).to = mem[p].to
         /\ In(p, s).owner = mem[p].owner /\ In(p, s).committed = mem[p].committed
         /\ In(p, s).state = s
         /\ AllNew(In(p, s)) <=> AllNew(mem[p])
  BY SMT, AtPoint, AtType DEF AllNew

LEMMA SavedApply ==
  ASSUME IInv, TInv, OInv, NEW p \in Procs,
         \/ Acquired(p) \/ PreflightOk(p) \/ Stopped(p) \/ Quiesced(p) \/ Swapping(p)
  PROVE  OInv'
<1>1. ASSUME NEW from \in {"acquired", "preflightOk", "stop", "stopped", "swapping"}, pc[p] = from,
             errors = {}, NEW s \in {"Acquired", "PreflightOk", "Quiesced", "Swapping"},
             NEW w, NEW to \in {"preflight", "stop", "swapping", "backup"},
             to = "backup" => w = mem[p].plan
      PROVE  DiskOK(In(p, s)) /\ ProcOK(to, In(p, s), w, In(p, s))
  <2>1. Alive(p) /\ s \in States
    BY <1>1 DEF Alive, States
  <2>2. mem[p].owner \in Procs /\ Pristine /\ Stage(mem[p].to) /\ ~mem[p].committed
    BY <1>1, <2>1, HereOK DEF ProcOK, Before, InSwap, PcOK, Intact, Uncommitted
  <2>3. NoBaks /\ Kept /\ BaksIn(mem[p].plan)
    BY <2>2, Weaker
  <2>4. DiskOK(In(p, s))
    BY SMT, <1>1, <2>1, <2>2, <2>3, Written DEF DiskOK, Live
  <2>5. ProcOK(to, In(p, s), w, In(p, s))
    BY <1>1, <2>1, <2>2, <2>3, Written DEF ProcOK, Before, InSwap, Live
  <2> QED
    BY <2>4, <2>5
<1>2. CASE Acquired(p)
  BY <1>1, <1>2, SavedOutcome DEF Acquired, Transition
<1>3. CASE PreflightOk(p)
  BY SMT, <1>1, <1>3, SavedOutcome DEF PreflightOk, Transition
<1>4. CASE Stopped(p)
  BY <1>1, <1>4, SavedOutcome DEF Stopped, Transition
<1>5. CASE Quiesced(p)
  BY <1>1, <1>5, SavedOutcome DEF Quiesced, Transition
<1>6. CASE Swapping(p)
  <2>1. /\ pc[p] = "swapping"
        /\ Transition(p, "swapping", In(p, "Swapping"), mem[p].plan, "backup", "restartOld")
    BY <1>6 DEF Swapping, Transition
  <2>2. errors = {} => /\ DiskOK(In(p, "Swapping"))
                       /\ ProcOK("backup", In(p, "Swapping"), mem[p].plan, In(p, "Swapping"))
    BY <1>1, <2>1
  <2> QED
    BY <2>1, <2>2, SavedOutcome
<1> QED
  BY <1>2, <1>3, <1>4, <1>5, <1>6

LEMMA SavedSwaps ==
  ASSUME IInv, TInv, OInv, NEW p \in Procs, Record(p) \/ Swapped(p) \/ Commit(p) \/ RollingBack(p)
  PROVE  OInv'
<1>1. ASSUME pc[p] \in {"backup", "record", "smoke", "rollingBack"}
      PROVE  /\ Alive(p)
             /\ errors = {} => /\ mem[p].owner \in Procs /\ Live(mem[p])
                               /\ BaksIn(mem[p].plan) /\ Kept /\ ~mem[p].committed
  <2>1. Alive(p)
    BY <1>1 DEF Alive
  <2>2. errors = {} => /\ mem[p].owner \in Procs /\ Live(mem[p]) /\ Live(journal)
                       /\ journal.plan = mem[p].plan /\ DiskOK(journal)
    BY <1>1, <2>1, HereOK DEF ProcOK
  <2>3. errors = {} => ~mem[p].committed /\ ~journal.committed
    BY <1>1, <2>1, HereOK DEF PcOK, Intact, Uncommitted, Undoing
  <2> QED
    BY <2>1, <2>2, <2>3 DEF DiskOK
<1>2. CASE Record(p)
  <2>1. pc[p] = "record" /\ Transition(p, "record", mem[p], Tail(todo[p]), "backup", "restartOld")
    BY <1>2 DEF Record, Transition
  <2>2. todo[p] # <<>>
    BY <2>1, AtType DEF Fits, AtHand
  <2>3. Elems(todo[p]) = {Head(todo[p])} \cup Elems(Tail(todo[p]))
    BY <2>1, <2>2, Ahead DEF Looping
  <2>4. errors = {} =>
          /\ Stage(mem[p].to)
          /\ \A t \in Elems(mem[p].plan) : t \in Elems(Tail(todo[p])) \/ image[t] = mem[p].to
    BY <1>1, <2>1, <2>3, HereOK DEF ProcOK, Before, InSwap
  <2>5. errors = {} => DiskOK(mem[p])
    BY <1>1, <2>1 DEF DiskOK, Live
  <2>6. errors = {} => ProcOK("backup", mem[p], Tail(todo[p]), mem[p])
    BY <1>1, <2>1, <2>4 DEF ProcOK, Before, InSwap
  <2> QED
    BY <2>1, <2>5, <2>6, SavedOutcome
<1>3. CASE Swapped(p)
  <2> DEFINE m == In(p, "Swapped")
  <2>1. pc[p] = "backup" /\ todo[p] = <<>> /\ Transition(p, "backup", m, mem[p].plan, "smoke", "restartOld")
    BY <1>3 DEF Swapped, Transition
  <2>2. /\ m.plan = mem[p].plan /\ m.to = mem[p].to /\ m.owner = mem[p].owner
        /\ m.committed = mem[p].committed /\ m.state = "Swapped"
        /\ AllNew(m) <=> AllNew(mem[p])
    BY SMT, <1>1, <2>1, Written DEF States
  <2> HIDE DEF m
  <2>3. Elems(todo[p]) = {}
    BY SMT, <2>1 DEF Elems
  <2>4. errors = {} => AllNew(mem[p])
    BY <1>1, <2>1, <2>3, HereOK DEF ProcOK, InSwap, AllNew
  <2>5. errors = {} => DiskOK(m)
    BY <1>1, <2>1, <2>2 DEF DiskOK, Live
  <2>6. errors = {} => ProcOK("smoke", m, mem[p].plan, m)
    BY <1>1, <2>1, <2>2, <2>4 DEF ProcOK, Before, InSwap, Live
  <2> QED
    BY <2>1, <2>5, <2>6, SavedOutcome
<1>4. CASE Commit(p)
  <2> DEFINE m == [In(p, "SmokeOk") EXCEPT !.committed = TRUE]
  <2>1. pc[p] = "smoke" /\ Transition(p, "smoke", m, StartOrder, "restartNew", "restartOld")
    BY <1>4 DEF Commit, Transition
  <2>2. In(p, "SmokeOk") \in Journals
    BY AtType DEF States
  <2>3. /\ m.plan = mem[p].plan /\ m.to = mem[p].to /\ m.owner = mem[p].owner
        /\ m.committed /\ m.state = "SmokeOk"
    BY <1>1, <2>1, <2>2, Written DEF Journals, States
  <2> HIDE DEF m
  <2>4. errors = {} => AllNew(m)
    BY <1>1, <2>1, <2>3, HereOK DEF ProcOK, AllNew
  <2>5. errors = {} => DiskOK(m)
    BY <1>1, <2>1, <2>3, <2>4 DEF DiskOK, Live
  <2>6. errors = {} => ProcOK("restartNew", m, StartOrder, m)
    BY <1>1, <2>1, <2>3 DEF ProcOK, Before, InSwap, Live
  <2> QED
    BY <2>1, <2>5, <2>6, SavedOutcome
<1>5. CASE RollingBack(p)
  <2> DEFINE m == In(p, "RollingBack")
  <2>1. pc[p] = "rollingBack" /\ Transition(p, "rollingBack", m, mem[p].plan, "undo", UndoError(p))
    BY <1>5 DEF RollingBack, Transition
  <2>2. /\ m.plan = mem[p].plan /\ m.to = mem[p].to /\ m.owner = mem[p].owner
        /\ m.committed = mem[p].committed /\ m.state = "RollingBack"
        /\ AllNew(m) <=> AllNew(mem[p])
    BY SMT, <1>1, <2>1, Written DEF States
  <2> HIDE DEF m
  <2>3. errors = {} => DiskOK(m)
    BY <1>1, <2>1, <2>2 DEF DiskOK, Live
  <2>4. errors = {} => ProcOK("undo", m, mem[p].plan, m)
    BY <1>1, <2>1, <2>2 DEF ProcOK, Before, InSwap, Live
  <2> QED
    BY <2>1, <2>3, <2>4, SavedOutcome
<1> QED
  BY <1>2, <1>3, <1>4, <1>5

LEMMA SavedEnds ==
  ASSUME IInv, TInv, OInv, NEW p \in Procs, RolledBack(p) \/ Restored(p) \/ Done(p) \/ Aborted(p)
  PROVE  OInv'
<1>1. ASSUME pc[p] \in {"undo", "restartNew", "prune"}
      PROVE  /\ Alive(p)
             /\ errors = {} => /\ mem[p].owner \in Procs /\ Live(mem[p]) /\ Live(journal)
                               /\ journal.plan = mem[p].plan /\ journal.to = mem[p].to
                               /\ DiskOK(journal) /\ BaksIn(mem[p].plan)
  <2>1. Alive(p)
    BY <1>1 DEF Alive
  <2>2. errors = {} => /\ mem[p].owner \in Procs /\ Live(mem[p]) /\ Live(journal)
                       /\ journal.plan = mem[p].plan /\ journal.to = mem[p].to /\ DiskOK(journal)
    BY <1>1, <2>1, HereOK DEF ProcOK
  <2> QED
    BY <2>1, <2>2 DEF DiskOK
<1>2. CASE RolledBack(p)
  <2> DEFINE m == In(p, "RolledBack")
  <2>1. /\ pc[p] = "undo" /\ todo[p] = <<>>
        /\ Transition(p, "undo", m, StartOrder, "restartOld", UndoError(p))
    BY <1>2 DEF RolledBack, Transition
  <2>2. /\ m.plan = mem[p].plan /\ m.to = mem[p].to /\ m.owner = mem[p].owner
        /\ m.committed = mem[p].committed /\ m.state = "RolledBack"
        /\ AllNew(m) <=> AllNew(mem[p])
    BY SMT, <1>1, <2>1, Written DEF States
  <2> HIDE DEF m
  <2>3. errors = {} => ~mem[p].committed /\ ~journal.committed
    BY <1>1, <2>1, HereOK DEF PcOK, Intact, Uncommitted, Undoing
  <2>4. errors = {} => NoBaks
    <3>1. Elems(todo[p]) = {}
      BY SMT, <2>1 DEF Elems
    <3>2. errors = {} => BaksIn(todo[p])
      BY <1>1, <2>1, HereOK DEF ProcOK
    <3> QED
      BY <3>1, <3>2 DEF BaksIn, NoBaks
  <2>5. errors = {} => Kept /\ Rolled
    BY <1>1, <2>1, <2>3, <2>4 DEF DiskOK, Kept, Rolled, NoBaks
  <2>6. errors = {} => DiskOK(m)
    BY <1>1, <2>1, <2>2, <2>3, <2>5 DEF DiskOK, Live
  <2>7. errors = {} => ProcOK("restartOld", m, StartOrder, m)
    BY <1>1, <2>1, <2>2, <2>5 DEF ProcOK, Before, InSwap, Live
  <2> QED
    BY <2>1, <2>6, <2>7, SavedOutcome
<1>3. ASSUME pc[p] \in {"restartNew", "prune"}, errors = {}
      PROVE  journal.committed /\ mem[p].committed /\ AllNew(mem[p])
  <2>1. journal.committed /\ mem[p].committed
    BY <1>1, <1>3, HereOK DEF ProcOK, PcOK
  <2> QED
    BY <1>1, <1>3, <2>1 DEF DiskOK, AllNew
<1>4. CASE Restored(p)
  <2> DEFINE m == In(p, "Restored")
  <2>1. pc[p] = "restartNew" /\ Transition(p, "restartNew", m, mem[p].plan, "prune", Leave(p))
    BY <1>4 DEF Restored, Transition
  <2>2. /\ m.plan = mem[p].plan /\ m.to = mem[p].to /\ m.owner = mem[p].owner
        /\ m.committed = mem[p].committed /\ m.state = "Restored"
        /\ AllNew(m) <=> AllNew(mem[p])
    BY SMT, <1>1, <2>1, Written DEF States
  <2> HIDE DEF m
  <2>3. errors = {} => DiskOK(m)
    BY <1>1, <1>3, <2>1, <2>2 DEF DiskOK, Live
  <2>4. errors = {} => ProcOK("prune", m, mem[p].plan, m)
    BY <1>1, <1>3, <2>1, <2>2 DEF ProcOK, Before, InSwap, Live
  <2> QED
    BY <2>1, <2>3, <2>4, SavedOutcome
<1>5. CASE Done(p)
  <2> DEFINE m == In(p, "Done")
  <2>1. /\ pc[p] = "prune" /\ todo[p] = <<>>
        /\ Transition(p, "prune", m, <<>>, "archive", Leave(p))
    BY <1>5 DEF Done, Transition
  <2>2. /\ m.plan = mem[p].plan /\ m.to = mem[p].to /\ m.owner = mem[p].owner
        /\ m.committed = mem[p].committed /\ m.state = "Done"
        /\ AllNew(m) <=> AllNew(mem[p])
    <3>1. Alive(p) /\ "Done" \in States
      BY <1>1, <2>1 DEF States
    <3> QED
      BY <3>1, Written
  <2> HIDE DEF m
  <2>3. errors = {} => NoBaks
    <3>1. Elems(todo[p]) = {}
      BY SMT, <2>1 DEF Elems
    <3>2. errors = {} => BaksIn(todo[p])
      BY <1>1, <2>1, HereOK DEF ProcOK
    <3> QED
      BY <3>1, <3>2 DEF BaksIn, NoBaks
  <2>4. errors = {} => DiskOK(m)
    BY <1>1, <1>3, <2>1, <2>2, <2>3 DEF DiskOK, Live
  <2>5. errors = {} => ProcOK("archive", m, <<>>, m)
    BY <1>1, <2>1, <2>2 DEF ProcOK, Before, InSwap, Live
  <2> QED
    BY <2>1, <2>4, <2>5, SavedOutcome
<1>6. CASE Aborted(p)
  <2> DEFINE m == In(p, "Aborted")
  <2>1. /\ pc[p] \in {"restartOld", "aborted"} /\ Alive(p)
        /\ \E e : Transition(p, pc[p], m, <<>>, "archive", e)
    BY <1>6 DEF Aborted, Transition, Alive
  <2>2. /\ m.plan = mem[p].plan /\ m.to = mem[p].to /\ m.owner = mem[p].owner
        /\ m.committed = mem[p].committed /\ m.state = "Aborted"
        /\ AllNew(m) <=> AllNew(mem[p])
    BY <2>1, Written DEF States
  <2> HIDE DEF m
  <2>3. errors = {} => NoBaks /\ Rolled
    BY <2>1, HereOK, Weaker DEF ProcOK, Before
  <2>4. errors = {} => DiskOK(m)
    BY <2>1, <2>2, <2>3 DEF DiskOK, Live
  <2>5. errors = {} => ProcOK("archive", m, <<>>, m)
    BY <2>1, <2>2 DEF ProcOK, Before, InSwap, Live
  <2> QED
    BY <2>1, <2>4, <2>5, SavedOutcome DEF Alive
<1> QED
  BY <1>2, <1>4, <1>5, <1>6

LEMMA MovesEnd ==
  ASSUME IInv, TInv, OInv, NEW p \in Procs,
         Preflight(p) \/ Stop(p) \/ Smoke(p) \/ Restart(p) \/ Crash(p)
  PROVE  OInv'
<1> USE DEF Move, Advance
<1>1. Alive(p) /\ UNCHANGED <<image, bak, staged, origin, journal>> /\ errors \subseteq errors'
  BY ErrorKeeps DEF Preflight, Stop, Smoke, Restart, Crash, Alive, files
<1>2. \E l, w : Become(p, l, mem[p], w) /\ (errors = {} => ProcOK(l, mem[p], w, journal))
  <2>1. CASE Preflight(p)
    <3>1. pc[p] = "preflight" /\ \E l \in {"preflightOk", "aborted"} : Become(p, l, mem[p], todo[p])
      BY <2>1 DEF Preflight
    <3>2. \A l \in {"preflightOk", "aborted"} : errors = {} => ProcOK(l, mem[p], todo[p], journal)
      BY <1>1, <3>1, HereOK DEF ProcOK, Before, InSwap
    <3> QED
      BY <3>1, <3>2
  <2>2. CASE Stop(p)
    <3>1. pc[p] = "stop" /\ \E l \in {"stopped", "dead"} : Become(p, l, mem[p], todo[p])
      BY <2>2 DEF Stop
    <3>2. \A l \in {"stopped", "dead"} : errors = {} => ProcOK(l, mem[p], todo[p], journal)
      BY <1>1, <3>1, HereOK DEF ProcOK, Before, InSwap
    <3> QED
      BY <3>1, <3>2
  <2>3. CASE Smoke(p)
    <3>1. /\ pc[p] = "smoke"
          /\ \/ Become(p, "smoke", mem[p], Tail(todo[p])) \/ Become(p, "rollingBack", mem[p], todo[p])
      BY <2>3 DEF Smoke
    <3>2. errors = {} => /\ ProcOK("smoke", mem[p], Tail(todo[p]), journal)
                         /\ ProcOK("rollingBack", mem[p], todo[p], journal)
      BY <1>1, <3>1, HereOK DEF ProcOK, Before, InSwap
    <3> QED
      BY <3>1, <3>2
  <2>4. CASE Restart(p)
    <3>1. pc[p] \in {"restartOld", "restartNew"} /\ Become(p, pc[p], mem[p], Tail(todo[p]))
      BY <2>4 DEF Restart
    <3>2. errors = {} => ProcOK(pc[p], mem[p], Tail(todo[p]), journal)
      BY <1>1, <3>1, HereOK DEF ProcOK, Before, InSwap
    <3> QED
      BY <3>1, <3>2
  <2>5. CASE Crash(p)
    <3>1. ProcOK("dead", mem[p], todo[p], journal)
      BY DEF ProcOK, Before, InSwap
    <3> QED
      BY <2>5, <3>1 DEF Crash
  <2> QED
    BY <2>1, <2>2, <2>3, <2>4, <2>5
<1> QED
  BY <1>1, <1>2, HereOK, MovedOutcome

LEMMA RecoveriesEnd ==
  ASSUME StartsAlone, IInv, TInv, OInv, NEW p \in Procs, (\E k : Recover(p, k)) \/ DoctorIdle(p)
  PROVE  OInv'
<1>1. /\ \A q \in Procs : ~Alive(q)
      /\ UNCHANGED <<image, bak, staged, origin, journal, errors>>
  BY DEF StartsAlone, Recover, RecoverAt, DoctorIdle, files, trouble
<1>2. errors = {} => DiskOK(journal) /\ (Pending <=> Live(journal))
  BY LiveIsPending DEF OInv
<1>3. CASE \E k : Recover(p, k)
  <2> DEFINE l == IF journal.committed THEN "restartNew" ELSE "rollingBack"
  <2>1. Become(p, l, journal, StartOrder) /\ Pending
    BY <1>3 DEF Recover, RecoverAt, NeedsRecovery
  <2>2. errors = {} => ProcOK(l, journal, StartOrder, journal)
    BY <1>2, <2>1 DEF ProcOK, Before, InSwap, DiskOK
  <2> HIDE DEF l
  <2> QED
    BY <1>1, <2>1, <2>2, MovedOutcome
<1>4. CASE DoctorIdle(p)
  <2>1. Become(p, "sweep", mem[p], todo[p]) /\ ~NeedsRecovery
    BY <1>4 DEF DoctorIdle, Move
  <2>2. errors = {} => ~Live(journal)
    BY <1>1, <1>2, <2>1 DEF NeedsRecovery, DiskOK
  <2>3. errors = {} => ProcOK("sweep", mem[p], todo[p], journal)
    BY <2>2 DEF ProcOK, Before, InSwap
  <2> QED
    BY <1>1, <2>1, <2>3, MovedOutcome
<1> QED
  BY <1>3, <1>4

\* An update begins where no other one is interrupted.
LEMMA AppliesEnd ==
  ASSUME StartsAlone, IInv, TInv, OInv, NEW p \in Procs, NEW v \in 2..MaxVersion,
         NEW elevated \in BOOLEAN, Apply(p, v, elevated)
  PROVE  OInv'
<1> DEFINE m == [owner |-> p, state |-> "Init", committed |-> FALSE, added |-> {},
                 running |-> up, plan |-> PlanFor(elevated), to |-> v]
           w == StopsFor(elevated)
<1>1. (\A q \in Procs : ~Alive(q)) /\ UNCHANGED <<image, journal>> /\ staged' = [s \in Stems |-> v]
  BY DEF StartsAlone, Apply
<1>2. errors' = {} => errors = {} /\ ~Pending /\ origin' = image
  BY DEF Apply, Error, Lossy, trouble
<1>3. errors' = {} => DiskOK(journal) /\ ~Live(journal) /\ NoBaks
  BY <1>2, LiveIsPending DEF OInv, DiskOK
<1>4. Become(p, "acquired", m, w) /\ m.owner = p /\ m.to = v /\ m.state = "Init"
  BY DEF Apply
<1> HIDE DEF m, w
<1>5. /\ pc'[p] = "acquired" /\ mem'[p] = m
      /\ \A q \in Procs \ {p} : pc'[q] = "dead"
  BY SMT, <1>1, <1>4, BecomeAt
<1>6. errors' = {} => NoBaks'
  BY <1>3 DEF Apply, Swept, NoBaks
<1>7. errors' = {} => Pristine' /\ Rolled'
  BY <1>1, <1>2, <1>6 DEF Pristine, Rolled
<1>8. errors' = {} => Stage(v)'
  BY <1>1, <1>2 DEF Stage, Stems
<1>9. errors' = {} => DiskOK(journal)'
  BY <1>1, <1>3, <1>6, <1>7 DEF DiskOK, Live, AllNew
<1>10. errors' = {} => ProcOK(pc[p], mem[p], todo[p], journal)'
  BY <1>1, <1>3, <1>4, <1>5, <1>7, <1>8 DEF ProcOK, Before, InSwap, Live
<1> QED
  BY <1>5, <1>9, <1>10, OnlyOne

\* What a process knows that is about to touch a binary of a run not committed.
LEMMA Touching ==
  ASSUME IInv, TInv, OInv, NEW p \in Procs,
         pc[p] \in {"backup", "swap", "undo", "clear", "rename"}
  PROVE  /\ Alive(p)
         /\ errors = {} => /\ mem[p].owner \in Procs /\ Live(mem[p]) /\ Live(journal)
                           /\ journal.plan = mem[p].plan /\ journal.to = mem[p].to
                           /\ journal.owner \in Procs /\ BaksIn(journal.plan) /\ Kept
                           /\ journal.state \notin {"none", "Done", "Aborted"} /\ ~journal.committed
<1>1. Alive(p)
  BY DEF Alive
<1>2. errors = {} => /\ mem[p].owner \in Procs /\ Live(mem[p]) /\ Live(journal)
                     /\ journal.plan = mem[p].plan /\ journal.to = mem[p].to /\ DiskOK(journal)
  BY <1>1, HereOK DEF ProcOK
<1>3. errors = {} => ~journal.committed
  BY <1>1, HereOK DEF PcOK, Intact, Uncommitted, Undoing
<1> QED
  BY <1>1, <1>2, <1>3 DEF DiskOK, Live

LEMMA BackupEnds == ASSUME IInv, TInv, OInv, NEW p \in Procs, Backup(p) PROVE OInv'
<1> DEFINE t == Head(todo[p])
           m == IF image[t] = 0 THEN Adds(p, t) ELSE mem[p]
<1>1. /\ pc[p] = "backup" /\ Alive(p) /\ todo[p] # <<>> /\ UNCHANGED <<staged, journal, origin>>
      /\ errors \subseteq errors'
  BY ErrorKeeps DEF Backup, Alive
<1>2. /\ t \in Targets /\ t \in Elems(mem[p].plan)
      /\ Elems(todo[p]) = {t} \cup Elems(Tail(todo[p]))
  BY <1>1, Ahead DEF Looping
<1>3. errors = {} => /\ Stage(mem[p].to)
                     /\ \A s \in Elems(mem[p].plan) : s \in Elems(todo[p]) \/ image[s] = mem[p].to
  BY <1>1, HereOK DEF ProcOK, Before, InSwap
<1>4. CASE Move(p, "rollingBack") /\ UNCHANGED <<image, bak>>
  <2>1. errors = {} => ProcOK("rollingBack", mem[p], todo[p], journal)
    BY <1>1, Touching DEF ProcOK, Before, InSwap
  <2> QED
    BY <1>1, <1>4, <2>1, HereOK, MovedOutcome DEF Move
<1>5. CASE /\ staged[Stem[t]] # 0
           /\ IF image[t] # 0 /\ bak[t] = 0
              THEN bak' = [bak EXCEPT ![t] = image[t]] /\ image' = [image EXCEPT ![t] = 0]
              ELSE UNCHANGED <<image, bak>>
           /\ Become(p, "swap", m, todo[p])
  <2>1. /\ m.owner = mem[p].owner /\ m.plan = mem[p].plan /\ m.to = mem[p].to
        /\ m.state = mem[p].state
    BY <1>1, AtPoint DEF Adds, Fields
  <2> HIDE DEF m
  <2>2. /\ pc'[p] = "swap" /\ mem'[p] = m /\ todo'[p] = todo[p]
        /\ \A q \in Procs \ {p} : pc'[q] = "dead"
    <3>1. Become(p, "swap", m, todo[p])
      BY <1>5
    <3>2. \A q \in Procs \ {p} : ~Alive(q)
      BY <1>1, AtPoint
    <3> QED
      BY SMT, <3>1, <3>2, BecomeAt
  <2>3. \A s \in Targets : s # t => image'[s] = image[s] /\ bak'[s] = bak[s]
    BY <1>5 DEF TInv, FileTypes
  <2>4. \/ image[t] # 0 /\ bak[t] = 0 /\ bak'[t] = image[t] /\ image'[t] = 0
        \/ ~(image[t] # 0 /\ bak[t] = 0) /\ bak'[t] = bak[t] /\ image'[t] = image[t]
    BY <1>2, <1>5 DEF TInv, FileTypes
  <2>5. errors = {} => Kept' /\ (origin[t] # 0 => bak'[t] # 0)
    BY SMT, <1>1, <1>2, <1>3, <1>5, <2>3, <2>4, Touching DEF Kept, Stage
  <2>6. errors = {} => BaksIn(journal.plan)'
    BY <1>1, <1>2, <2>3, Touching DEF BaksIn
  <2>7. errors = {} => DiskOK(journal)'
    BY <1>1, <2>5, <2>6, Touching DEF DiskOK, Live
  <2>8. errors = {} => \A s \in Elems(mem[p].plan) : s \in Elems(todo[p]) \/ image'[s] = mem[p].to
    BY <1>2, <1>3, <2>3, AtType
  <2>9. \A v : Stage(v) => Stage(v)'
    BY <1>1, <1>2, <2>3, <2>4 DEF Stage
  <2>10. errors = {} => ProcOK(pc[p], mem[p], todo[p], journal)'
    BY <1>1, <1>3, <2>1, <2>2, <2>5, <2>8, <2>9, Touching DEF ProcOK, Before, InSwap, Live
  <2> QED
    BY <1>1, <2>2, <2>7, <2>10, OnlyOne
<1> QED
  BY <1>4, <1>5 DEF Backup

LEMMA SwapEnds == ASSUME IInv, TInv, OInv, NEW p \in Procs, Swap(p) PROVE OInv'
<1> DEFINE t == Head(todo[p])
           m == [mem[p] EXCEPT !.added = @ \ {t}]
<1>1. pc[p] = "swap" /\ Alive(p) /\ UNCHANGED <<bak, journal, origin>> /\ errors \subseteq errors'
  BY ErrorKeeps DEF Swap, Alive
<1>2. todo[p] # <<>>
  BY <1>1, AtType DEF Fits, AtHand
<1>3. t \in Targets /\ Stem[t] \in Stems
  BY <1>1, <1>2, Ahead DEF Looping, Stems
<1>4. errors = {} => /\ Stage(mem[p].to) /\ (origin[t] # 0 => bak[t] # 0)
                     /\ \A s \in Elems(mem[p].plan) : s \in Elems(todo[p]) \/ image[s] = mem[p].to
  BY <1>1, HereOK DEF ProcOK, Before, InSwap
<1>5. CASE Become(p, "rollingBack", m, todo[p]) /\ UNCHANGED <<image, staged>>
  <2>1. m.owner = mem[p].owner /\ m.plan = mem[p].plan /\ m.to = mem[p].to /\ m.state = mem[p].state
    BY <1>1, AtPoint DEF Fields
  <2> HIDE DEF m
  <2>2. errors = {} => ProcOK("rollingBack", m, todo[p], journal)
    BY <1>1, <2>1, Touching DEF ProcOK, Before, InSwap, Live
  <2> QED
    BY <1>1, <1>5, <2>2, HereOK, MovedOutcome
<1>6. CASE /\ staged[Stem[t]] # 0
           /\ image' = [image EXCEPT ![t] = staged[Stem[t]]]
           /\ staged' = [staged EXCEPT ![Stem[t]] = 0]
           /\ Move(p, "record")
  <2>1. /\ pc'[p] = "record" /\ mem'[p] = mem[p] /\ todo'[p] = todo[p]
        /\ \A q \in Procs \ {p} : pc'[q] = "dead"
    <3>1. Become(p, "record", mem[p], todo[p]) /\ \A q \in Procs \ {p} : ~Alive(q)
      BY <1>1, <1>6, HereOK DEF Move
    <3> QED
      BY SMT, <3>1, BecomeAt
  <2>2. (\A s \in Targets : s # t => image'[s] = image[s]) /\ image'[t] = staged[Stem[t]]
    BY <1>3, <1>6 DEF TInv, FileTypes
  <2>3. (\A s \in Stems : s # Stem[t] => staged'[s] = staged[s]) /\ staged'[Stem[t]] = 0
    BY <1>3, <1>6 DEF TInv, FileTypes
  <2>4. errors = {} => image'[t] = mem[p].to
    BY <1>3, <1>4, <1>6, <2>2 DEF Stage
  <2>5. errors = {} => Kept'
    BY <1>1, <1>3, <1>4, <2>2, Touching DEF Kept
  <2>6. errors = {} => BaksIn(journal.plan)'
    BY <1>1, Touching DEF BaksIn
  <2>7. errors = {} => DiskOK(journal)'
    BY <1>1, <2>5, <2>6, Touching DEF DiskOK, Live
  <2>8. errors = {} => \A s \in Elems(mem[p].plan) : s \in Elems(todo[p]) \/ image'[s] = mem[p].to
    BY <1>4, <2>2, <2>4, AtType
  <2>9. \A v : Stage(v) => Stage(v)'
    BY <1>1, <1>3, <2>2, <2>3 DEF Stage, Stems
  <2>10. errors = {} => ProcOK(pc[p], mem[p], todo[p], journal)'
    BY <1>1, <1>4, <2>1, <2>4, <2>8, <2>9, Touching DEF ProcOK, Before, InSwap, Live
  <2> QED
    BY <1>1, <2>1, <2>7, <2>10, OnlyOne
<1> QED
  BY <1>5, <1>6 DEF Swap

LEMMA UndoEnds ==
  ASSUME IInv, TInv, OInv, NEW p \in Procs, Undo(p) \/ Clear(p) \/ Rename(p)
  PROVE  OInv'
<1> DEFINE t == Head(todo[p])
<1>1. /\ pc[p] \in {"undo", "clear", "rename"} /\ Alive(p)
      /\ UNCHANGED <<staged, journal, origin>> /\ errors \subseteq errors'
  BY ErrorKeeps DEF Undo, Clear, Rename, Alive
<1>2. todo[p] # <<>>
  BY <1>1, AtType DEF Fits, AtHand, Undo, Clear, Rename
<1>3. t \in Targets /\ Elems(todo[p]) = {t} \cup Elems(Tail(todo[p]))
  BY <1>1, <1>2, Ahead DEF Looping
<1>4. errors = {} => /\ BaksIn(todo[p]) /\ mem[p].added \cap Replaced = {}
                     /\ pc[p] \in {"clear", "rename"} => bak[t] # 0
  BY <1>1, HereOK DEF ProcOK, IInv, ProcInv
\* What is left to show of a step: where it leads and what it leaves on disk.
<1>5. ASSUME NEW l \in {"undo", "clear", "rename"}, NEW w, Become(p, l, mem[p], w),
             errors = {} => /\ Kept' /\ \A s \in Targets : bak'[s] # 0 => s \in Elems(w)
                            /\ BaksIn(journal.plan)'
      PROVE  OInv'
  <2>1. /\ pc'[p] = l /\ mem'[p] = mem[p] /\ todo'[p] = w
        /\ \A q \in Procs \ {p} : pc'[q] = "dead"
    BY <1>1, <1>5, AtPoint, BecomeAt
  <2>2. errors = {} => DiskOK(journal)'
    BY <1>1, <1>5, Touching DEF DiskOK, Live
  <2>3. errors = {} => ProcOK(pc[p], mem[p], todo[p], journal)'
    BY <1>1, <1>5, <2>1, Touching DEF ProcOK, Before, InSwap, Live, BaksIn
  <2> QED
    BY <1>1, <2>1, <2>2, <2>3, OnlyOne
<1>6. CASE Undo(p)
  <2>1. UNCHANGED bak /\ (errors = {} => BaksIn(journal.plan)')
    BY <1>1, <1>6, Touching DEF Undo, BaksIn
  <2>2. CASE t \in mem[p].added /\ image' = [image EXCEPT ![t] = 0] /\ Advance(p, "undo")
    <3>1. \A s \in Targets : s # t => image'[s] = image[s]
      BY <2>2 DEF TInv, FileTypes
    <3>2. errors = {} => origin[t] = 0 /\ bak[t] = 0
      BY <1>1, <1>3, <1>4, <2>2, Touching DEF Replaced, Kept
    <3>3. errors = {} => Kept' /\ \A s \in Targets : bak'[s] # 0 => s \in Elems(Tail(todo[p]))
      BY <1>1, <1>3, <1>4, <2>1, <3>1, <3>2, Touching DEF Kept, BaksIn
    <3> QED
      BY <1>5, <2>1, <2>2, <3>3 DEF Advance
  <2>3. CASE bak[t] = 0 /\ Advance(p, "undo") /\ UNCHANGED image
    <3>1. errors = {} => Kept' /\ \A s \in Targets : bak'[s] # 0 => s \in Elems(Tail(todo[p]))
      BY <1>1, <1>3, <1>4, <2>1, <2>3, Touching DEF Kept, BaksIn
    <3> QED
      BY <1>5, <2>1, <2>3, <3>1 DEF Advance
  <2>4. CASE Move(p, "clear") /\ UNCHANGED image
    <3>1. errors = {} => Kept' /\ \A s \in Targets : bak'[s] # 0 => s \in Elems(todo[p])
      BY <1>1, <1>4, <2>1, <2>4, Touching DEF Kept, BaksIn
    <3> QED
      BY <1>5, <2>1, <2>4, <3>1 DEF Move
  <2>5. CASE Error("undoFails")
    <3>1. errors' # {}
      BY <2>5 DEF Error, Lossy
    <3> QED
      BY <3>1 DEF OInv
  <2> QED
    BY <1>6, <2>2, <2>3, <2>4, <2>5 DEF Undo
<1>7. CASE Clear(p)
  <2>1. UNCHANGED bak /\ image' = [image EXCEPT ![t] = 0] /\ Move(p, "rename") /\ pc[p] = "clear"
    BY <1>7 DEF Clear
  <2>2. \A s \in Targets : s # t => image'[s] = image[s]
    BY <2>1 DEF TInv, FileTypes
  <2>3. errors = {} => Kept' /\ \A s \in Targets : bak'[s] # 0 => s \in Elems(todo[p])
    BY <1>1, <1>3, <1>4, <2>1, <2>2, Touching DEF Kept, BaksIn
  <2>4. errors = {} => BaksIn(journal.plan)'
    BY <1>1, <2>1, Touching DEF BaksIn
  <2> QED
    BY <1>5, <2>1, <2>3, <2>4 DEF Move
<1>8. CASE Rename(p)
  <2>1. pc[p] = "rename"
    BY <1>8 DEF Rename
  <2>2. CASE /\ bak[t] # 0 /\ image' = [image EXCEPT ![t] = bak[t]]
             /\ bak' = [bak EXCEPT ![t] = 0] /\ Advance(p, "undo")
    <3>1. /\ \A s \in Targets : s # t => image'[s] = image[s] /\ bak'[s] = bak[s]
          /\ image'[t] = bak[t] /\ bak'[t] = 0
      BY <1>3, <2>2 DEF TInv, FileTypes
    <3>2. errors = {} => Kept' /\ \A s \in Targets : bak'[s] # 0 => s \in Elems(Tail(todo[p]))
      BY <1>1, <1>3, <1>4, <2>2, <3>1, Touching DEF Kept, BaksIn
    <3>3. errors = {} => BaksIn(journal.plan)'
      BY <1>1, <3>1, Touching DEF BaksIn
    <3> QED
      BY <1>5, <2>2, <3>2, <3>3 DEF Advance
  <2>3. CASE bak[t] = 0 \/ Error("undoFails")
    <3>1. errors' # {}
      BY <1>1, <1>4, <2>1, <2>3 DEF Error, Lossy
    <3> QED
      BY <3>1 DEF OInv
  <2> QED
    BY <1>8, <2>2, <2>3 DEF Rename
<1> QED
  BY <1>6, <1>7, <1>8

LEMMA CleanupEnds ==
  ASSUME IInv, TInv, OInv, NEW p \in Procs, Prune(p) \/ DoctorSweep(p) \/ Archive(p)
  PROVE  OInv'
<1> DEFINE t == Head(todo[p])
<1>1. /\ pc[p] \in {"prune", "sweep", "archive"} /\ Alive(p)
      /\ UNCHANGED <<image, staged, origin>> /\ errors \subseteq errors'
  BY ErrorKeeps DEF Prune, DoctorSweep, Archive, Alive, files, trouble
<1>2. errors = {} => DiskOK(journal) /\ ProcOK(pc[p], mem[p], todo[p], journal)
  BY <1>1, HereOK
<1>3. CASE Prune(p)
  <2>1. /\ pc[p] = "prune" /\ todo[p] # <<>> /\ UNCHANGED journal
        /\ Become(p, "prune", mem[p], Tail(todo[p]))
    BY <1>3 DEF Prune, Advance
  <2>2. t \in Targets /\ Elems(todo[p]) = {t} \cup Elems(Tail(todo[p]))
    BY <2>1, Ahead DEF Looping
  <2>3. /\ pc'[p] = "prune" /\ mem'[p] = mem[p] /\ todo'[p] = Tail(todo[p])
        /\ \A q \in Procs \ {p} : pc'[q] = "dead"
    <3>1. \A q \in Procs \ {p} : ~Alive(q)
      BY <1>1, HereOK
    <3> QED
      BY <2>1, <3>1, BecomeAt
  <2>4. errors' = {} => bak' = [bak EXCEPT ![t] = 0]
    BY <1>3 DEF Prune, Error, Lossy
  <2>5. errors' = {} => bak'[t] = 0 /\ \A s \in Targets : s # t => bak'[s] = bak[s]
    BY <2>2, <2>4 DEF TInv, FileTypes
  <2>6. errors = {} => /\ mem[p].owner \in Procs /\ Live(mem[p]) /\ Live(journal)
                       /\ journal.plan = mem[p].plan /\ journal.to = mem[p].to
                       /\ journal.committed /\ BaksIn(todo[p])
    BY <1>2, <2>1 DEF ProcOK
  <2>7. errors = {} => journal.owner \in Procs /\ BaksIn(journal.plan) /\ AllNew(journal)
    BY <1>2, <2>6 DEF DiskOK
  <2>8. errors' = {} => \A s \in Targets : bak'[s] # 0 => s \in Elems(Tail(todo[p]))
    BY <1>1, <2>2, <2>5, <2>6 DEF BaksIn
  <2>9. errors' = {} => BaksIn(journal.plan)' /\ AllNew(journal)'
    BY <1>1, <2>1, <2>5, <2>7 DEF BaksIn, AllNew
  <2>10. errors' = {} => DiskOK(journal)'
    BY <1>1, <2>1, <2>6, <2>7, <2>9 DEF DiskOK, Live
  <2>11. errors' = {} => ProcOK(pc[p], mem[p], todo[p], journal)'
    BY <1>1, <2>1, <2>3, <2>6, <2>8 DEF ProcOK, Before, InSwap, Live, BaksIn
  <2> QED
    BY <2>3, <2>10, <2>11, OnlyOne
<1>4. CASE DoctorSweep(p)
  <2>1. pc[p] = "sweep" /\ UNCHANGED journal /\ bak' = Swept(Targets) /\ Become(p, "dead", mem[p], todo[p])
    BY <1>4 DEF DoctorSweep, Move
  <2>2. errors = {} => ~Live(journal) /\ NoBaks
    BY <1>2, <2>1 DEF ProcOK, DiskOK
  <2>3. errors = {} => NoBaks'
    BY <2>1, <2>2 DEF NoBaks, Swept
  <2>4. pc'[p] = "dead" /\ \A q \in Procs \ {p} : pc'[q] = "dead"
    <3>1. \A q \in Procs \ {p} : ~Alive(q)
      BY <1>1, HereOK
    <3> QED
      BY <2>1, <3>1, BecomeAt
  <2>5. errors = {} => DiskOK(journal)'
    BY <1>1, <1>2, <2>1, <2>2, <2>3 DEF DiskOK, Live, AllNew, Rolled
  <2>6. ProcOK(pc[p], mem[p], todo[p], journal)'
    BY <2>4 DEF ProcOK, Before, InSwap
  <2> QED
    BY <1>1, <2>4, <2>5, <2>6, OnlyOne
<1>5. CASE Archive(p)
  <2>1. /\ pc[p] = "archive" /\ UNCHANGED bak /\ journal' = NoJournal
        /\ Become(p, Leave(p), mem[p], todo[p]) /\ Leave(p) \in {"sweep", "dead"}
    BY <1>5 DEF Archive, Move, Leave, files
  <2>2. errors = {} => NoBaks'
    BY <1>1, <1>2, <2>1 DEF ProcOK, DiskOK, NoBaks
  <2>3. pc'[p] \in {"sweep", "dead"} /\ \A q \in Procs \ {p} : pc'[q] = "dead"
    <3>1. \A q \in Procs \ {p} : ~Alive(q)
      BY <1>1, HereOK
    <3> QED
      BY <2>1, <3>1, BecomeAt
  <2>4. errors = {} => DiskOK(journal)'
    BY <2>1, <2>2 DEF DiskOK, Live, NoJournal
  <2>5. ProcOK(pc[p], mem[p], todo[p], journal)'
    BY <2>1, <2>3 DEF ProcOK, Before, InSwap, Live, NoJournal
  <2> QED
    BY <1>1, <2>3, <2>4, <2>5, OnlyOne
<1> QED
  BY <1>3, <1>4, <1>5

LEMMA NextOInv == ASSUME StartsAlone, IInv, TInv, OInv, [Next]_vars PROVE OInv'
<1>1. CASE UNCHANGED vars
  <2>1. UNCHANGED <<image, bak, staged, origin>> /\ UNCHANGED <<journal, pc, mem, todo, errors>>
    BY <1>1 DEF vars
  <2> QED
    BY <2>1, SameFiles DEF OInv
<1>2. CASE Next
  <2>1. PICK p \in Procs : \/ \E v \in 2..MaxVersion, elevated \in BOOLEAN : Apply(p, v, elevated)
                           \/ (\E k : Recover(p, k)) \/ DoctorIdle(p) \/ Step(p) \/ Crash(p)
    BY <1>2 DEF Next
  <2>2. CASE Step(p)
    BY <2>2, SavedApply, SavedSwaps, SavedEnds, MovesEnd, BackupEnds, SwapEnds, UndoEnds,
       CleanupEnds DEF Step, ApplyStep, UndoStep, FinishStep
  <2> QED
    BY <2>1, <2>2, AppliesEnd, RecoveriesEnd, MovesEnd
<1> QED
  BY <1>1, <1>2

-----------------------------------------------------------------------------
(* The services on the way to the first swap.                               *)

\* The services that an update stops and owes a restart: the host starts mcp.
Vital == {"daemon", "broker"}
HasBroker(s) == \E t \in Elems(s) : Stem[t] = "uffs-broker"
\* The vital services that run are ahead in w, or none of the plan of m is theirs.
Halting(m, w) ==
  \A c \in Vital \cap up : c \in Elems(w) \/ (c = "broker" /\ ~HasBroker(m.plan))

\* On the way to the first swap every service whose binary is planned goes down.
Stopping(l, m, w) ==
  /\ l \in {"acquired", "preflight", "preflightOk", "stop"} => Halting(m, w)
  /\ l = "stopped" => Halting(m, Tail(w))
  /\ l \in {"swapping", "backup", "swap", "record"} => Halting(m, <<>>)
StopInv == \A p \in Procs : Stopping(pc[p], mem[p], todo[p])

Quieting == {"acquired", "preflight", "preflightOk", "stop", "stopped", "swapping", "backup",
             "swap", "record"}

LEMMA StoppingDone ==
  ASSUME NEW l, l \notin Quieting, NEW m, NEW w PROVE Stopping(l, m, w)
  BY DEF Quieting, Stopping

LEMMA SamePlan ==
  ASSUME NEW m, NEW k, m.plan = k.plan, NEW w PROVE Halting(m, w) <=> Halting(k, w)
  BY DEF Halting

\* A step of the only process, while no service comes up.
LEMMA StopBecome ==
  ASSUME IInv, TInv, NEW p \in Procs, \A q \in Procs \ {p} : ~Alive(q),
         NEW l, NEW m, NEW w, Become(p, l, m, w), up' \subseteq up, Stopping(l, m, w)
  PROVE  StopInv'
<1>1. \A n, v : Halting(n, v) => Halting(n, v)'
  BY DEF Halting
<1>2. Stopping(l, m, w)'
  BY <1>1 DEF Stopping
<1>3. ASSUME NEW q \in Procs, pc'[q] \notin Quieting PROVE Stopping(pc[q], mem[q], todo[q])'
  BY <1>3 DEF Stopping, Quieting
<1>4. \A q \in Procs \ {p} : pc'[q] \notin Quieting
  BY BecomeAt DEF Quieting
<1>5. CASE l = "dead"
  <2>1. pc'[p] \notin Quieting
    BY SMT, <1>5, BecomeAt DEF Quieting
  <2> QED
    BY <1>3, <1>4, <2>1 DEF StopInv
<1>6. CASE l # "dead"
  <2>1. pc'[p] = l /\ mem'[p] = m /\ todo'[p] = w
    BY SMT, <1>6, BecomeAt
  <2>2. Stopping(pc[p], mem[p], todo[p])'
    BY <1>2, <2>1
  <2> QED
    BY <1>3, <1>4, <2>2 DEF StopInv
<1> QED
  BY <1>5, <1>6

LEMMA StopTransition ==
  ASSUME IInv, TInv, NEW p \in Procs, NEW from, NEW m, NEW work, NEW to, NEW onError,
         Transition(p, from, m, work, to, onError), from # "dead",
         onError \notin Quieting, Stopping(to, m, work)
  PROVE  StopInv'
<1>1. /\ \A q \in Procs \ {p} : ~Alive(q)
      /\ up' \subseteq up
      /\ Become(p, to, m, work) \/ Become(p, onError, m, StartOrder)
  BY DEF Transition, IInv, OneAlive, Alive, services
<1>2. Stopping(onError, m, StartOrder)
  BY StoppingDone
<1> QED
  BY <1>1, <1>2, StopBecome

LEMMA StopTransitions ==
  ASSUME IInv, TInv, StopInv, NEW p \in Procs,
         \/ Acquired(p) \/ PreflightOk(p) \/ Stopped(p) \/ Quiesced(p) \/ Swapping(p)
         \/ Record(p) \/ Swapped(p) \/ Commit(p)
         \/ RollingBack(p) \/ RolledBack(p) \/ Restored(p) \/ Done(p) \/ Aborted(p)
  PROVE  StopInv'
<1> USE DEF Quieting
<1>1. \A s \in States : \A w : Halting(In(p, s), w) <=> Halting(mem[p], w)
  BY SMT, AtType, SamePlan
<1>2. Leave(p) \notin Quieting /\ UndoError(p) \notin Quieting
  BY DEF Leave, UndoError
<1>3. Stopping(pc[p], mem[p], todo[p])
  BY DEF StopInv
<1>4. CASE Acquired(p)
  <2>1. Transition(p, "acquired", In(p, "Acquired"), todo[p], "preflight", "dead")
    BY <1>4 DEF Acquired
  <2>2. Stopping("preflight", In(p, "Acquired"), todo[p])
    BY <1>1, <1>3, <2>1 DEF Transition, Stopping, States
  <2> QED
    BY <2>1, <2>2, StopTransition
<1>5. CASE PreflightOk(p)
  <2>1. Transition(p, "preflightOk", In(p, "PreflightOk"), todo[p], "stop", "dead")
    BY <1>5 DEF PreflightOk
  <2>2. Stopping("stop", In(p, "PreflightOk"), todo[p])
    BY <1>1, <1>3, <2>1 DEF Transition, Stopping, States
  <2> QED
    BY <2>1, <2>2, StopTransition
<1>6. CASE Stopped(p)
  <2>1. Transition(p, "stopped", In(p, "Quiesced"), Tail(todo[p]), "stop", "dead")
    BY <1>6 DEF Stopped
  <2>2. Stopping("stop", In(p, "Quiesced"), Tail(todo[p]))
    BY <1>1, <1>3, <2>1 DEF Transition, Stopping, States
  <2> QED
    BY <2>1, <2>2, StopTransition
<1>7. CASE Quiesced(p)
  <2>1. todo[p] = <<>> /\ Transition(p, "stop", In(p, "Quiesced"), <<>>, "swapping", "dead")
    BY <1>7 DEF Quiesced
  <2>2. Stopping("swapping", In(p, "Quiesced"), <<>>)
    BY <1>1, <1>3, <2>1 DEF Transition, Stopping, States
  <2> QED
    BY <2>1, <2>2, StopTransition
<1>8. CASE Swapping(p)
  <2>1. Transition(p, "swapping", In(p, "Swapping"), mem[p].plan, "backup", "restartOld")
    BY <1>8 DEF Swapping
  <2>2. Stopping("backup", In(p, "Swapping"), mem[p].plan)
    BY <1>1, <1>3, <2>1 DEF Transition, Stopping, States
  <2> QED
    BY <2>1, <2>2, StopTransition
<1>9. CASE Record(p)
  <2>1. Transition(p, "record", mem[p], Tail(todo[p]), "backup", "restartOld")
    BY <1>9 DEF Record
  <2>2. Stopping("backup", mem[p], Tail(todo[p]))
    BY <1>3, <2>1 DEF Transition, Stopping
  <2> QED
    BY <2>1, <2>2, StopTransition
<1>10. CASE \/ Swapped(p) \/ Commit(p) \/ RollingBack(p) \/ RolledBack(p) \/ Restored(p)
            \/ Done(p) \/ Aborted(p)
  <2>1. \E from, m, w, to, e : /\ Transition(p, from, m, w, to, e) /\ from # "dead"
                               /\ to \notin Quieting /\ e \notin Quieting
    BY SMT, <1>2, <1>10 DEF Swapped, Commit, RollingBack, RolledBack, Restored, Done, Aborted
  <2> QED
    BY <2>1, StoppingDone, StopTransition
<1> QED
  BY <1>4, <1>5, <1>6, <1>7, <1>8, <1>9, <1>10

LEMMA StopMoves ==
  ASSUME IInv, TInv, StopInv, NEW p \in Procs,
         \/ Preflight(p) \/ Stop(p) \/ Smoke(p) \/ Restart(p) \/ Crash(p) \/ Archive(p)
         \/ DoctorSweep(p) \/ Prune(p)
  PROVE  StopInv'
<1> USE DEF Quieting, Move, Advance
<1>1. Alive(p) /\ \A q \in Procs \ {p} : ~Alive(q)
  BY AtPoint DEF Preflight, Stop, Smoke, Restart, Crash, Archive, DoctorSweep, Prune, Alive
<1>2. Stopping(pc[p], mem[p], todo[p])
  BY DEF StopInv
<1>3. CASE Preflight(p)
  <2>1. /\ pc[p] = "preflight" /\ up' \subseteq up
        /\ \E l \in {"preflightOk", "aborted"} : Become(p, l, mem[p], todo[p])
    BY <1>3 DEF Preflight, services
  <2>2. \A l \in {"preflightOk", "aborted"} : Stopping(l, mem[p], todo[p])
    BY <1>2, <2>1 DEF Stopping
  <2> QED
    BY <1>1, <2>1, <2>2, StopBecome
<1>4. CASE Stop(p)
  <2> DEFINE c == Head(todo[p])
  <2>1. pc[p] = "stop" /\ todo[p] # <<>> /\ up' \subseteq up
    BY <1>4 DEF Stop
  <2>2. Elems(todo[p]) = {c} \cup Elems(Tail(todo[p]))
    BY <2>1, Ahead DEF Serving
  <2>3. CASE Become(p, "dead", mem[p], todo[p])
    BY <1>1, <2>1, <2>3, StoppingDone, StopBecome
  <2>4. CASE Become(p, "stopped", mem[p], todo[p]) /\ (up' = up \ {c} \/ c = "mcp")
    <3>1. Halting(mem[p], todo[p])
      BY <1>2, <2>1 DEF Stopping
    <3>2. \A d \in Vital \cap up' : d \in Elems(Tail(todo[p])) \/ (d = "broker" /\ ~HasBroker(mem[p].plan))
      BY <2>1, <2>2, <2>4, <3>1 DEF Halting, Vital
    <3>3. /\ pc'[p] = "stopped" /\ mem'[p] = mem[p] /\ todo'[p] = todo[p]
          /\ \A q \in Procs \ {p} : pc'[q] = "dead"
      BY SMT, <1>1, <2>4, BecomeAt
    <3>4. Stopping(pc[p], mem[p], todo[p])'
      BY <3>2, <3>3 DEF Stopping, Halting, HasBroker
    <3>5. ASSUME NEW q \in Procs \ {p} PROVE Stopping(pc[q], mem[q], todo[q])'
      BY <3>3 DEF Stopping
    <3> QED
      BY <3>4, <3>5 DEF StopInv
  <2> QED
    BY <1>4, <2>3, <2>4 DEF Stop
<1>5. CASE Smoke(p) \/ Archive(p) \/ DoctorSweep(p) \/ Prune(p) \/ Crash(p)
  <2>1. up' \subseteq up
    BY <1>5 DEF Smoke, Archive, DoctorSweep, Prune, Crash, services
  <2>2. \E l \in {"smoke", "rollingBack", "sweep", "dead", "prune"} : \E w : Become(p, l, mem[p], w)
    <3>1. CASE Smoke(p) \/ Prune(p)
      BY <3>1 DEF Smoke, Prune
    <3>2. CASE Archive(p) \/ DoctorSweep(p) \/ Crash(p)
      BY <3>2 DEF Archive, Leave, DoctorSweep, Crash
    <3> QED
      BY <1>5, <3>1, <3>2
  <2> QED
    BY <1>1, <2>1, <2>2, StoppingDone, StopBecome
<1>6. CASE Restart(p)
  <2>1. pc[p] \in {"restartOld", "restartNew"} /\ Become(p, pc[p], mem[p], Tail(todo[p]))
    BY <1>6 DEF Restart
  <2>2. pc'[p] \notin Quieting /\ \A q \in Procs \ {p} : pc'[q] \notin Quieting
    BY <1>1, <2>1, BecomeAt
  <2>3. ASSUME NEW q \in Procs, pc'[q] \notin Quieting PROVE Stopping(pc[q], mem[q], todo[q])'
    BY <2>3 DEF Stopping
  <2> QED
    BY <2>2, <2>3 DEF StopInv
<1> QED
  BY <1>3, <1>4, <1>5, <1>6

LEMMA StopFileSteps ==
  ASSUME IInv, TInv, StopInv, NEW p \in Procs,
         Backup(p) \/ Swap(p) \/ Undo(p) \/ Clear(p) \/ Rename(p)
  PROVE  StopInv'
<1> USE DEF Quieting, Move, Advance
<1>1. Alive(p) /\ up' \subseteq up /\ \A q \in Procs \ {p} : ~Alive(q)
  BY AtPoint DEF Backup, Swap, Undo, Clear, Rename, Alive, services
<1>2. Stopping(pc[p], mem[p], todo[p])
  BY DEF StopInv
<1>3. CASE Backup(p)
  <2> DEFINE t == Head(todo[p])
  <2>1. /\ pc[p] = "backup"
        /\ \E l \in {"swap", "rollingBack"}, m \in {mem[p], Adds(p, t)} : Become(p, l, m, todo[p])
    BY <1>3 DEF Backup
  <2>2. Adds(p, t).plan = mem[p].plan
    BY AtType DEF Adds, Journals
  <2>3. Halting(mem[p], <<>>) /\ Halting(Adds(p, t), <<>>)
    BY <1>2, <2>1, <2>2, SamePlan DEF Stopping
  <2>4. \A l \in {"swap", "rollingBack"}, m \in {mem[p], Adds(p, t)} : Stopping(l, m, todo[p])
    BY <2>3 DEF Stopping
  <2> QED
    BY <1>1, <2>1, <2>4, StopBecome
<1>4. CASE Swap(p)
  <2>1. /\ pc[p] = "swap"
        /\ \/ Become(p, "record", mem[p], todo[p])
           \/ \E m : Become(p, "rollingBack", m, todo[p])
    BY <1>4 DEF Swap
  <2>2. Stopping("record", mem[p], todo[p])
    BY <1>2, <2>1 DEF Stopping
  <2> QED
    BY <1>1, <2>1, <2>2, StoppingDone, StopBecome
<1>5. CASE Undo(p) \/ Clear(p) \/ Rename(p)
  <2>1. UndoError(p) \notin Quieting
    BY DEF UndoError, Leave
  <2>2. \E l \in {"undo", "clear", "rename", UndoError(p)} : \E w : Become(p, l, mem[p], w)
    <3>1. CASE Undo(p)
      BY <3>1 DEF Undo
    <3>2. CASE Clear(p) \/ Rename(p)
      BY <3>2 DEF Clear, Rename
    <3> QED
      BY <1>5, <3>1, <3>2
  <2> QED
    BY <1>1, <2>1, <2>2, StoppingDone, StopBecome
<1> QED
  BY <1>3, <1>4, <1>5

LEMMA StopStarts ==
  ASSUME StartsAlone, BrokerDropped, IInv, TInv, StopInv, NEW p \in Procs,
         \/ \E v \in 2..MaxVersion, elevated \in BOOLEAN : Apply(p, v, elevated)
         \/ (\E k : Recover(p, k)) \/ DoctorIdle(p)
  PROVE  StopInv'
<1>1. (\A q \in Procs : ~Alive(q)) /\ up' \subseteq up
  <2>1. CASE \E v \in 2..MaxVersion, elevated \in BOOLEAN : Apply(p, v, elevated)
    BY <2>1 DEF StartsAlone, Apply, services
  <2>2. CASE (\E k : Recover(p, k)) \/ DoctorIdle(p)
    BY <2>2 DEF StartsAlone, Recover, RecoverAt, DoctorIdle, services
  <2> QED
    BY <2>1, <2>2
<1>2. CASE (\E k : Recover(p, k)) \/ DoctorIdle(p)
  <2>1. \E l, m, w : Become(p, l, m, w) /\ l \in {"restartNew", "rollingBack", "sweep"}
    <3>1. CASE \E k : Recover(p, k)
      BY <3>1 DEF Recover, RecoverAt
    <3>2. CASE DoctorIdle(p)
      BY <3>2 DEF DoctorIdle, Move
    <3> QED
      BY <1>2, <3>1, <3>2
  <2>2. {"restartNew", "rollingBack", "sweep"} \cap Quieting = {}
    BY DEF Quieting
  <2> QED
    BY <1>1, <2>1, <2>2, StoppingDone, StopBecome
<1>3. ASSUME NEW v \in 2..MaxVersion, NEW elevated \in BOOLEAN, Apply(p, v, elevated)
      PROVE  StopInv'
  <2> DEFINE m == [owner |-> p, state |-> "Init", committed |-> FALSE, added |-> {},
                   running |-> up, plan |-> PlanFor(elevated), to |-> v]
             w == StopsFor(elevated)
  <2>1. Become(p, "acquired", m, w) /\ m.plan = PlanFor(elevated)
    BY <1>3 DEF Apply
  <2> HIDE DEF m
  <2>2. ASSUME "broker" \in up, ~elevated PROVE ~HasBroker(PlanFor(elevated))
    <3> DEFINE S == {t \in Targets : Stem[t] # "uffs-broker"}
    <3>1. PlanFor(elevated) = Retain[Len(Plan)] /\ Retain[Len(Plan)] \in Seq(S)
      BY <2>2 DEF BrokerDropped, PlanFor
    <3>2. Elems(Retain[Len(Plan)]) \subseteq S
      <4> HIDE DEF S
      <4> QED
        BY <3>1, WorkAhead
    <3> QED
      BY <3>1, <3>2 DEF HasBroker
  <2>3. Halting(m, w)
    BY <2>1, <2>2, StopsKnown DEF Halting, Vital
  <2>4. Stopping("acquired", m, w)
    BY <2>3 DEF Stopping
  <2> HIDE DEF w
  <2> QED
    BY <1>1, <2>1, <2>4, StopBecome
<1> QED
  BY <1>2, <1>3

LEMMA NextStopInv == ASSUME StartsAlone, BrokerDropped, IInv, TInv, StopInv, [Next]_vars PROVE StopInv'
<1>1. CASE UNCHANGED vars
  BY <1>1 DEF vars, StopInv, Stopping, Halting
<1>2. CASE Next
  <2>1. PICK p \in Procs : \/ \E v \in 2..MaxVersion, elevated \in BOOLEAN : Apply(p, v, elevated)
                           \/ (\E k : Recover(p, k)) \/ DoctorIdle(p) \/ Step(p) \/ Crash(p)
    BY <1>2 DEF Next
  <2>2. CASE Step(p)
    BY <2>2, StopTransitions, StopMoves, StopFileSteps DEF Step, ApplyStep, UndoStep, FinishStep
  <2> QED
    BY <2>1, <2>2, StopStarts, StopMoves
<1> QED
  BY <1>1, <1>2

=============================================================================
