-------------------------- MODULE SelfUpdateProofs --------------------------
(***************************************************************************)
(* What holds of every update, for any plan and any number of releases,     *)
(* kills and I/O errors: no binary is lost, all or nothing, and the         *)
(* services are down for the swaps and come back (SInv).                    *)
(***************************************************************************)
EXTENDS SelfUpdateInv, FiniteSetTheorems, WellFoundedInduction, TLAPS

\* First-order steps; a step with arithmetic or with records and updates names SMT.
USE Zenon

-----------------------------------------------------------------------------
(* The services at the end.                                                 *)

\* Every service that an update may stop runs or is reported; is running in the
\* snapshot of m or is reported.
Settled == Vital \subseteq up \cup failed
Owed(m) == Vital \subseteq m.running \cup failed

\* Control points from the first stop to the last restart, and those outside.
Down == {"stop", "stopped", "swapping", "backup", "swap", "record", "smoke", "rollingBack",
         "undo", "clear", "rename", "restartOld", "restartNew"}
Served == {"acquired", "preflight", "preflightOk", "aborted", "prune", "archive"}

\* While services may be down, a live journal has the snapshot that lists them.
Provided(j) ==
  /\ Live(j) => Owed(j)
  /\ ~Live(j) => Settled
  /\ j.state = "none" => j = NoJournal
Serves(l, m, w, j) ==
  /\ l \notin {"dead", "sweep"} => Owed(m)
  /\ l \notin {"dead", "sweep", "archive"} => Live(m)
  /\ l \in Down => Live(j) /\ j.running = m.running
  /\ l \in Served => Settled
  /\ l \in {"restartOld", "restartNew"} => \A c \in Vital : c \in up \cup failed \cup Elems(w)
SInv == Clean =>
  /\ Provided(journal)
  /\ \A p \in Procs : Serves(pc[p], mem[p], todo[p], journal)

LEMMA SameServices ==
  ASSUME UNCHANGED services
  PROVE  /\ \A l, m, w, j : Serves(l, m, w, j)' <=> Serves(l, m, w, j)
         /\ \A j : Provided(j)' <=> Provided(j)
<1>1. (Settled' <=> Settled) /\ \A m : Owed(m)' <=> Owed(m)
  BY DEF Settled, Owed, services
<1> QED
  BY SMT, <1>1 DEF Serves, Provided, services

LEMMA OnlyServer ==
  ASSUME NEW p \in Procs, \A q \in Procs \ {p} : pc'[q] = "dead",
         Clean' => /\ Provided(journal)'
                   /\ pc'[p] # "dead" => Serves(pc[p], mem[p], todo[p], journal)'
  PROVE  SInv'
<1>1. ASSUME NEW q \in Procs, pc'[q] = "dead" PROVE Serves(pc[q], mem[q], todo[q], journal)'
  BY <1>1 DEF Serves, Down, Served
<1> QED
  BY <1>1 DEF SInv

LEMMA HereServes ==
  ASSUME IInv, SInv, NEW p \in Procs, Alive(p)
  PROVE  /\ \A q \in Procs \ {p} : ~Alive(q)
         /\ Clean => Provided(journal) /\ Serves(pc[p], mem[p], todo[p], journal)
  BY AtPoint DEF SInv

\* A step that touches neither services nor journal.
LEMMA ServeMove ==
  ASSUME IInv, TInv, SInv, NEW p \in Procs, NEW l, NEW m, NEW w,
         \A q \in Procs \ {p} : ~Alive(q), Become(p, l, m, w),
         UNCHANGED <<services, journal>>, errors \subseteq errors',
         Clean => Serves(l, m, w, journal)
  PROVE  SInv'
<1>1. \A q \in Procs \ {p} : pc'[q] = "dead"
  BY BecomeAt
<1>2. Clean' => Clean /\ Provided(journal)
  BY DEF Clean, SInv
<1>3. Clean' => Provided(journal)'
  BY <1>2, SameServices
<1>4. ASSUME Clean', pc'[p] # "dead" PROVE Serves(pc[p], mem[p], todo[p], journal)'
  <2>1. pc'[p] = l /\ mem'[p] = m /\ todo'[p] = w
    BY <1>4, BecomeAt
  <2>2. Serves(l, m, w, journal)
    BY <1>2, <1>4
  <2> QED
    BY <2>1, <2>2, SameServices
<1> QED
  BY <1>1, <1>3, <1>4, OnlyServer

LEMMA ServeTransition ==
  ASSUME IInv, TInv, SInv, NEW p \in Procs, NEW from, NEW m, NEW work, NEW to, NEW onError,
         Transition(p, from, m, work, to, onError), from # "dead",
         Clean => /\ Provided(m) /\ Serves(to, m, work, m)
                  /\ Serves(onError, m, StartOrder, journal)
  PROVE  SInv'
<1>1. (\A q \in Procs \ {p} : ~Alive(q)) /\ UNCHANGED services /\ errors \subseteq errors'
  BY ErrorKeeps DEF Transition, IInv, OneAlive, Alive
<1>2. CASE journal' = m /\ Become(p, to, m, work)
  <2>1. \A q \in Procs \ {p} : pc'[q] = "dead"
    BY <1>1, <1>2, BecomeAt
  <2>2. Clean' => Clean
    BY <1>1 DEF Clean
  <2>3. Clean' => Provided(journal)'
    BY <1>1, <1>2, <2>2, SameServices
  <2>4. ASSUME Clean', pc'[p] # "dead" PROVE Serves(pc[p], mem[p], todo[p], journal)'
    <3>1. pc'[p] = to /\ mem'[p] = m /\ todo'[p] = work
      BY <1>1, <1>2, <2>4, BecomeAt
    <3>2. Serves(to, m, work, m)
      BY <2>2, <2>4
    <3> QED
      BY <1>1, <1>2, <3>1, <3>2, SameServices
  <2> QED
    BY <2>1, <2>3, <2>4, OnlyServer
<1>3. CASE UNCHANGED journal /\ Become(p, onError, m, StartOrder)
  BY <1>1, <1>3, ServeMove
<1> QED
  BY <1>2, <1>3 DEF Transition

LEMMA StartsAll == Vital \subseteq Elems(StartOrder)
<1>1. StartOrder[1] = "broker" /\ StartOrder[2] = "daemon" /\ Len(StartOrder) = 3
  BY DEF StartOrder
<1>2. 1 \in 1..Len(StartOrder) /\ 2 \in 1..Len(StartOrder)
  BY SMT, <1>1
<1> QED
  BY <1>1, <1>2 DEF Vital, Elems

\* A transition of a run that goes on.
LEMMA ServeOn ==
  ASSUME IInv, TInv, SInv, NEW p \in Procs, NEW from, NEW m, NEW work, NEW to, NEW onError,
         Transition(p, from, m, work, to, onError), from \in Down \cup {"acquired", "preflightOk"},
         m.running = mem[p].running, Clean /\ Live(mem[p]) => Live(m),
         to \in Down \cup Served, to \in Served => from \in Served \/ (from = "restartNew" /\ todo[p] = <<>>),
         to \in {"restartOld", "restartNew"} => work = StartOrder,
         onError \in {"dead", "sweep"} \/ (onError = "restartOld" /\ from \in Down)
  PROVE  SInv'
<1>1. pc[p] = from /\ Alive(p) /\ from \notin {"dead", "sweep", "archive"}
  BY DEF Transition, Alive, Down
<1>2. Clean => /\ Owed(m) /\ Live(m)
               /\ from \in Down => Live(journal) /\ journal.running = m.running
  BY <1>1, HereServes DEF Serves, Owed
<1>3. Clean /\ to \in Served => Settled
  <2>1. CASE from \in Served
    BY <1>1, <2>1, HereServes DEF Serves
  <2>2. CASE from = "restartNew" /\ todo[p] = <<>>
    <3>1. Elems(todo[p]) = {}
      BY SMT, <2>2 DEF Elems
    <3> QED
      BY <1>1, <2>2, <3>1, HereServes DEF Serves, Settled
  <2> QED
    BY <2>1, <2>2
<1>4. Clean => Provided(m)
  BY <1>2 DEF Provided, Live
<1>5. Clean => Serves(to, m, work, m)
  BY <1>2, <1>3, StartsAll DEF Serves
<1>6. Clean => Serves(onError, m, StartOrder, journal)
  BY <1>2, StartsAll DEF Serves, Down, Served
<1> QED
  BY <1>1, <1>4, <1>5, <1>6, ServeTransition DEF Alive

LEMMA Points ==
  /\ \A l \in {"stop", "stopped", "swapping", "backup", "record", "smoke", "rollingBack", "undo",
               "restartOld", "restartNew"} : l \in Down /\ l \notin Served
  /\ \A l \in {"acquired", "preflight", "preflightOk", "prune"} : l \in Served
  BY DEF Down, Served

LEMMA ServeTransitions ==
  ASSUME IInv, TInv, SInv, NEW p \in Procs,
         \/ Acquired(p) \/ PreflightOk(p) \/ Stopped(p) \/ Quiesced(p) \/ Swapping(p)
         \/ Record(p) \/ Swapped(p) \/ Commit(p)
         \/ RollingBack(p) \/ RolledBack(p) \/ Restored(p) \/ Done(p) \/ Aborted(p)
  PROVE  SInv'
<1>1. Leave(p) \in {"sweep", "dead"} /\ UndoError(p) \in {"restartOld", "sweep", "dead"}
  BY DEF Leave, UndoError
<1>2. \A s \in States : In(p, s).running = mem[p].running /\ In(p, s).state = s
  BY AtType
<1>3. \A s \in States \ {"none", "Done", "Aborted"} :
        In(p, s).running = mem[p].running /\ Live(In(p, s))
  BY <1>2 DEF Live
<1>4. CASE Acquired(p) \/ PreflightOk(p) \/ Stopped(p) \/ Quiesced(p) \/ Swapping(p) \/ Swapped(p)
  <2>1. \A s \in {"Acquired", "PreflightOk", "Quiesced", "Swapping", "Swapped"} :
          In(p, s).running = mem[p].running /\ Live(In(p, s))
    BY <1>3 DEF States
  <2>2. CASE Acquired(p)
    BY <2>1, <2>2, Points, ServeOn DEF Acquired
  <2>3. CASE PreflightOk(p)
    BY SMT, <2>1, <2>3, Points, ServeOn DEF PreflightOk
  <2>4. CASE Stopped(p)
    BY SMT, <2>1, <2>4, Points, ServeOn DEF Stopped
  <2>5. CASE Quiesced(p)
    BY SMT, <2>1, <2>5, Points, ServeOn DEF Quiesced
  <2>6. CASE Swapping(p)
    BY SMT, <2>1, <2>6, Points, ServeOn DEF Swapping
  <2>7. CASE Swapped(p)
    BY SMT, <2>1, <2>7, Points, ServeOn DEF Swapped
  <2> QED
    BY <1>4, <2>2, <2>3, <2>4, <2>5, <2>6, <2>7
<1>5. CASE Record(p)
  BY SMT, <1>5, Points, ServeOn DEF Record
<1>6. CASE Commit(p)
  <2> DEFINE m == [In(p, "SmokeOk") EXCEPT !.committed = TRUE]
  <2>1. Transition(p, "smoke", m, StartOrder, "restartNew", "restartOld")
    BY <1>6 DEF Commit
  <2>2. In(p, "SmokeOk") \in Journals
    BY AtType DEF States
  <2>3. m.running = mem[p].running /\ Live(m)
    BY <1>2, <2>2 DEF Journals, States, Live
  <2> HIDE DEF m
  <2> QED
    BY <2>1, <2>3, Points, ServeOn DEF Down
<1>7. CASE RollingBack(p) \/ RolledBack(p) \/ Restored(p)
  <2>1. \A s \in {"RollingBack", "RolledBack", "Restored"} :
          In(p, s).running = mem[p].running /\ Live(In(p, s))
    BY <1>3 DEF States
  <2>2. CASE RollingBack(p)
    BY SMT, <1>1, <2>1, <2>2, Points, ServeOn DEF RollingBack
  <2>3. CASE RolledBack(p)
    BY <1>1, <2>1, <2>3, Points, ServeOn DEF RolledBack
  <2>4. CASE Restored(p)
    BY <1>1, <2>1, <2>4, Points, ServeOn DEF Restored
  <2> QED
    BY <1>7, <2>2, <2>3, <2>4
<1>8. CASE Done(p) \/ Aborted(p)
  <2>1. PICK s \in {"Done", "Aborted"}, e \in {"sweep", "dead"} :
          /\ pc[p] \in {"prune", "restartOld", "aborted"}
          /\ pc[p] = "restartOld" => todo[p] = <<>>
          /\ Transition(p, pc[p], In(p, s), <<>>, "archive", e)
    BY <1>1, <1>8 DEF Done, Aborted, Transition
  <2>2. Alive(p) /\ In(p, s).running = mem[p].running /\ In(p, s).state = s
    BY <1>2, <2>1 DEF Alive, States
  <2>3. Elems(<<>>) = {}
    BY SMT DEF Elems
  <2>4. Clean => Settled /\ Owed(In(p, s))
    BY <2>1, <2>2, <2>3, HereServes DEF Serves, Served, Settled, Owed
  <2>5. Clean => /\ Provided(In(p, s)) /\ Serves("archive", In(p, s), <<>>, In(p, s))
                 /\ Serves(e, In(p, s), StartOrder, journal)
    BY <2>1, <2>2, <2>4 DEF Provided, Serves, Live, Down, Served
  <2> QED
    BY <2>1, <2>2, <2>5, ServeTransition DEF Alive
<1> QED
  BY <1>4, <1>5, <1>6, <1>7, <1>8

LEMMA ServeMoves ==
  ASSUME IInv, TInv, SInv, NEW p \in Procs,
         \/ Preflight(p) \/ Backup(p) \/ Swap(p) \/ Smoke(p) \/ Undo(p) \/ Clear(p) \/ Rename(p)
         \/ Prune(p) \/ DoctorSweep(p) \/ Crash(p)
  PROVE  SInv'
<1> USE DEF Move, Advance
<1>1. Alive(p) /\ UNCHANGED <<services, journal>> /\ errors \subseteq errors'
  BY ErrorKeeps DEF Preflight, Backup, Swap, Smoke, Undo, Clear, Rename, Prune, DoctorSweep,
                    Crash, Alive, trouble
<1>2. \A q \in Procs \ {p} : ~Alive(q)
  BY <1>1, HereServes
<1>3. \A m, w : Serves("dead", m, w, journal) /\ Serves("sweep", m, w, journal)
  BY DEF Serves, Down, Served
<1>4. CASE Preflight(p)
  <2>1. pc[p] = "preflight" /\ \E l \in {"preflightOk", "aborted"} : Become(p, l, mem[p], todo[p])
    BY <1>4 DEF Preflight
  <2>2. Clean => \A l \in {"preflightOk", "aborted"} : Serves(l, mem[p], todo[p], journal)
    BY <1>1, <2>1, HereServes DEF Serves, Down, Served
  <2> QED
    BY <1>1, <1>2, <2>1, <2>2, ServeMove
\* A step between two points with services down.
<1>5. ASSUME pc[p] \in Down, NEW l \in Down \ {"restartNew"}, NEW m, NEW w, Become(p, l, m, w),
             m.running = mem[p].running, m.state = mem[p].state, l = "restartOld" => w = StartOrder
      PROVE  SInv'
  <2>1. Clean => /\ Owed(m) /\ Live(m) /\ Live(journal) /\ journal.running = m.running
    BY <1>1, <1>5, HereServes DEF Serves, Owed, Live, Down
  <2>2. Clean => Serves(l, m, w, journal)
    BY <1>5, <2>1, StartsAll DEF Serves, Down, Served
  <2> QED
    BY <1>1, <1>2, <1>5, <2>2, ServeMove
<1>6. CASE Backup(p)
  <2> DEFINE t == Head(todo[p])
  <2>1. /\ pc[p] = "backup"
        /\ \E l \in {"swap", "rollingBack"}, m \in {mem[p], Adds(p, t)} : Become(p, l, m, todo[p])
    BY <1>6 DEF Backup
  <2>2. Adds(p, t).running = mem[p].running /\ Adds(p, t).state = mem[p].state
    BY AtType DEF Adds, Journals
  <2> QED
    BY <1>5, <2>1, <2>2 DEF Down
<1>7. CASE Swap(p)
  <2> DEFINE m == [mem[p] EXCEPT !.added = @ \ {Head(todo[p])}]
  <2>1. /\ pc[p] = "swap"
        /\ \/ Become(p, "record", mem[p], todo[p]) \/ Become(p, "rollingBack", m, todo[p])
    BY <1>7 DEF Swap
  <2>2. m.running = mem[p].running /\ m.state = mem[p].state
    BY AtType DEF Journals
  <2> HIDE DEF m
  <2> QED
    BY <1>5, <2>1, <2>2 DEF Down
<1>8. CASE Smoke(p)
  BY <1>5, <1>8 DEF Smoke, Down
<1>9. CASE Undo(p) \/ Clear(p) \/ Rename(p)
  <2>1. UndoError(p) \in {"restartOld", "sweep", "dead"}
    BY DEF UndoError, Leave
  <2>2. /\ pc[p] \in {"undo", "clear", "rename"}
        /\ \E l \in {"undo", "clear", "rename", "restartOld", "sweep", "dead"}, w \in {todo[p], Tail(todo[p]), StartOrder} :
             Become(p, l, mem[p], w) /\ (l = "restartOld" => w = StartOrder)
    BY <1>9, <2>1 DEF Undo, Clear, Rename
  <2>3. PICK l \in {"undo", "clear", "rename", "restartOld", "sweep", "dead"} : \E w :
             Become(p, l, mem[p], w) /\ (l = "restartOld" => w = StartOrder)
    BY <2>2
  <2>4. CASE l \in {"sweep", "dead"}
    BY <1>1, <1>2, <1>3, <2>3, <2>4, ServeMove
  <2>5. CASE l \in {"undo", "clear", "rename", "restartOld"}
    BY <1>5, <2>2, <2>3, <2>5 DEF Down
  <2> QED
    BY <2>4, <2>5
<1>10. CASE Prune(p)
  <2>1. pc[p] = "prune" /\ Become(p, "prune", mem[p], Tail(todo[p]))
    BY <1>10 DEF Prune
  <2>2. Clean => Serves("prune", mem[p], Tail(todo[p]), journal)
    BY <1>1, <2>1, HereServes DEF Serves, Down, Served
  <2> QED
    BY <1>1, <1>2, <2>1, <2>2, ServeMove
<1>11. CASE DoctorSweep(p) \/ Crash(p)
  BY <1>1, <1>2, <1>3, <1>11, ServeMove DEF DoctorSweep, Crash
<1> QED
  BY <1>4, <1>6, <1>7, <1>8, <1>9, <1>10, <1>11

LEMMA StopServes == ASSUME IInv, TInv, SInv, NEW p \in Procs, Stop(p) PROVE SInv'
<1>1. /\ pc[p] = "stop" /\ Alive(p) /\ UNCHANGED <<failed, journal>> /\ errors \subseteq errors'
      /\ \E l \in {"stopped", "dead"} : Become(p, l, mem[p], todo[p])
  BY ErrorKeeps DEF Stop, Alive, Move
<1>2. \A q \in Procs \ {p} : ~Alive(q)
  BY <1>1, HereServes
<1>3. PICK l \in {"stopped", "dead"} : Become(p, l, mem[p], todo[p])
  BY <1>1
<1>4. /\ pc'[p] = l /\ (l # "dead" => mem'[p] = mem[p] /\ todo'[p] = todo[p])
      /\ \A q \in Procs \ {p} : pc'[q] = "dead"
  BY <1>2, <1>3, BecomeAt
<1>5. Clean' => /\ Owed(mem[p]) /\ Live(mem[p]) /\ Live(journal) /\ Owed(journal)
                /\ journal.running = mem[p].running
  BY <1>1, HereServes DEF Clean, Serves, Provided, Down
<1>6. \A m : Owed(m)' <=> Owed(m)
  BY <1>1 DEF Owed
<1>7. Clean' => Provided(journal)'
  BY <1>1, <1>5, <1>6 DEF Provided, Live
<1>8. Clean' => (pc'[p] # "dead" => Serves(pc[p], mem[p], todo[p], journal)')
  BY <1>1, <1>4, <1>5, <1>6 DEF Serves, Down, Served, Live
<1> QED
  BY <1>4, <1>7, <1>8, OnlyServer

\* A restart pays what is owed for one service, or reports it.
LEMMA RestartServes == ASSUME IInv, TInv, SInv, NEW p \in Procs, Restart(p) PROVE SInv'
<1> DEFINE c == Head(todo[p])
<1>1. /\ pc[p] \in {"restartOld", "restartNew"} /\ Alive(p) /\ todo[p] # <<>>
      /\ UNCHANGED journal /\ errors \subseteq errors'
      /\ Become(p, pc[p], mem[p], Tail(todo[p]))
  BY ErrorKeeps DEF Restart, Alive, Advance
<1>2. Elems(todo[p]) = {c} \cup Elems(Tail(todo[p]))
  BY <1>1, Ahead DEF Serving
<1>3. /\ pc'[p] = pc[p] /\ mem'[p] = mem[p] /\ todo'[p] = Tail(todo[p])
      /\ \A q \in Procs \ {p} : pc'[q] = "dead"
  BY <1>1, HereServes, BecomeAt DEF Alive
<1>4. Clean' => /\ Owed(mem[p]) /\ Live(mem[p]) /\ Live(journal) /\ journal.running = mem[p].running
                /\ \A d \in Vital : d \in up \cup failed \cup Elems(todo[p])
                /\ journal.state # "none"
  BY <1>1, HereServes DEF Clean, Serves, Down, Live
<1>5. \/ c \in mem[p].running \ {"mcp"} /\ up' = up \cup {c} /\ failed' = failed \ {c}
      \/ c \in mem[p].running /\ failed' = failed \cup {c} /\ up' = up
      \/ c \notin mem[p].running \ {"mcp"} /\ up' = up /\ failed' = failed
  BY DEF Restart, services
<1>6. Clean' => Vital \subseteq mem[p].running \cup failed'
  BY <1>4, <1>5 DEF Owed
<1>7. Clean' => \A d \in Vital : d \in up' \cup failed' \cup Elems(Tail(todo[p]))
  BY <1>2, <1>4, <1>5 DEF Owed, Vital
<1>8. Clean' => Provided(journal)'
  BY <1>1, <1>4, <1>6 DEF Provided, Owed, Live
<1>9. Clean' => Serves(pc[p], mem[p], todo[p], journal)'
  BY <1>1, <1>3, <1>4, <1>6, <1>7 DEF Serves, Owed, Live, Down, Served
<1> QED
  BY <1>3, <1>8, <1>9, OnlyServer

LEMMA ServeStarts ==
  ASSUME StartsAlone, IInv, TInv, SInv, NEW p \in Procs,
         \/ \E v \in 2..MaxVersion, elevated \in BOOLEAN : Apply(p, v, elevated)
         \/ (\E k : Recover(p, k)) \/ DoctorIdle(p)
  PROVE  SInv'
<1>1. /\ \A q \in Procs : ~Alive(q)
      /\ UNCHANGED <<services, journal>> /\ errors \subseteq errors'
  BY ErrorKeeps DEF StartsAlone, Apply, Recover, RecoverAt, DoctorIdle, trouble
<1>2. Clean => Provided(journal) /\ (Pending <=> Live(journal))
  <2>1. Clean => Provided(journal)
    BY DEF SInv
  <2>2. NoJournal.state = "none"
    BY DEF NoJournal
  <2> QED
    BY SMT, <2>1, <2>2 DEF Provided, Pending, Terminal, Live
<1>3. CASE \E k : Recover(p, k)
  <2>1. Pending /\ \E l \in {"restartNew", "rollingBack"} : Become(p, l, journal, StartOrder)
    BY <1>3 DEF Recover, RecoverAt, NeedsRecovery
  <2>2. Clean => \A l \in {"restartNew", "rollingBack"} : Serves(l, journal, StartOrder, journal)
    BY <1>2, <2>1, StartsAll DEF Provided, Serves, Down, Served
  <2> QED
    BY <1>1, <2>1, <2>2, ServeMove
<1>4. CASE DoctorIdle(p)
  <2>1. Serves("sweep", mem[p], todo[p], journal)
    BY DEF Serves, Down, Served
  <2> QED
    BY <1>1, <1>4, <2>1, ServeMove DEF DoctorIdle, Move
<1>5. ASSUME NEW v \in 2..MaxVersion, NEW elevated \in BOOLEAN, Apply(p, v, elevated)
      PROVE  SInv'
  <2> DEFINE m == [owner |-> p, state |-> "Init", committed |-> FALSE, added |-> {},
                   running |-> up, plan |-> PlanFor(elevated), to |-> v]
             w == StopsFor(elevated)
  <2>1. Become(p, "acquired", m, w) /\ m.running = up /\ m.state = "Init"
    BY <1>5 DEF Apply
  <2> HIDE DEF m, w
  <2>2. CASE Clean'
    <3>1. ~Pending /\ Clean
      BY <1>5, <2>2 DEF Apply, Clean, Error, Lossy, trouble
    <3>2. Settled
      BY <1>2, <3>1 DEF Provided
    <3>3. Serves("acquired", m, w, journal)
      BY <2>1, <3>2 DEF Serves, Owed, Settled, Live, Down, Served
    <3> QED
      BY <1>1, <2>1, <3>3, ServeMove
  <2>3. CASE ~Clean'
    BY <2>3 DEF SInv
  <2> QED
    BY <2>2, <2>3
<1> QED
  BY <1>3, <1>4, <1>5

LEMMA ArchiveServes == ASSUME IInv, TInv, SInv, NEW p \in Procs, Archive(p) PROVE SInv'
<1>1. /\ pc[p] = "archive" /\ Alive(p) /\ journal' = NoJournal /\ UNCHANGED <<services, errors>>
      /\ \E l \in {"sweep", "dead"} : Become(p, l, mem[p], todo[p])
  BY DEF Archive, Alive, Move, Leave, trouble
<1>2. pc'[p] \in {"sweep", "dead"} /\ \A q \in Procs \ {p} : pc'[q] = "dead"
  BY <1>1, HereServes, BecomeAt
<1>3. Clean' => Settled'
  BY <1>1, HereServes DEF Clean, Serves, Served, Settled, services
<1>4. Clean' => Provided(journal)'
  BY <1>1, <1>3 DEF Provided, Live, NoJournal
<1>5. Serves(pc[p], mem[p], todo[p], journal)'
  BY <1>2 DEF Serves, Down, Served
<1> QED
  BY <1>2, <1>4, <1>5, OnlyServer

LEMMA NextSInv == ASSUME StartsAlone, IInv, TInv, SInv, [Next]_vars PROVE SInv'
<1>1. CASE UNCHANGED vars
  <2>1. UNCHANGED services /\ UNCHANGED <<journal, pc, mem, todo, errors>>
    BY <1>1 DEF vars, services
  <2> QED
    BY <2>1, SameServices DEF SInv, Clean
<1>2. CASE Next
  <2>1. PICK p \in Procs : \/ \E v \in 2..MaxVersion, elevated \in BOOLEAN : Apply(p, v, elevated)
                           \/ (\E k : Recover(p, k)) \/ DoctorIdle(p) \/ Step(p) \/ Crash(p)
    BY <1>2 DEF Next
  <2>2. CASE Step(p)
    BY <2>2, ServeTransitions, ServeMoves, StopServes, RestartServes, ArchiveServes
       DEF Step, ApplyStep, UndoStep, FinishStep
  <2> QED
    BY <2>1, <2>2, ServeStarts, ServeMoves
<1> QED
  BY <1>1, <1>2

-----------------------------------------------------------------------------
(* drop_broker.                                                             *)

LEMMA Least ==
  ASSUME NEW T \in SUBSET Nat, T # {}
  PROVE  \E m \in T : \A k \in T : ~(k < m)
<1> DEFINE R == OpToRel(<, Nat)
<1>1. IsWellFoundedOn(R, Nat)
  BY NatLessThanWellFounded
<1>2. \A i, k \in Nat : i < k => <<i, k>> \in R
  BY DEF OpToRel
<1> HIDE DEF R
<1>3. PICK m \in T : \A k \in T : ~(<<k, m>> \in R)
  BY <1>1, WFMin
<1> QED
  BY <1>2, <1>3

\* One step of `retain`, on the results of the steps before it.
Keep(g, n) ==
  IF n = 0 THEN <<>>
  ELSE IF Stem[Plan[n]] = "uffs-broker" THEN g[n - 1] ELSE Append(g[n - 1], Plan[n])

LEMMA RetainDef == \A n \in 0..Len(Plan) : Retain[n] = Keep(Retain, n)
<1> DEFINE L == Len(Plan)
           Prefix(n) == \E g : DOMAIN g = 0..n /\ \A k \in 0..n : g[k] = Keep(g, k)
           T == {n \in 0..L : ~Prefix(n)}
<1>1. L \in Nat
  BY SMT, PlanAssumption
<1> HIDE DEF L
<1>2. Prefix(0)
  <2> DEFINE h == [k \in 0..0 |-> <<>>]
  <2>1. DOMAIN h = 0..0 /\ \A k \in 0..0 : h[k] = Keep(h, k)
    BY SMT DEF Keep
  <2> QED
    BY <2>1
<1>3. ASSUME NEW n \in 1..L, Prefix(n - 1) PROVE Prefix(n)
  <2>1. PICK g : DOMAIN g = 0..(n - 1) /\ \A k \in 0..(n - 1) : g[k] = Keep(g, k)
    BY <1>3
  <2> DEFINE h == [k \in 0..n |-> IF k = n THEN Keep(g, n) ELSE g[k]]
  <2>2. \A k \in 0..n : Keep(h, k) = Keep(g, k)
    BY SMT, <1>1 DEF Keep
  <2>3. \A k \in 0..n : h[k] = Keep(h, k)
    BY SMT, <1>1, <2>1, <2>2
  <2>4. DOMAIN h = 0..n
    OBVIOUS
  <2> HIDE DEF h
  <2> QED
    BY <2>3, <2>4
<1>4. T = {}
  <2> HIDE DEF Prefix
  <2> SUFFICES ASSUME T # {} PROVE FALSE
    OBVIOUS
  <2>1. T \subseteq Nat
    BY SMT, <1>1
  <2>2. PICK m \in T : \A k \in T : ~(k < m)
    BY <2>1, Least
  <2>3. m \in 1..L
    BY SMT, <1>1, <1>2, <2>2
  <2>4. m - 1 \in 0..L /\ m - 1 < m /\ m - 1 \notin T
    BY SMT, <1>1, <2>2, <2>3
  <2> QED
    BY <1>3, <2>2, <2>3, <2>4
<1>5. PICK g : DOMAIN g = 0..L /\ \A k \in 0..L : g[k] = Keep(g, k)
  BY SMT, <1>1, <1>4
<1>6. Retain = CHOOSE f : f = [n \in 0..L |-> Keep(f, n)]
  BY DEF Retain, L, Keep
<1>7. \E f : f = [n \in 0..L |-> Keep(f, n)]
  <2> DEFINE h == [n \in 0..L |-> g[n]]
  <2>1. \A n \in 0..L : Keep(h, n) = Keep(g, n)
    BY SMT, <1>1 DEF Keep
  <2>2. h = [n \in 0..L |-> Keep(h, n)]
    BY <1>5, <2>1
  <2> QED
    BY <2>2
<1>8. Retain = [n \in 0..L |-> Keep(Retain, n)]
  BY <1>6, <1>7
<1> QED
  BY <1>8 DEF L

\* What is retained are binaries of the plan, none of them the broker's.
LEMMA RetainKeeps == BrokerDropped
<1> DEFINE L == Len(Plan)
           S == {t \in Targets : Stem[t] # "uffs-broker"}
           T == {n \in 0..L : Retain[n] \notin Seq(S)}
<1>1. L \in Nat /\ \A n \in 1..L : Plan[n] \in Targets
  BY SMT, PlanAssumption
<1>2. \A n \in 0..L : Retain[n] = Keep(Retain, n)
  BY RetainDef
<1> HIDE DEF L
<1>3. Retain[0] \in Seq(S)
  <2>1. Retain[0] = <<>>
    BY SMT, <1>1, <1>2 DEF Keep
  <2> HIDE DEF S
  <2> QED
    BY SMT, <2>1
<1>4. ASSUME NEW n \in 1..L, Retain[n - 1] \in Seq(S) PROVE Retain[n] \in Seq(S)
  <2>1. Retain[n] = IF Stem[Plan[n]] = "uffs-broker" THEN Retain[n - 1]
                    ELSE Append(Retain[n - 1], Plan[n])
    BY SMT, <1>1, <1>2 DEF Keep
  <2>2. Plan[n] \in Targets
    BY <1>1
  <2> HIDE DEF S
  <2>3. CASE Stem[Plan[n]] = "uffs-broker"
    BY <1>4, <2>1, <2>3
  <2>4. CASE Stem[Plan[n]] # "uffs-broker"
    <3>1. Plan[n] \in S
      BY <2>2, <2>4 DEF S
    <3> QED
      BY SMT, <1>4, <2>1, <2>4, <3>1
  <2> QED
    BY <2>3, <2>4
<1>5. T = {}
  <2> SUFFICES ASSUME T # {} PROVE FALSE
    OBVIOUS
  <2> HIDE DEF S
  <2>1. T \subseteq Nat
    BY SMT, <1>1
  <2>2. PICK m \in T : \A k \in T : ~(k < m)
    BY <2>1, Least
  <2>3. m \in 1..L
    BY SMT, <1>1, <1>3, <2>2
  <2>4. m - 1 \in 0..L /\ m - 1 < m /\ m - 1 \notin T
    BY SMT, <1>1, <2>2, <2>3
  <2> QED
    BY <1>4, <2>2, <2>3, <2>4
<1> QED
  BY SMT, <1>1, <1>5 DEF L, BrokerDropped

\* With MaxAlive = 1 a process starts only when no other one runs.
LEMMA OneStartsAlone == ASSUME MaxAlive = 1 PROVE StartsAlone
<1> SUFFICES ASSUME NEW p \in Procs, MayStart(p) PROVE \A q \in Procs : ~Alive(q)
  BY DEF StartsAlone
<1> DEFINE S == {q \in Procs : Alive(q)}
<1>1. IsFiniteSet(S)
  BY UpdateProcsAssumption, FS_Subset
<1>2. Cardinality(S) \in Nat /\ Cardinality(S) < 1
  BY <1>1, FS_CardinalityType DEF MayStart
<1>3. S = {}
  BY SMT, <1>1, <1>2, FS_EmptySet
<1> QED
  BY <1>3

-----------------------------------------------------------------------------
(* The theorems.                                                            *)

\* For any number of processes, releases, kills and I/O errors: every value keeps its
\* type, and a process inside backup_and_swap or restore has a binary of its plan at
\* hand.
THEOREM TypeCorrectUpdate == Spec => []TypeOK
<1>1. Init => TInv
  BY InitTInv
<1>2. TInv /\ [Next]_vars => TInv'
  BY NextTInv, RetainKeeps
<1>3. TInv => TypeOK
  <2> SUFFICES ASSUME TInv PROVE TypeOK
    OBVIOUS
  <2>1. journal.state \in States /\ journal.added \subseteq Targets
    BY DEF TInv, RestTypes, Journals
  <2>2. ASSUME NEW p \in Procs, pc[p] \in {"swap", "record", "clear", "rename"}
        PROVE  todo[p] # <<>> /\ \E i \in 1..Len(mem[p].plan) : mem[p].plan[i] = Head(todo[p])
    <3>1. todo[p] # <<>>
      BY <2>2, AtType DEF Fits, AtHand
    <3>2. Head(todo[p]) \in Elems(mem[p].plan)
      BY <2>2, <3>1, Ahead DEF Looping
    <3> QED
      BY <3>1, <3>2 DEF Elems
  <2> QED
    BY <2>1, <2>2 DEF TypeOK, TInv, FileTypes, RestTypes
<1> QED
  BY <1>1, <1>2, <1>3, PTL DEF Spec

\* For any plan, any number of releases, kills and I/O errors: while one uffs-update
\* process runs at a time and no update is begun over an interrupted one, every
\* binary of the installation is there, in place or as its .bak (apply.rs, INV-2
\* and INV-3).
THEOREM BinariesSurvive == ASSUME MaxAlive = 1 PROVE Spec => []NoBinaryLost
<1>1. Init => IInv
  BY InitIInv
<1>2. IInv /\ [Next]_vars => IInv'
  BY NextIInv, OneStartsAlone
<1>3. IInv => NoBinaryLost
  BY DEF IInv
<1> QED
  BY <1>1, <1>2, <1>3, PTL DEF Spec

LEMMA OInvAlways == ASSUME MaxAlive = 1 PROVE Spec => [](IInv /\ TInv /\ OInv)
<1>1. Init => IInv /\ TInv /\ OInv
  BY InitIInv, InitTInv, InitOInv
<1>2. (IInv /\ TInv /\ OInv) /\ [Next]_vars => (IInv /\ TInv /\ OInv)'
  BY NextIInv, OneStartsAlone, NextTInv, RetainKeeps, NextOInv
<1> QED
  BY <1>1, <1>2, PTL DEF Spec

\* For any plan and any number of kills: until the commit point is on disk, the image
\* that each replaced binary had when the update began is in place or its .bak, so
\* rollback_all can always restore it (INV-3).
THEOREM RollbackIsPossible == ASSUME MaxAlive = 1 PROVE Spec => []OriginalsKept
<1>1. IInv /\ TInv /\ OInv => OriginalsKept
  <2> SUFFICES ASSUME OInv, Pending, ~journal.committed, errors = {},
                      NEW t \in Replaced
               PROVE  origin[t] \in {image[t], bak[t]}
    BY DEF OriginalsKept
  <2>1. DiskOK(journal) /\ Live(journal)
    BY LiveIsPending DEF OInv
  <2>2. Kept /\ t \in Targets /\ origin[t] # 0
    BY <2>1 DEF DiskOK, Replaced
  <2> QED
    BY <2>2 DEF Kept
<1> QED
  BY <1>1, OInvAlways, PTL

\* For any plan and any number of kills: a run that ends, by itself or by recover, ends
\* with all planned binaries replaced and no .bak left, or with every binary that was
\* there as it was.
THEOREM EndsAreWhole == ASSUME MaxAlive = 1 PROVE Spec => []AllOrNothing
<1>1. IInv /\ TInv /\ OInv => AllOrNothing
  <2> SUFFICES ASSUME TInv, OInv, errors = {}
               PROVE  /\ journal.state = "Done" =>
                           \A i \in 1..Len(journal.plan) :
                             New(journal.plan[i]) /\ bak[journal.plan[i]] = 0
                      /\ journal.state = "Aborted" => \A t \in Replaced : Old(t) /\ bak[t] = 0
    BY DEF AllOrNothing
  <2>1. DiskOK(journal)
    BY DEF OInv
  <2>2. ASSUME journal.state = "Done", NEW i \in 1..Len(journal.plan)
        PROVE  New(journal.plan[i]) /\ bak[journal.plan[i]] = 0
    <3>1. AllNew(journal) /\ NoBaks
      BY <2>1, <2>2 DEF DiskOK, Live
    <3>2. journal.plan \in Seq(Targets)
      BY DEF TInv, RestTypes, Journals
    <3>3. journal.plan[i] \in Elems(journal.plan) /\ journal.plan[i] \in Targets
      BY SMT, <2>2, <3>2 DEF Elems
    <3> QED
      BY <3>1, <3>3 DEF AllNew, NoBaks, New
  <2>3. ASSUME journal.state = "Aborted", NEW t \in Replaced PROVE Old(t) /\ bak[t] = 0
    <3>1. Rolled
      BY <2>1, <2>3 DEF DiskOK
    <3> QED
      BY <3>1 DEF Rolled, NoBaks, Old, Replaced
  <2> QED
    BY <2>2, <2>3
<1> QED
  BY <1>1, OInvAlways, PTL

\* quiesce takes services down, restore brings them up, and nothing else touches them.
LEMMA WhoStarts ==
  ASSUME Next
  PROVE  \E p \in Procs : Restart(p) \/ Stop(p) \/ UNCHANGED services
<1>1. ASSUME NEW p \in Procs, ApplyStep(p) PROVE Stop(p) \/ UNCHANGED services
  BY <1>1 DEF ApplyStep, Acquired, Preflight, PreflightOk, Stopped, Quiesced, Swapping, Backup,
              Swap, Record, Swapped, Smoke, Commit, Transition
<1>2. ASSUME NEW p \in Procs, UndoStep(p) PROVE UNCHANGED services
  BY <1>2 DEF UndoStep, RollingBack, Undo, Clear, Rename, RolledBack, Transition
<1>3. ASSUME NEW p \in Procs, FinishStep(p) PROVE Restart(p) \/ UNCHANGED services
  BY <1>3 DEF FinishStep, Restored, Prune, Done, Aborted, Archive, DoctorSweep, Transition
<1> QED
  BY <1>1, <1>2, <1>3 DEF Next, Step, Apply, Recover, RecoverAt, DoctorIdle, Crash

\* For any plan and any number of kills: restore starts a service only when the
\* replaced binaries are all old again or the planned ones are all new.
THEOREM ServicesStartOnWholeUpdates == ASSUME MaxAlive = 1 PROVE Spec => NoServiceOnMixedBinaries
<1> DEFINE A == up' \ up # {} /\ errors = {} =>
                  \/ \A t \in Replaced : Old(t)
                  \/ \A i \in 1..Len(journal.plan) : New(journal.plan[i])
<1>1. (IInv /\ TInv /\ OInv) /\ [Next]_vars => [A]_vars
  <2> SUFFICES ASSUME IInv, TInv, OInv, Next, up' \ up # {}, errors = {}
               PROVE  \/ \A t \in Replaced : Old(t)
                      \/ \A i \in 1..Len(journal.plan) : New(journal.plan[i])
    OBVIOUS
  <2>1. PICK p \in Procs : Restart(p)
    BY WhoStarts DEF Stop, services
  <2>2. pc[p] \in {"restartOld", "restartNew"} /\ Alive(p)
    BY <2>1 DEF Restart, Alive
  <2>3. DiskOK(journal) /\ ProcOK(pc[p], mem[p], todo[p], journal)
    BY <2>2, HereOK
  <2>4. CASE pc[p] = "restartOld"
    <3>1. Rolled
      BY <2>3, <2>4 DEF ProcOK
    <3> QED
      BY <3>1 DEF Rolled, Replaced, Old
  <2>5. CASE pc[p] = "restartNew"
    <3>1. AllNew(journal)
      BY <2>3, <2>5 DEF ProcOK, DiskOK
    <3> QED
      BY <3>1 DEF AllNew, New, Elems
  <2> QED
    BY <2>2, <2>4, <2>5
<1> QED
  BY <1>1, OInvAlways, PTL DEF Spec, NoServiceOnMixedBinaries

\* For any plan, whatever fails and however often processes are killed: a binary is
\* swapped only while the service that runs it is down (quiesce, drop_broker).
THEOREM SwapsFindServicesDown == ASSUME MaxAlive = 1 PROVE Spec => []SwapsOnlyStopped
<1> DEFINE I == IInv /\ TInv /\ StopInv
<1>1. Init => I
  BY InitIInv, InitTInv DEF Init, StopInv, Stopping
<1>2. I /\ [Next]_vars => I'
  BY NextIInv, OneStartsAlone, NextTInv, RetainKeeps, NextStopInv
<1>3. I => SwapsOnlyStopped
  <2> SUFFICES ASSUME TInv, StopInv, NEW p \in Procs, pc[p] = "swap"
               PROVE  /\ Stem[Head(todo[p])] = "uffsd" => "daemon" \notin up
                      /\ Stem[Head(todo[p])] = "uffs-broker" => "broker" \notin up
    BY DEF SwapsOnlyStopped
  <2>1. todo[p] # <<>>
    BY AtType DEF Fits, AtHand
  <2>2. Head(todo[p]) \in Elems(mem[p].plan)
    BY <2>1, Ahead DEF Looping
  <2>3. Halting(mem[p], <<>>) /\ Elems(<<>>) = {}
    BY SMT DEF StopInv, Stopping, Elems
  <2> QED
    BY <2>2, <2>3 DEF Halting, Vital, HasBroker
<1> QED
  BY <1>1, <1>2, <1>3, PTL DEF Spec

\* For any plan, any I/O errors and any number of kills: once no update is under way or
\* interrupted, the daemon and the broker run or their restart was reported as failed
\* (INV-1), unless an update was begun over an interrupted one.
THEOREM ServicesComeBack == ASSUME MaxAlive = 1 PROVE Spec => []NoServiceLeftDown
<1> DEFINE I == IInv /\ TInv /\ SInv
<1>1. Init => I
  <2>1. ASSUME Init PROVE SInv
    <3>1. Settled /\ ~Live(journal) /\ journal = NoJournal
      BY <2>1 DEF Init, Settled, Vital, Services, Live, NoJournal
    <3>2. ASSUME NEW p \in Procs PROVE pc[p] = "dead"
      BY <2>1 DEF Init
    <3> QED
      BY <3>1, <3>2 DEF SInv, Provided, Serves, Down, Served
  <2> QED
    BY <2>1, InitIInv, InitTInv
<1>2. I /\ [Next]_vars => I'
  BY NextIInv, OneStartsAlone, NextTInv, RetainKeeps, NextSInv
<1>3. I => NoServiceLeftDown
  <2>1. Vital = Services \ {"mcp"} /\ NoJournal.state = "none"
    BY DEF Vital, Services, NoJournal
  <2> QED
    BY <2>1 DEF SInv, Provided, NoServiceLeftDown, Clean, Pending, Terminal, Live, Settled
<1> QED
  BY <1>1, <1>2, <1>3, PTL DEF Spec

=============================================================================
