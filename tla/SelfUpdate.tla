----------------------------- MODULE SelfUpdate -----------------------------
(***************************************************************************)
(* The self-update of an installation: `uffs --update` freezes a snapshot  *)
(* and stages the new binaries, `uffs-update apply` stops the services,    *)
(* swaps the binaries, smoke-tests them, commits and restarts the          *)
(* services; every `uffs` invocation that finds a live journal spawns      *)
(* `uffs-update recover`; `uffs-update doctor --repair` recovers, sweeps   *)
(* old backups and restarts services.                                      *)
(*                                                                         *)
(* A file is the version of the image it holds, 0 when it is absent.  Each *)
(* rename, removal and journal save is one step, and a process may die     *)
(* between any two.  Per-binary statuses, services_stopped and the event   *)
(* trail are written to the journal and read by nobody; they are left out. *)
(***************************************************************************)
EXTENDS Naturals, Sequences, FiniteSets

CONSTANTS
  Procs,       \* pids of uffs-update processes
  Plan,        \* (root, binary) pairs of the unmanaged roots, in snapshot order
  Stem,        \* the staged file each of them is swapped from
  SelfRoot,    \* those in the directory of the running uffs-update
  MaxVersion,  \* newest release (bound); the installation starts at 1
  MaxAlive,    \* uffs-update processes that run at the same time (bound)
  MaxTrouble,  \* kills and I/O errors in one behaviour (bound)
  Faults       \* what may happen in this instance

AllFaults == {"swapFails", "smokeFails", "stopFails", "saveFails", "undoFails",
              "startFails", "pruneFails", "unwritable", "applyOverPending", "doctor"}
\* The errors that the rollback does not cover.
Lossy == {"saveFails", "undoFails", "pruneFails", "applyOverPending"}
Targets == {Plan[i] : i \in 1..Len(Plan)}
Stems == {Stem[t] : t \in Targets}
Services == {"mcp", "daemon", "broker"}
StartOrder == <<"broker", "daemon", "mcp">>

ASSUME PlanAssumption ==
  Plan \in Seq(Targets) /\ Len(Plan) > 0 /\ SelfRoot \subseteq Targets
ASSUME UpdateBoundAssumption ==
  MaxVersion \in Nat \ {0, 1} /\ MaxAlive \in Nat \ {0} /\ MaxTrouble \in Nat
ASSUME UpdateFaultAssumption == Faults \subseteq AllFaults
ASSUME UpdateProcsAssumption == IsFiniteSet(Procs)

VARIABLES
  image,    \* installed binaries
  bak,      \* their .bak siblings
  staged,   \* the staging directory
  journal,  \* journal.json
  up,       \* services that run
  failed,   \* services whose last restart was reported as failed
  pc,       \* control point of each process
  kind,     \* "apply", "recover" or "doctor"
  mem,      \* the Journal value each process holds
  todo,     \* what is left of the loop each process is in
  hits,     \* kills and I/O errors so far
  errors,   \* history: the Lossy ones among them
  origin    \* history: the images when the update under way began

files == <<image, bak, staged>>
services == <<up, failed>>
trouble == <<hits, errors>>
vars == <<image, bak, staged, journal, up, failed, pc, kind, mem, todo, hits,
          errors, origin>>

NoJournal == [owner |-> 0, state |-> "none", committed |-> FALSE, added |-> {},
              running |-> {}, plan |-> <<>>, to |-> 0]

\* UpdateState::is_terminal
Terminal(j) == j.state \in {"Done", "Aborted"}
Alive(p) == pc[p] # "dead"
\* A live journal of a run that has not finished.
Pending == journal # NoJournal /\ ~Terminal(journal)
NeedsRecovery == Pending /\ ~Alive(journal.owner)
\* A pid is not given out again while a journal names it.
MayStart(p) ==
  /\ ~Alive(p) /\ p # journal.owner
  /\ Cardinality({q \in Procs : Alive(q)}) < MaxAlive

Init ==
  /\ image \in [Targets -> {0, 1}] /\ \E t \in Targets : image[t] = 1
  /\ bak = [t \in Targets |-> 0]
  /\ staged = [s \in Stems |-> 0]
  /\ journal = NoJournal
  /\ up = Services /\ failed = {}
  /\ pc = [p \in Procs |-> "dead"]
  /\ kind = [p \in Procs |-> "apply"]
  /\ mem = [p \in Procs |-> NoJournal]
  /\ todo = [p \in Procs |-> <<>>]
  /\ hits = 0 /\ errors = {}
  /\ origin = image

\* p goes on at l with journal value m and work w; a process that ends forgets.
Become(p, l, m, w) ==
  /\ pc' = [pc EXCEPT ![p] = l]
  /\ mem' = [mem EXCEPT ![p] = IF l = "dead" THEN NoJournal ELSE m]
  /\ todo' = [todo EXCEPT ![p] = IF l = "dead" THEN <<>> ELSE w]

\* An error of kind e strikes.
Error(e) ==
  /\ e \in Faults
  /\ hits < MaxTrouble /\ hits' = hits + 1
  /\ errors' = errors \cup ({e} \cap Lossy)

Move(p, l) == Become(p, l, mem[p], todo[p])
Advance(p, l) == Become(p, l, mem[p], Tail(todo[p]))

\* recover returns, with or without an error; the doctor goes on to its sweep.
Leave(p) == IF kind[p] = "doctor" THEN "sweep" ELSE "dead"

\* Journal::transition: set the state, then write a temporary file and rename it
\* over the journal; a failed save leaves only the value in memory changed.
Transition(p, from, m, work, to, onError) ==
  /\ pc[p] = from
  /\ \/ journal' = m /\ Become(p, to, m, work) /\ UNCHANGED trouble
     \/ Error("saveFails") /\ Become(p, onError, m, StartOrder) /\ UNCHANGED journal
  /\ UNCHANGED <<files, services, kind, origin>>

In(p, state) == [mem[p] EXCEPT !.state = state]

-----------------------------------------------------------------------------
(* uffs --update: snapshot and acquire.                                    *)

\* sweep_stale_backups: a .bak next to a live image is a leftover.
Swept(roots) ==
  [t \in Targets |-> IF t \in roots /\ image[t] # 0 THEN 0 ELSE bak[t]]

\* drop_broker: what `retain` leaves of the first n binaries of the plan.
Retain[n \in 0..Len(Plan)] ==
  IF n = 0 THEN <<>>
  ELSE IF Stem[Plan[n]] = "uffs-broker" THEN Retain[n - 1]
  ELSE Append(Retain[n - 1], Plan[n])

\* Without elevation, a running broker and its binaries are left alone.
PlanFor(elevated) == IF elevated \/ "broker" \notin up THEN Plan ELSE Retain[Len(Plan)]
StopsFor(elevated) ==
  LET one(c, ok) == IF c \in up /\ ok THEN <<c>> ELSE <<>>
  IN one("mcp", TRUE) \o one("daemon", TRUE) \o one("broker", elevated)

\* Mutant: a running broker stays in the plan of a run that cannot stop it.
ApplyKeepsBroker(p, v, elevated) ==
  /\ MayStart(p) /\ ~Pending /\ UNCHANGED trouble
  /\ \A t \in Targets : v > image[t]
  /\ staged' = [s \in Stems |-> v]
  /\ Become(p, "acquired",
            [owner |-> p, state |-> "Init", committed |-> FALSE, added |-> {},
             running |-> up, plan |-> Plan, to |-> v],
            StopsFor(elevated))
  /\ kind' = [kind EXCEPT ![p] = "apply"]
  /\ origin' = image
  /\ UNCHANGED <<image, bak, journal, services>>

\* write_snapshot and acquire::spawn, then the start of run_apply: the sweep of
\* its own directory, and without elevation a running broker is dropped from
\* the plan. `running` is what the snapshot file lists; restore in this process
\* skips a dropped broker, which is up, and starting it then changes nothing.
Apply(p, v, elevated) ==
  /\ MayStart(p)
  /\ IF Pending THEN Error("applyOverPending") ELSE UNCHANGED trouble
  /\ \A t \in Targets : v > image[t]
  /\ staged' = [s \in Stems |-> v]
  /\ bak' = IF journal = NoJournal THEN Swept(SelfRoot) ELSE bak
  /\ Become(p, "acquired",
            [owner |-> p, state |-> "Init", committed |-> FALSE, added |-> {},
             running |-> up, plan |-> PlanFor(elevated), to |-> v],
            StopsFor(elevated))
  /\ kind' = [kind EXCEPT ![p] = "apply"]
  /\ origin' = IF Pending THEN origin ELSE image
  /\ UNCHANGED <<image, journal, services>>

-----------------------------------------------------------------------------
(* uffs-update apply.                                                      *)

Acquired(p) == Transition(p, "acquired", In(p, "Acquired"), todo[p], "preflight", "dead")

\* preflight: every staged binary is there and every directory writable.
Preflight(p) ==
  /\ pc[p] = "preflight"
  /\ LET missing == \E i \in 1..Len(mem[p].plan) : staged[Stem[mem[p].plan[i]]] = 0
     IN \/ ~missing /\ Move(p, "preflightOk") /\ UNCHANGED trouble
        \/ missing /\ Move(p, "aborted") /\ UNCHANGED trouble
        \/ Error("unwritable") /\ Move(p, "aborted")
  /\ UNCHANGED <<files, journal, services, kind, origin>>

PreflightOk(p) == Transition(p, "preflightOk", In(p, "PreflightOk"), todo[p], "stop", "dead")

\* quiesce: stop_component for each running component; an MCP server that does
\* not stop is ignored, a daemon or broker that takes too long ends the run
\* (and may stop after all).
Stop(p) ==
  /\ pc[p] = "stop" /\ todo[p] # <<>>
  /\ \/ up' = up \ {Head(todo[p])} /\ Move(p, "stopped") /\ UNCHANGED trouble
     \/ /\ Error("stopFails")
        /\ Move(p, IF Head(todo[p]) = "mcp" THEN "stopped" ELSE "dead")
        /\ up' \in {up, up \ {Head(todo[p])}}
  /\ UNCHANGED <<files, failed, journal, kind, origin>>

Stopped(p) == Transition(p, "stopped", In(p, "Quiesced"), Tail(todo[p]), "stop", "dead")

\* Mutant: the loop over the plan is entered without a binary.
QuiescedSwaps(p) ==
  /\ todo[p] = <<>>
  /\ Transition(p, "stop", In(p, "Quiesced"), <<>>, "swap", "dead")

Quiesced(p) ==
  /\ todo[p] = <<>>
  /\ Transition(p, "stop", In(p, "Quiesced"), <<>>, "swapping", "dead")

\* apply_all.  An error that its `?` passes on without rollback_all is taken by
\* run_apply for an update that was rolled back ("restartOld").
Swapping(p) ==
  Transition(p, "swapping", In(p, "Swapping"), mem[p].plan, "backup", "restartOld")

Adds(p, t) == [mem[p] EXCEPT !.added = @ \cup {t}]

\* Mutant: the old image is not renamed aside.
BackupSkipped(p) ==
  /\ pc[p] = "backup" /\ todo[p] # <<>>
  /\ Become(p, "swap", IF image[Head(todo[p])] = 0 THEN Adds(p, Head(todo[p])) ELSE mem[p],
            todo[p])
  /\ UNCHANGED <<files, journal, services, kind, trouble, origin>>

\* backup_and_swap, first half: an image that is there is renamed aside, unless
\* a .bak exists already; one that is not will be recorded as added.
Backup(p) ==
  /\ pc[p] = "backup" /\ todo[p] # <<>>
  /\ LET t == Head(todo[p])
     IN \/ /\ staged[Stem[t]] # 0
           /\ IF image[t] # 0 /\ bak[t] = 0
              THEN bak' = [bak EXCEPT ![t] = image[t]] /\ image' = [image EXCEPT ![t] = 0]
              ELSE UNCHANGED <<image, bak>>
           /\ Become(p, "swap", IF image[t] = 0 THEN Adds(p, t) ELSE mem[p], todo[p])
           /\ UNCHANGED trouble
        \/ /\ (staged[Stem[t]] = 0 /\ UNCHANGED trouble) \/ Error("swapFails")
           /\ Move(p, "rollingBack")
           /\ UNCHANGED <<image, bak>>
  /\ UNCHANGED <<staged, journal, services, kind, origin>>

\* backup_and_swap, second half: the staged file is moved into place.  A failed
\* swap records nothing.
Swap(p) ==
  /\ pc[p] = "swap"
  /\ LET t == Head(todo[p])
     IN \/ /\ staged[Stem[t]] # 0
           /\ image' = [image EXCEPT ![t] = staged[Stem[t]]]
           /\ staged' = [staged EXCEPT ![Stem[t]] = 0]
           /\ Move(p, "record") /\ UNCHANGED trouble
        \/ /\ (staged[Stem[t]] = 0 /\ UNCHANGED trouble) \/ Error("swapFails")
           /\ Become(p, "rollingBack", [mem[p] EXCEPT !.added = @ \ {t}], todo[p])
           /\ UNCHANGED <<image, staged>>
  /\ UNCHANGED <<bak, journal, services, kind, origin>>

\* set_binary_added, set_binary_status and save.
Record(p) == Transition(p, "record", mem[p], Tail(todo[p]), "backup", "restartOld")

Swapped(p) ==
  /\ todo[p] = <<>>
  /\ Transition(p, "backup", In(p, "Swapped"), mem[p].plan, "smoke", "restartOld")

Smoke(p) ==
  /\ pc[p] = "smoke" /\ todo[p] # <<>>
  /\ \/ Advance(p, "smoke") /\ UNCHANGED trouble
     \/ Error("smokeFails") /\ Move(p, "rollingBack")
  /\ UNCHANGED <<files, journal, services, kind, origin>>

\* Journal::commit sets the flag and saves: the point of no return.
Commit(p) ==
  /\ todo[p] = <<>>
  /\ Transition(p, "smoke", [In(p, "SmokeOk") EXCEPT !.committed = TRUE], StartOrder,
                "restartNew", "restartOld")

-----------------------------------------------------------------------------
(* rollback_all, restore and the ends of apply and recover.                *)

UndoError(p) == IF kind[p] = "apply" THEN "restartOld" ELSE Leave(p)

RollingBack(p) ==
  Transition(p, "rollingBack", In(p, "RollingBack"), mem[p].plan, "undo", UndoError(p))

\* Mutant: restore clears the image without having seen a .bak.
UndoWithoutBackup(p) ==
  /\ pc[p] = "undo" /\ todo[p] # <<>>
  /\ Move(p, "clear")
  /\ UNCHANGED <<files, journal, services, kind, trouble, origin>>

\* An added binary is removed; a replaced one that has a .bak is restored in
\* two steps; one without is left alone.
Undo(p) ==
  /\ pc[p] = "undo" /\ todo[p] # <<>>
  /\ LET t == Head(todo[p])
     IN \/ /\ t \in mem[p].added
           /\ image' = [image EXCEPT ![t] = 0]
           /\ Advance(p, "undo") /\ UNCHANGED trouble
        \/ /\ t \notin mem[p].added /\ bak[t] = 0
           /\ Advance(p, "undo") /\ UNCHANGED <<image, trouble>>
        \/ /\ t \notin mem[p].added /\ bak[t] # 0
           /\ Move(p, "clear") /\ UNCHANGED <<image, trouble>>
        \/ /\ Error("undoFails")
           /\ Become(p, UndoError(p), mem[p], StartOrder) /\ UNCHANGED image
  /\ UNCHANGED <<bak, staged, journal, services, kind, origin>>

\* apply::restore, once it has seen the .bak: clear the half-swapped image ...
Clear(p) ==
  /\ pc[p] = "clear"
  /\ image' = [image EXCEPT ![Head(todo[p])] = 0]
  /\ Move(p, "rename")
  /\ UNCHANGED <<bak, staged, journal, services, kind, trouble, origin>>

\* ... and rename the .bak back, which fails when it is gone.
Rename(p) ==
  /\ pc[p] = "rename"
  /\ LET t == Head(todo[p])
     IN \/ /\ bak[t] # 0
           /\ image' = [image EXCEPT ![t] = bak[t]]
           /\ bak' = [bak EXCEPT ![t] = 0]
           /\ Advance(p, "undo") /\ UNCHANGED trouble
        \/ /\ (bak[t] = 0 /\ UNCHANGED trouble) \/ Error("undoFails")
           /\ Become(p, UndoError(p), mem[p], StartOrder)
           /\ UNCHANGED <<image, bak>>
  /\ UNCHANGED <<staged, journal, services, kind, origin>>

RolledBack(p) ==
  /\ todo[p] = <<>>
  /\ Transition(p, "undo", In(p, "RolledBack"), StartOrder, "restartOld", UndoError(p))

\* restore::restore: providers before consumers, each one only if the snapshot
\* has it running; the MCP server is left to its host.
Restart(p) ==
  /\ pc[p] \in {"restartOld", "restartNew"} /\ todo[p] # <<>>
  /\ LET c == Head(todo[p])
     IN \/ /\ c \in mem[p].running \ {"mcp"}
           /\ up' = up \cup {c} /\ failed' = failed \ {c} /\ UNCHANGED trouble
        \/ /\ c \in mem[p].running \ (up \cup {"mcp"}) /\ Error("startFails")
           /\ failed' = failed \cup {c} /\ UNCHANGED up
        \/ /\ c \notin mem[p].running \ {"mcp"}
           /\ UNCHANGED <<services, trouble>>
  /\ Advance(p, pc[p])
  /\ UNCHANGED <<files, journal, kind, origin>>

Restored(p) ==
  /\ todo[p] = <<>>
  /\ Transition(p, "restartNew", In(p, "Restored"), mem[p].plan, "prune", Leave(p))

Prune(p) ==
  /\ pc[p] = "prune" /\ todo[p] # <<>>
  /\ \/ bak' = [bak EXCEPT ![Head(todo[p])] = 0] /\ UNCHANGED trouble
     \/ bak[Head(todo[p])] # 0 /\ Error("pruneFails") /\ UNCHANGED bak
  /\ Advance(p, "prune")
  /\ UNCHANGED <<image, staged, journal, services, kind, origin>>

Done(p) ==
  /\ todo[p] = <<>>
  /\ Transition(p, "prune", In(p, "Done"), <<>>, "archive", Leave(p))

\* The end of a rollback, and of a preflight that failed.
Aborted(p) ==
  \/ todo[p] = <<>> /\ Transition(p, "restartOld", In(p, "Aborted"), <<>>, "archive", Leave(p))
  \/ Transition(p, "aborted", In(p, "Aborted"), <<>>, "archive", "dead")

\* Journal::archive renames the live journal away, whoever wrote it.
Archive(p) ==
  /\ pc[p] = "archive"
  /\ journal' = NoJournal
  /\ Move(p, Leave(p))
  /\ UNCHANGED <<files, services, kind, trouble, origin>>

-----------------------------------------------------------------------------
(* uffs-update recover and doctor --repair.                                *)

\* recover: nothing to do without a live journal, with a terminal one or while
\* the owner lives; else it loads the journal and goes on at l.  Called by a
\* spawned `recover` and by the doctor.
RecoverAt(p, k, l, work) ==
  /\ MayStart(p) /\ NeedsRecovery
  /\ k = "doctor" => "doctor" \in Faults
  /\ kind' = [kind EXCEPT ![p] = k]
  /\ Become(p, l, journal, work)
  /\ UNCHANGED <<files, journal, services, trouble, origin>>

\* Mutants: recovery rolls back whatever it finds; restarts the services before
\* the binaries are restored; prunes without restarting them; leaves a committed
\* run alone.
RecoverBack(p, k) == RecoverAt(p, k, "rollingBack", StartOrder)
RecoverServicesFirst(p, k) ==
  RecoverAt(p, k, IF journal.committed THEN "restartNew" ELSE "restartOld", StartOrder)
RecoverPrunes(p, k) ==
  IF journal.committed THEN RecoverAt(p, k, "prune", journal.plan)
  ELSE RecoverAt(p, k, "rollingBack", StartOrder)
RecoverOnlyBack(p, k) == ~journal.committed /\ RecoverAt(p, k, "rollingBack", StartOrder)

\* Forward past the commit point (roll_forward), back before it (roll_back).
Recover(p, k) ==
  RecoverAt(p, k, IF journal.committed THEN "restartNew" ELSE "rollingBack", StartOrder)

\* The doctor finds no interrupted update and goes on.
DoctorIdle(p) ==
  /\ "doctor" \in Faults
  /\ MayStart(p) /\ ~NeedsRecovery
  /\ kind' = [kind EXCEPT ![p] = "doctor"]
  /\ Move(p, "sweep")
  /\ UNCHANGED <<files, journal, services, trouble, origin>>

\* check_stale_backups sweeps every unmanaged root.  check_services restarts what
\* died since the doctor's own snapshot: no service dies by itself here.
DoctorSweep(p) ==
  /\ pc[p] = "sweep"
  /\ bak' = Swept(Targets)
  /\ Move(p, "dead")
  /\ UNCHANGED <<image, staged, journal, services, kind, trouble, origin>>

Crash(p) ==
  /\ Alive(p)
  /\ hits < MaxTrouble /\ hits' = hits + 1
  /\ Move(p, "dead")
  /\ UNCHANGED <<files, journal, services, kind, errors, origin>>

-----------------------------------------------------------------------------
ApplyStep(p) ==
  \/ Acquired(p) \/ Preflight(p) \/ PreflightOk(p) \/ Stop(p) \/ Stopped(p) \/ Quiesced(p)
  \/ Swapping(p) \/ Backup(p) \/ Swap(p) \/ Record(p) \/ Swapped(p) \/ Smoke(p) \/ Commit(p)
UndoStep(p) == RollingBack(p) \/ Undo(p) \/ Clear(p) \/ Rename(p) \/ RolledBack(p)
FinishStep(p) ==
  Restart(p) \/ Restored(p) \/ Prune(p) \/ Done(p) \/ Aborted(p) \/ Archive(p) \/ DoctorSweep(p)
Step(p) == ApplyStep(p) \/ UndoStep(p) \/ FinishStep(p)

Next ==
  \E p \in Procs :
    \/ \E v \in 2..MaxVersion, elevated \in BOOLEAN : Apply(p, v, elevated)
    \/ \E k \in {"recover", "doctor"} : Recover(p, k)
    \/ DoctorIdle(p)
    \/ Step(p)
    \/ Crash(p)

Spec == Init /\ [][Next]_vars

\* A process that is not killed runs on, and `uffs` is invoked again as long as
\* a journal is live.
FairSpec ==
  /\ Spec
  /\ \A p \in Procs : WF_vars(Step(p))
  /\ WF_vars(\E p \in Procs : Recover(p, "recover"))

-----------------------------------------------------------------------------
(* Properties.                                                             *)

Versions == 0..MaxVersion
States == {"none", "Init", "Acquired", "PreflightOk", "Quiesced", "Swapping", "Swapped",
           "SmokeOk", "Restored", "Done", "RollingBack", "RolledBack", "Aborted"}

\* Types, and: a process inside backup_and_swap or restore has a binary at hand,
\* one of its plan.
TypeOK ==
  /\ image \in [Targets -> Versions] /\ bak \in [Targets -> Versions]
  /\ staged \in [Stems -> Versions]
  /\ journal.state \in States /\ journal.added \subseteq Targets
  /\ up \subseteq Services /\ failed \subseteq Services
  /\ hits \in 0..MaxTrouble /\ errors \subseteq Lossy
  /\ \A p \in Procs : pc[p] \in {"swap", "record", "clear", "rename"} =>
       todo[p] # <<>> /\ \E i \in 1..Len(mem[p].plan) : mem[p].plan[i] = Head(todo[p])

Replaced == {t \in Targets : origin[t] # 0}
Old(t) == image[t] = origin[t]
New(t) == image[t] = journal.to

\* apply.rs: a crash at any point "leaves either the old file, the .bak, or the
\* new file in place": no binary of the installation ever disappears together
\* with its backup, whatever else fails, unless an update was begun over an
\* interrupted one.
NoBinaryLost ==
  "applyOverPending" \notin errors => \A t \in Replaced : image[t] # 0 \/ bak[t] # 0

\* rollback_all (INV-3, "rollback is always possible"): until the commit point
\* is on disk, the image that each replaced binary had when the update began is
\* still there, in place or as its .bak, whatever crashed since.
OriginalsKept ==
  Pending /\ ~journal.committed /\ errors = {} =>
    \A t \in Replaced : origin[t] \in {image[t], bak[t]}

\* A run that ends, by itself or by recover after any number of crashes, ends
\* with all binaries or with none of them replaced: Done leaves the planned
\* ones at the new version and no .bak behind, Aborted leaves every binary
\* that was there as it was.
AllOrNothing ==
  errors = {} =>
    /\ journal.state = "Done" =>
         \A i \in 1..Len(journal.plan) : New(journal.plan[i]) /\ bak[journal.plan[i]] = 0
    /\ journal.state = "Aborted" => \A t \in Replaced : Old(t) /\ bak[t] = 0

\* run_apply: "on failure the binaries are already rolled back" when it writes
\* Aborted.
AbortedIsRolledBack == journal.state = "Aborted" => \A t \in Replaced : Old(t)

\* restore::restore never starts a service on half an update: when a service
\* comes up, the replaced binaries are all old or the planned ones all new.
NoServiceOnMixedBinaries ==
  [][up' \ up # {} /\ errors = {} =>
       \/ \A t \in Replaced : Old(t)
       \/ \A i \in 1..Len(journal.plan) : New(journal.plan[i])]_vars

\* INV-1: once no update is under way or interrupted, every service that was
\* running when the update began runs again, unless its restart was reported
\* as failed, also after I/O errors.
NoServiceLeftDown ==
  ~Pending /\ (\A p \in Procs : ~Alive(p)) /\ "applyOverPending" \notin errors =>
    Services \ {"mcp"} \subseteq up \cup failed

\* quiesce and drop_broker: a binary is replaced only while the service that
\* runs it is down, so that its file is not locked.
SwapsOnlyStopped ==
  \A p \in Procs : pc[p] = "swap" =>
    CASE Stem[Head(todo[p])] = "uffsd" -> "daemon" \notin up
      [] Stem[Head(todo[p])] = "uffs-broker" -> "broker" \notin up
      [] OTHER -> TRUE

\* Phase H: an interrupted update is finished by the recoveries that later
\* `uffs` invocations spawn, although they may be killed as well.
InterruptedIsFinished == Pending ~> ~Pending

=============================================================================
