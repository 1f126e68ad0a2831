----------------------------- MODULE ShardTiers -----------------------------
(***************************************************************************)
(* The memory tiering of the UFFS daemon: the shard registry behind its    *)
(* RwLock and every task that rebuilds it.  Each orchestration of the code *)
(* reads the registry under the read lock, decides, releases the lock and  *)
(* rebuilds the registry under the write lock; here the two halves are two *)
(* actions, so that any other task may run in between.                     *)
(*                                                                         *)
(* Time is relative: Tick ages every idle clock by one and shortens every  *)
(* pin by one, so runs of any length have finitely many states.            *)
(* bump_index_version and the working-set trim that end each rebuild touch *)
(* none of this module's state; module AggregateCache models the version.  *)
(***************************************************************************)
EXTENDS Naturals

CONSTANTS
  Drives,      \* drive letters
  Clients,     \* concurrent search dispatches
  Operators,   \* concurrent preload requests
  Thresholds,  \* TierThresholds the adaptive TTL formulas may yield, in ticks
  MinTier,     \* per-drive min_tier of daemon.toml, "none" when unset
  PinWindows,  \* pin lengths preload may ask for, in ticks
  MaxIdle,     \* idle clocks saturate here (bound)
  MaxPin,      \* longest pin window (bound)
  Actors       \* the tasks and RPCs that run in this instance

Tiers == {"Cold", "Parked", "Warm", "Hot"}
Resident == {"Warm", "Hot"}
Demotable == {"Parked", "Warm", "Hot"}
AllActors == {"idle", "pressure", "query", "preload", "hibernate", "forget",
              "journal", "reload", "cancel"}
Waiters == Clients \cup Operators

ASSUME DomainAssumption ==
  /\ Clients \cap Operators = {}
  /\ "none" \notin Drives
  /\ Actors \subseteq AllActors
ASSUME BoundAssumption == MaxIdle \in Nat /\ MaxPin \in Nat
ASSUME ThresholdAssumption == Thresholds \subseteq [Demotable -> 0..MaxIdle]
ASSUME FloorAssumption == MinTier \in [Drives -> Tiers \cup {"none"}]
ASSUME PinAssumption == PinWindows \subseteq 0..MaxPin

VARIABLES
  tier,      \* registry: tier of each drive, "Absent" when not registered
  pin,       \* registry: ticks until pin_until_ms, 0 when not pinned
  idle,      \* DriveStats: ticks since last_query_at_ms
  plan,      \* idle controller: target per drive collected under the read lock
  level,     \* pressure watch channel: its value ...
  changed,   \* ... and whether the subscriber has yet to see it
  cascade,   \* pressure subscriber: control state
  pick,      \* pressure subscriber: drive picked under the read lock
  slot,      \* in_flight_promotes: state of the shared load per letter
  loads,     \* BodyLoader::load calls running per letter
  query,     \* search dispatches: control state
  wait,      \* awaiters of the shared loads, per waiter and letter
  preload,   \* preload requests: control state, drive, pin left, Arc is live
  hibernate, \* hibernate: drives collected under the read lock
  forget,    \* forget: force flag, drives to demote, drives to evict
  patching,  \* journal applier: drive whose body is being patched off-lock
  reloading  \* refresh / hot load: drives being re-read off-lock

registry == <<tier, pin, idle>>
pressure == <<level, changed, cascade, pick>>
promotes == <<slot, loads, query, wait>>
vars == <<tier, pin, idle, plan, level, changed, cascade, pick, slot, loads,
          query, wait, preload, hibernate, forget, patching, reloading>>

Everywhere(t) == [d \in Drives |-> t]
NoPlan == Everywhere("none")
Idle == [pc |-> "idle", drive |-> "none", left |-> 0, live |-> FALSE]
NoForget == [force |-> FALSE, demote |-> {}, evict |-> {}]

-----------------------------------------------------------------------------
(* Registry primitives.                                                    *)

\* from_shards: the drives a search snapshot carries.
Active == {d \in Drives : tier[d] \in Resident}

\* Mutant: every registered tier may be demoted to Parked or Cold.
LegalFromAnyTier(from, target) ==
  from \in Tiers /\ target \in {"Parked", "Cold"}

IsLegalDemoteTarget(from, target) ==
  \/ from \in Resident /\ target \in {"Parked", "Cold"}
  \/ from = "Parked" /\ target = "Cold"

TierRank == [Hot |-> 4, Warm |-> 3, Parked |-> 2, Cold |-> 1,
             none |-> 0, Absent |-> 0]

\* Replace the entries of the drives in S by fresh Arcs of tier to[d], pinned
\* for ticks.
Rebuild(S, to, ticks) ==
  /\ tier' = [d \in Drives |-> IF d \in S THEN to[d] ELSE tier[d]]
  /\ pin' = [d \in Drives |-> IF d \in S THEN ticks ELSE pin[d]]

\* The preload requests once the entries of S are replaced: an Arc cloned from
\* one of them is no longer the registry's.
DropArcs(S) ==
  [o \in Operators |->
    [preload[o] EXCEPT !.live = @ /\ preload[o].drive \notin S]]

\* demote_letter_with_reason for every drive of a batch: an illegal edge is
\* skipped, a legal one builds a Parked or Cold entry, unpinned, same stats.
DemoteLetters(to) ==
  LET S == {d \in Drives : IsLegalDemoteTarget(tier[d], to[d])}
  IN Rebuild(S, to, 0) /\ preload' = DropArcs(S)

\* mark_loaded_at / mark_query_at on the stats of the drives in S.
Stamp(S) == idle' = [d \in Drives |-> IF d \in S THEN 0 ELSE idle[d]]

-----------------------------------------------------------------------------
Init ==
  /\ tier \in [Drives -> {"Warm", "Absent"}]
  /\ pin = [d \in Drives |-> 0]
  /\ idle = [d \in Drives |-> 0]
  /\ plan = NoPlan
  /\ level = "Normal" /\ changed = FALSE
  /\ cascade = "wait" /\ pick = "none"
  /\ slot = [d \in Drives |-> "vacant"]
  /\ loads = [d \in Drives |-> 0]
  /\ query = [c \in Clients |-> "idle"]
  /\ wait = [w \in Waiters |-> [d \in Drives |-> "none"]]
  /\ preload = [o \in Operators |-> Idle]
  /\ hibernate = {}
  /\ forget = NoForget
  /\ patching = "none"
  /\ reloading = {}

Less1(n) == IF n = 0 THEN 0 ELSE n - 1

\* One unit of wall-clock time: the idle clocks age, the pins (and the pin
\* deadlines a preload has computed but not yet stored) come closer.
Tick ==
  /\ idle' = [d \in Drives |-> IF idle[d] < MaxIdle THEN idle[d] + 1 ELSE MaxIdle]
  /\ pin' = [d \in Drives |-> Less1(pin[d])]
  /\ preload' = [o \in Operators |-> [preload[o] EXCEPT !.left = Less1(@)]]
  /\ UNCHANGED <<tier, plan, pressure, promotes, hibernate, forget, patching,
                 reloading>>

-----------------------------------------------------------------------------
(* Idle-demote controller: demote_idle_shards.                             *)

\* Mutant: a Parked shard past its TTL is evicted instead of going Cold.
IdleParkedEvicts(t, age, th) ==
  LET below == [Hot |-> "Warm", Warm |-> "Parked", Parked |-> "Absent"]
  IN IF t \in Demotable /\ age >= th[t] THEN below[t] ELSE "none"

NextStateForIdle(t, age, th) ==
  LET below == [Hot |-> "Warm", Warm |-> "Parked", Parked |-> "Cold"]
  IN IF t \in Demotable /\ age >= th[t] THEN below[t] ELSE "none"

\* Mutant: the floor is compared with the current tier, not with the target.
FloorOnCurrentTier(d, th) ==
  IF TierRank[tier[d]] < TierRank[MinTier[d]] THEN "none"
  ELSE NextStateForIdle(tier[d], idle[d], th)

\* The target for one shard, suppressed when it is under the drive's floor.
EvaluateIdleDemote(d, th) ==
  LET target == NextStateForIdle(tier[d], idle[d], th)
  IN IF TierRank[target] < TierRank[MinTier[d]] THEN "none" ELSE target

IdleDetect ==
  /\ "idle" \in Actors
  /\ plan = NoPlan
  /\ \E th \in [Drives -> Thresholds] :
       plan' = [d \in Drives |->
                 IF pin[d] > 0 THEN "none" ELSE EvaluateIdleDemote(d, th[d])]
  /\ plan' # NoPlan
  /\ UNCHANGED <<registry, pressure, promotes, preload, hibernate, forget,
                 patching, reloading>>

IdleApply ==
  /\ plan # NoPlan
  /\ DemoteLetters(plan)
  /\ plan' = NoPlan
  /\ UNCHANGED <<idle, pressure, promotes, hibernate, forget, patching, reloading>>

-----------------------------------------------------------------------------
(* Memory pressure: the kernel watcher thread, the watch channel and       *)
(* spawn_pressure_subscriber with cascade_demote_one_step.                 *)

\* The watcher waits for Low or High from Normal, then for the other one.
PressureSignal ==
  /\ "pressure" \in Actors
  /\ \E l \in {"Low", "High"} \ {level} : level' = l
  /\ changed' = TRUE
  /\ UNCHANGED <<registry, plan, cascade, pick, promotes, preload, hibernate,
                 forget, patching, reloading>>

\* rx.changed() wakes the subscriber, or has_changed() preempts a cascade.
PressureObserve ==
  /\ cascade \in {"wait", "check"}
  /\ changed
  /\ changed' = FALSE
  /\ cascade' = IF level = "Low" THEN "pick" ELSE "wait"
  /\ UNCHANGED <<registry, plan, level, pick, promotes, preload, hibernate,
                 forget, patching, reloading>>

CascadeContinue ==
  /\ cascade = "check"
  /\ ~changed
  /\ cascade' = "pick"
  /\ UNCHANGED <<registry, plan, level, changed, pick, promotes, preload,
                 hibernate, forget, patching, reloading>>

CascadeCandidates == {d \in Drives : tier[d] = "Warm" /\ pin[d] = 0}

\* Mutant: an empty pick polls again instead of ending the cascade.
CascadePickPolls ==
  /\ cascade = "pick"
  /\ \/ /\ CascadeCandidates = {}
        /\ cascade' = "check"
        /\ UNCHANGED pick
     \/ /\ pick' \in CascadeCandidates
        /\ cascade' = "demote"
  /\ UNCHANGED <<registry, plan, level, changed, promotes, preload, hibernate,
                 forget, patching, reloading>>

\* Read-lock LRU pick; None ends the cascade.
CascadePick ==
  /\ cascade = "pick"
  /\ \/ /\ CascadeCandidates = {}
        /\ cascade' = "wait"
        /\ UNCHANGED pick
     \/ /\ \E d \in CascadeCandidates :
             /\ \A e \in CascadeCandidates : idle[d] >= idle[e]
             /\ pick' = d
        /\ cascade' = "demote"
  /\ UNCHANGED <<registry, plan, level, changed, promotes, preload, hibernate,
                 forget, patching, reloading>>

\* Write-lock demote of the picked drive; the `?` on an illegal edge also
\* returns None, which ends the cascade.
CascadeDemote ==
  /\ cascade = "demote"
  /\ DemoteLetters([NoPlan EXCEPT ![pick] = "Parked"])
  /\ cascade' = IF IsLegalDemoteTarget(tier[pick], "Parked") THEN "check" ELSE "wait"
  /\ pick' = "none"
  /\ UNCHANGED <<idle, plan, level, changed, promotes, hibernate, forget,
                 patching, reloading>>

-----------------------------------------------------------------------------
(* Single-flight body loads: load_or_join_in_flight.                       *)

\* Mutant: a caller that finds a resolved slot waits for a wake-up.
JoinResolvedWaits(w, d) ==
  /\ wait[w][d] = "join"
  /\ wait' = [wait EXCEPT ![w][d] = "await"]
  /\ IF slot[d] = "vacant"
     THEN /\ slot' = [slot EXCEPT ![d] = "loading"]
          /\ loads' = [loads EXCEPT ![d] = @ + 1]
     ELSE UNCHANGED <<slot, loads>>
  /\ UNCHANGED <<registry, plan, pressure, query, preload, hibernate, forget,
                 patching, reloading>>

\* Find the slot and clone its Shared future, or install a new load.
JoinInFlight(w, d) ==
  /\ wait[w][d] = "join"
  /\ IF slot[d] = "vacant"
     THEN /\ slot' = [slot EXCEPT ![d] = "loading"]
          /\ loads' = [loads EXCEPT ![d] = @ + 1]
          /\ wait' = [wait EXCEPT ![w][d] = "await"]
     ELSE /\ wait' = [wait EXCEPT ![w][d] =
                        IF slot[d] = "loading" THEN "await" ELSE slot[d]]
          /\ UNCHANGED <<slot, loads>>
  /\ UNCHANGED <<registry, plan, pressure, query, preload, hibernate, forget,
                 patching, reloading>>

\* BodyLoader::load returns a body ("got") or None ("miss"): the Shared
\* resolves for every awaiter.
LoadResolve(d) ==
  /\ loads[d] > 0
  /\ loads' = [loads EXCEPT ![d] = @ - 1]
  /\ \E outcome \in {"got", "miss"} :
       /\ slot' = [slot EXCEPT ![d] = outcome]
       /\ wait' = [w \in Waiters |->
            [wait[w] EXCEPT ![d] = IF @ = "await" THEN outcome ELSE @]]
  /\ UNCHANGED <<registry, plan, pressure, query, preload, hibernate, forget,
                 patching, reloading>>

\* Mutant: the slot is removed by an awaiter of the load, not by a task.
SlotCleanupByAwaiter(d) ==
  /\ slot[d] \in {"got", "miss"}
  /\ \E w \in Waiters : wait[w][d] \in {"got", "miss"}
  /\ slot' = [slot EXCEPT ![d] = "vacant"]
  /\ UNCHANGED <<registry, plan, pressure, loads, query, wait, preload,
                 hibernate, forget, patching, reloading>>

\* The cleanup task, which no awaiter's cancellation can stop.
SlotCleanup(d) ==
  /\ slot[d] \in {"got", "miss"}
  /\ slot' = [slot EXCEPT ![d] = "vacant"]
  /\ UNCHANGED <<registry, plan, pressure, loads, query, wait, preload,
                 hibernate, forget, patching, reloading>>

-----------------------------------------------------------------------------
(* Search dispatch: ensure_warm_for_dispatch, snapshot, then               *)
(* record_search_dispatch.                                                 *)

\* promote_plan: every Cold drive in the filter, and the Parked drives the
\* bloom pre-check does not rule out.
EnsureWarmPlan(c) ==
  /\ "query" \in Actors
  /\ query[c] = "idle"
  /\ query' = [query EXCEPT ![c] = "ensure"]
  /\ \E filter \in (SUBSET Drives) \ {{}} :
     \E bloomHits \in SUBSET {d \in filter : tier[d] = "Parked"} :
       wait' = [wait EXCEPT ![c] = [d \in Drives |->
         IF d \in bloomHits \/ (d \in filter /\ tier[d] = "Cold")
         THEN "join" ELSE "none"]]
  /\ UNCHANGED <<registry, plan, pressure, slot, loads, preload, hibernate,
                 forget, patching, reloading>>

\* Mutant: the loaded body is installed whatever the drive's tier is by now.
EnsureWarmSwapAlways(c, d) ==
  /\ query[c] = "ensure"
  /\ wait[c][d] = "got"
  /\ wait' = [wait EXCEPT ![c][d] = "done"]
  /\ Rebuild({d}, Everywhere("Warm"), 0)
  /\ preload' = DropArcs({d})
  /\ Stamp({d})
  /\ UNCHANGED <<plan, pressure, slot, loads, query, hibernate, forget,
                 patching, reloading>>

\* Drain one loaded body: promote_letter and mark_loaded_at, or drop the body
\* when the drive is no longer Parked or Cold.
EnsureWarmSwap(c, d) ==
  LET S == {d} \cap {e \in Drives : tier[e] \in {"Parked", "Cold"}}
  IN /\ query[c] = "ensure"
     /\ wait[c][d] = "got"
     /\ wait' = [wait EXCEPT ![c][d] = "done"]
     /\ Rebuild(S, Everywhere("Warm"), 0)
     /\ preload' = DropArcs(S)
     /\ Stamp(S)
     /\ UNCHANGED <<plan, pressure, slot, loads, query, hibernate, forget,
                    patching, reloading>>

\* snapshot(): the search runs over Active from here on.
SearchSnapshot(c) ==
  /\ query[c] = "ensure"
  /\ \A d \in Drives : wait[c][d] \in {"none", "done", "miss"}
  /\ query' = [query EXCEPT ![c] = "search"]
  /\ UNCHANGED <<registry, plan, pressure, slot, loads, wait, preload,
                 hibernate, forget, patching, reloading>>

RecordSearchDispatch(c) ==
  /\ query[c] = "search"
  /\ Stamp(Active)
  /\ query' = [query EXCEPT ![c] = "idle"]
  /\ wait' = [wait EXCEPT ![c] = NoPlan]
  /\ UNCHANGED <<tier, pin, plan, pressure, slot, loads, preload, hibernate,
                 forget, patching, reloading>>

\* Mutant: a dropped search takes the slots it waits on with it.
SearchDroppedFreesSlots(c) ==
  /\ "cancel" \in Actors
  /\ query[c] = "ensure"
  /\ query' = [query EXCEPT ![c] = "idle"]
  /\ wait' = [wait EXCEPT ![c] = NoPlan]
  /\ slot' = [d \in Drives |-> IF wait[c][d] = "await" THEN "vacant" ELSE slot[d]]
  /\ UNCHANGED <<registry, plan, pressure, loads, preload, hibernate, forget,
                 patching, reloading>>

\* The search's outer task is dropped while it awaits a load: the case the
\* cleanup task is written for.
SearchDropped(c) ==
  /\ "cancel" \in Actors
  /\ query[c] = "ensure"
  /\ query' = [query EXCEPT ![c] = "idle"]
  /\ wait' = [wait EXCEPT ![c] = NoPlan]
  /\ UNCHANGED <<registry, plan, pressure, slot, loads, preload, hibernate,
                 forget, patching, reloading>>

-----------------------------------------------------------------------------
(* Operator RPCs: preload, hibernate, forget.                              *)

\* Read-lock snapshot of state and Arc; an unregistered drive is refused.
PreloadDetect(o, d) ==
  /\ "preload" \in Actors
  /\ preload[o].pc = "idle"
  /\ tier[d] \in Tiers
  /\ preload' = [preload EXCEPT ![o] =
       [pc |-> IF tier[d] = "Hot" THEN "extend"
               ELSE IF tier[d] = "Warm" THEN "arm" ELSE "load",
        drive |-> d, left |-> 0, live |-> TRUE]]
  /\ wait' = [wait EXCEPT ![o][d] =
       IF tier[d] \in {"Cold", "Parked"} THEN "join" ELSE "none"]
  /\ UNCHANGED <<registry, plan, pressure, slot, loads, query, hibernate, forget,
                 patching, reloading>>

\* Mutant: the pin is stored on whatever entry the letter has by now.
PreloadExtendByLetter(o) ==
  /\ preload[o].pc = "extend"
  /\ \E w \in PinWindows : pin' = [pin EXCEPT ![preload[o].drive] = w]
  /\ preload' = [preload EXCEPT ![o] = Idle]
  /\ UNCHANGED <<tier, idle, plan, pressure, promotes, hibernate, forget,
                 patching, reloading>>

\* Already Hot: store the pin on the Arc of the snapshot, which reaches the
\* registry only if that Arc is still the registry's.
PreloadExtend(o) ==
  /\ preload[o].pc = "extend"
  /\ \E w \in PinWindows :
       pin' = [d \in Drives |->
                IF d = preload[o].drive /\ preload[o].live THEN w ELSE pin[d]]
  /\ preload' = [preload EXCEPT ![o] = Idle]
  /\ UNCHANGED <<tier, idle, plan, pressure, promotes, hibernate, forget,
                 patching, reloading>>

\* compute_pin_until, before the write lock is requested.
PreloadArm(o) ==
  /\ \/ preload[o].pc = "arm"
     \/ preload[o].pc = "load" /\ wait[o][preload[o].drive] = "got"
  /\ \E w \in PinWindows :
       preload' = [preload EXCEPT ![o].pc = "swap", ![o].left = w]
  /\ wait' = [wait EXCEPT ![o] = NoPlan]
  /\ UNCHANGED <<registry, plan, pressure, slot, loads, query, hibernate, forget,
                 patching, reloading>>

PreloadLoadFailed(o) ==
  /\ preload[o].pc = "load"
  /\ wait[o][preload[o].drive] = "miss"
  /\ preload' = [preload EXCEPT ![o] = Idle]
  /\ wait' = [wait EXCEPT ![o] = NoPlan]
  /\ UNCHANGED <<registry, plan, pressure, slot, loads, query, hibernate, forget,
                 patching, reloading>>

\* swap_in_hot_with_pin: promote_letter_to_hot, idle clock and pin; Busy when
\* the drive is Hot already or gone.
PreloadSwap(o) ==
  LET S == {d \in {preload[o].drive} : tier[d] \in {"Cold", "Parked", "Warm"}}
  IN /\ preload[o].pc = "swap"
     /\ Rebuild(S, Everywhere("Hot"), preload[o].left)
     /\ Stamp(S)
     /\ preload' = [DropArcs(S) EXCEPT ![o] = Idle]
     /\ UNCHANGED <<plan, pressure, promotes, hibernate, forget, patching,
                    reloading>>

HibernateDetect(S) ==
  /\ "hibernate" \in Actors
  /\ hibernate = {}
  /\ hibernate' = {d \in S : tier[d] \in Demotable}
  /\ hibernate' # {}
  /\ UNCHANGED <<registry, plan, pressure, promotes, preload, forget, patching,
                 reloading>>

HibernateApply ==
  /\ hibernate # {}
  /\ DemoteLetters([d \in Drives |-> IF d \in hibernate THEN "Cold" ELSE "none"])
  /\ hibernate' = {}
  /\ UNCHANGED <<idle, plan, pressure, promotes, forget, patching, reloading>>

\* Read-lock detect: without force a drive that is not Cold refuses it all.
ForgetDetect(S, force) ==
  /\ "forget" \in Actors
  /\ forget.evict = {}
  /\ S # {}
  /\ force \/ \A d \in S : tier[d] \in {"Cold", "Absent"}
  /\ forget' = [force |-> force,
                demote |-> {d \in S : tier[d] \in Demotable},
                evict |-> S]
  /\ UNCHANGED <<registry, plan, pressure, promotes, preload, hibernate,
                 patching, reloading>>

\* auto_hibernate_for_forget, one write lock per drive.
ForgetDemote(d) ==
  /\ d \in forget.demote
  /\ DemoteLetters([NoPlan EXCEPT ![d] = "Cold"])
  /\ forget' = [forget EXCEPT !.demote = @ \ {d}]
  /\ UNCHANGED <<idle, plan, pressure, promotes, hibernate, patching, reloading>>

\* forget_one: remove the entry, whatever tier it has by now.
ForgetEvict(d) ==
  /\ forget.demote = {}
  /\ d \in forget.evict
  /\ Rebuild({d}, Everywhere("Absent"), 0)
  /\ preload' = DropArcs({d})
  /\ forget' = IF forget.evict = {d} THEN NoForget
               ELSE [forget EXCEPT !.evict = @ \ {d}]
  /\ UNCHANGED <<idle, plan, pressure, promotes, hibernate, patching, reloading>>

-----------------------------------------------------------------------------
(* Body replacement: the journal applier and refresh / hot load.           *)

\* apply_to_body clones the live shard and patches a copy off-lock; a drive
\* without a body fails at once.
JournalSnapshot(d) ==
  /\ "journal" \in Actors
  /\ patching = "none"
  /\ d \in Active
  /\ patching' = d
  /\ UNCHANGED <<registry, plan, pressure, promotes, preload, hibernate, forget,
                 reloading>>

\* Mutant: the patched entry starts with a fresh idle clock.
JournalSwapStamps ==
  LET S == {patching} \cap Active
  IN /\ patching # "none"
     /\ Rebuild(S, Everywhere("Warm"), 0)
     /\ Stamp(S)
     /\ preload' = DropArcs(S)
     /\ patching' = "none"
     /\ UNCHANGED <<plan, pressure, promotes, hibernate, forget, reloading>>

\* replace_warm_body: a Warm entry with the patched body and the old stats;
\* the patch is dropped when the drive lost its body meanwhile.
JournalSwap ==
  LET S == {patching} \cap Active
  IN /\ patching # "none"
     /\ Rebuild(S, Everywhere("Warm"), 0)
     /\ preload' = DropArcs(S)
     /\ patching' = "none"
     /\ UNCHANGED <<idle, plan, pressure, promotes, hibernate, forget, reloading>>

\* refresh_one_drive finds its source among the active drives; hot_load_drive
\* takes any letter.  The read itself runs off-lock.
ReloadStart(d) ==
  /\ "reload" \in Actors
  /\ d \notin reloading
  /\ reloading' = reloading \cup {d}
  /\ UNCHANGED <<registry, plan, pressure, promotes, preload, hibernate, forget,
                 patching>>

\* replace_drive: a Warm entry with fresh stats, whether or not the letter is
\* still registered.
ReloadDone(d) ==
  /\ d \in reloading
  /\ Rebuild({d}, Everywhere("Warm"), 0)
  /\ Stamp({d})
  /\ preload' = DropArcs({d})
  /\ reloading' = reloading \ {d}
  /\ UNCHANGED <<plan, pressure, promotes, hibernate, forget, patching>>

ReloadFail(d) ==
  /\ d \in reloading
  /\ reloading' = reloading \ {d}
  /\ UNCHANGED <<registry, plan, pressure, promotes, preload, hibernate, forget,
                 patching>>

-----------------------------------------------------------------------------
Idler == IdleDetect \/ IdleApply
Presser == PressureObserve \/ CascadeContinue \/ CascadePick \/ CascadeDemote
Loader(d) == LoadResolve(d) \/ SlotCleanup(d)
Searcher(c) ==
  \/ SearchSnapshot(c) \/ RecordSearchDispatch(c)
  \/ \E d \in Drives : JoinInFlight(c, d) \/ EnsureWarmSwap(c, d)
Preloader(o) ==
  \/ PreloadExtend(o) \/ PreloadArm(o) \/ PreloadLoadFailed(o) \/ PreloadSwap(o)
  \/ \E d \in Drives : JoinInFlight(o, d)
Forgetter == \E d \in Drives : ForgetDemote(d) \/ ForgetEvict(d)

Next ==
  \/ Tick
  \/ Idler
  \/ PressureSignal \/ Presser
  \/ \E d \in Drives : Loader(d)
  \/ \E c \in Clients : EnsureWarmPlan(c) \/ Searcher(c) \/ SearchDropped(c)
  \/ \E o \in Operators : Preloader(o) \/ \E d \in Drives : PreloadDetect(o, d)
  \/ \E S \in SUBSET Drives : HibernateDetect(S)
  \/ HibernateApply
  \/ \E S \in SUBSET Drives, force \in BOOLEAN : ForgetDetect(S, force)
  \/ Forgetter
  \/ \E d \in Drives : JournalSnapshot(d)
  \/ JournalSwap
  \/ \E d \in Drives : ReloadStart(d) \/ ReloadDone(d) \/ ReloadFail(d)

Spec == Init /\ [][Next]_vars

\* Time passes, the controller's interval fires and every runnable Tokio task
\* is eventually polled (its locks are FIFO); a body load returns.  Nothing
\* obliges a client, an operator, the kernel or the journal to act.
Fairness ==
  /\ WF_vars(Tick)
  /\ WF_vars(Idler)
  /\ WF_vars(Presser)
  /\ \A d \in Drives : WF_vars(Loader(d))
  /\ \A c \in Clients : WF_vars(Searcher(c))
  /\ \A o \in Operators : WF_vars(Preloader(o))

FairSpec == Spec /\ Fairness

-----------------------------------------------------------------------------
(* Properties.                                                             *)

WaitStates == {"none", "join", "await", "got", "miss", "done"}
PreloadState == [pc : {"idle", "extend", "arm", "load", "swap"},
                 drive : Drives \cup {"none"}, left : 0..MaxPin, live : BOOLEAN]

\* Every variable stays in its domain.
TypeOK ==
  /\ tier \in [Drives -> Tiers \cup {"Absent"}]
  /\ pin \in [Drives -> 0..MaxPin]
  /\ idle \in [Drives -> 0..MaxIdle]
  /\ plan \in [Drives -> {"none", "Warm", "Parked", "Cold"}]
  /\ level \in {"Normal", "Low", "High"}
  /\ changed \in BOOLEAN
  /\ cascade \in {"wait", "pick", "demote", "check"}
  /\ pick \in Drives \cup {"none"}
  /\ slot \in [Drives -> {"vacant", "loading", "got", "miss"}]
  /\ loads \in [Drives -> Nat]
  /\ query \in [Clients -> {"idle", "ensure", "search"}]
  /\ wait \in [Waiters -> [Drives -> WaitStates]]
  /\ preload \in [Operators -> PreloadState]
  /\ hibernate \subseteq Drives
  /\ forget \in [force : BOOLEAN, demote : SUBSET Drives, evict : SUBSET Drives]
  /\ patching \in Drives \cup {"none"}
  /\ reloading \subseteq Drives

\* A pin is only ever carried by a Hot entry, although preload's AlreadyHot
\* path stores it without the write lock, on the Arc of an earlier snapshot
\* that a concurrent rebuild may have replaced.
PinnedOnlyHot == \A d \in Drives : pin[d] > 0 => tier[d] = "Hot"

\* At most one BodyLoader::load runs per drive, however many searches and
\* preloads want it and whichever of them are dropped while they wait, and the
\* slot map says so: a slot is unresolved exactly while its load runs.
SingleFlight ==
  \A d \in Drives :
    /\ loads[d] <= 1
    /\ loads[d] = 1 <=> slot[d] = "loading"

\* A request that is under way knows its drive, and the Arc an AlreadyHot
\* request holds is a Hot entry as long as it is the registry's: what makes
\* PinnedOnlyHot inductive.
PreloadTracksArc ==
  \A o \in Operators :
    /\ preload[o].pc # "idle" => preload[o].drive \in Drives
    /\ preload[o].pc = "extend" /\ preload[o].live => tier[preload[o].drive] = "Hot"

\* A cascade about to demote has a pick.
PickIsDrive == cascade = "demote" => pick \in Drives

\* No target of the idle controller is under its drive's floor: what makes
\* IdleRespectsFloor hold however old the plan is.
PlanAboveFloor ==
  \A d \in Drives : plan[d] # "none" => TierRank[plan[d]] >= TierRank[MinTier[d]]

\* The inductive invariant.
IInv == /\ TypeOK /\ PinnedOnlyHot /\ SingleFlight
        /\ PreloadTracksArc /\ PickIsDrive /\ PlanAboveFloor

\* The idle controller never puts a drive under its min_tier floor, although
\* the targets it applies were computed on an older registry.
IdleRespectsFloor ==
  [][IdleApply => \A d \in Drives :
       tier'[d] # tier[d] => TierRank[tier'[d]] >= TierRank[MinTier[d]]]_vars

\* No demotion driver ever raises a tier: a plan that was overtaken by a deeper
\* demotion or an eviction is skipped, never applied backwards.
StalePlansOnlyLower ==
  [][IdleApply \/ CascadeDemote \/ HibernateApply \/ Forgetter =>
       \A d \in Drives : TierRank[tier'[d]] <= TierRank[tier[d]]]_vars

\* A body load that comes back late only ever raises a drive: a search's
\* promotion never cools a drive a preload made Hot meanwhile, nor does it or
\* a second preload cut a pin short.
LateLoadsOnlyRaise ==
  [][\/ \E c \in Clients, d \in Drives : EnsureWarmSwap(c, d)
     \/ \E o \in Operators : PreloadSwap(o)
     => \A d \in Drives : /\ TierRank[tier'[d]] >= TierRank[tier[d]]
                          /\ pin'[d] >= pin[d]]_vars

\* A search's snapshot carries every drive whose body the search itself
\* obtained (ensure_warm_for_dispatch: a missed drive "is what we can't
\* afford").
SearchSeesLoadedDrives ==
  [][\A c \in Clients : SearchSnapshot(c) =>
       \A d \in Drives : wait[c][d] = "done" => d \in Active]_vars

\* A search that waits for bodies gets past the wait.
SearchProceeds == \A c \in Clients : query[c] = "ensure" ~> query[c] # "ensure"

\* A slot of the single-flight map is always freed, also when every awaiter of
\* its load was dropped, so that the next promotion loads afresh.
SlotsAreFreed == \A d \in Drives : slot[d] # "vacant" ~> slot[d] = "vacant"

\* Journal patches never keep a drive resident: a Warm drive that nobody
\* queries is parked although its body is swapped again and again.
IdleDrivePark ==
  \A d \in Drives : (tier[d] = "Warm" /\ TierRank[MinTier[d]] <= 2)
                      ~> tier[d] # "Warm"

\* A cascade gives the subscriber back to its channel.
CascadeEnds == cascade # "wait" ~> cascade = "wait"

\* The subscriber abandons a cascade under Low only when no unpinned Warm
\* drive is left (cascade_demote_one_step: "`None` when no Warm shards remain").
CascadeStopsWhenDrained ==
  [][(Presser /\ cascade' = "wait" /\ level = "Low") => CascadeCandidates = {}]_vars

\* Until its pin expires neither the idle controller nor the pressure cascade
\* demotes a pinned drive (ShardEntry::pin_until_ms).
PinBlocksDemotion ==
  [][IdleApply \/ CascadeDemote =>
       \A d \in Drives : pin[d] > 0 => tier'[d] = "Hot"]_vars

\* A journal patch leaves the pin of the drive it patches in place ("Demotion
\* is blocked until this time").
PatchKeepsPin == [][JournalSwap => \A d \in Drives : pin'[d] = pin[d]]_vars

\* A Hot drive past the longest idle threshold is demoted unless it is used
\* (spawn_idle_demote_controller: "within at most one tick").
HotDemotesWhenIdle ==
  \A d \in Drives : (tier[d] = "Hot" /\ pin[d] = 0 /\ idle[d] = MaxIdle)
                      ~> (tier[d] # "Hot" \/ idle[d] < MaxIdle)

\* No automatic demotion puts a drive under its min_tier floor (config.rs:
\* "keeps the runtime mmap resident at all times").
FloorHolds ==
  [][IdleApply \/ CascadeDemote => \A d \in Drives :
       tier'[d] # tier[d] => TierRank[tier'[d]] >= TierRank[MinTier[d]]]_vars

\* Without force only Cold drives are evicted (forget_drives: "refuses the
\* whole request when any drive is non-`Cold`").
ForgetEvictsOnlyCold ==
  [][\A d \in Drives : ForgetEvict(d) /\ ~forget.force =>
       tier[d] \in {"Cold", "Absent"}]_vars

=============================================================================
