-------------------------- MODULE ShardTiersProofs --------------------------
(***************************************************************************)
(* The safety properties of ShardTiers for any drives, clients, operators, *)
(* thresholds, floors and pin windows, from the inductive invariant IInv.  *)
(***************************************************************************)
EXTENDS ShardTiers, TLAPS

USE DomainAssumption, BoundAssumption, ThresholdAssumption, FloorAssumption,
    PinAssumption DEF Tiers, Resident, Demotable

\* The ranks of the tiers, spelled out for the provers (tier_rank).
LEMMA Ranks ==
  /\ TierRank["Hot"] = 4 /\ TierRank["Warm"] = 3 /\ TierRank["Parked"] = 2
  /\ TierRank["Cold"] = 1 /\ TierRank["none"] = 0 /\ TierRank["Absent"] = 0
BY DEF TierRank

\* What a preload request knows survives the loss of its Arc: DropArcs changes
\* nothing but the live flag, and only for requests on the replaced drives.
LEMMA DropArcsFacts ==
  ASSUME preload \in [Operators -> PreloadState], NEW S
  PROVE  /\ DropArcs(S) \in [Operators -> PreloadState]
         /\ \A o \in Operators :
              /\ DropArcs(S)[o].pc = preload[o].pc
              /\ DropArcs(S)[o].drive = preload[o].drive
              /\ DropArcs(S)[o].live => preload[o].live /\ preload[o].drive \notin S
BY DEF DropArcs, PreloadState

\* Replacing entries by unpinned ones of a proper tier keeps the registry's
\* part of the invariant (ShardRegistry's rebuild primitives).
LEMMA RebuildUnpinned ==
  ASSUME IInv, NEW S, NEW to, Rebuild(S, to, 0), preload' = DropArcs(S),
         \A d \in Drives : d \in S => to[d] \in Tiers \cup {"Absent"}
  PROVE  /\ tier' \in [Drives -> Tiers \cup {"Absent"}]
         /\ pin' \in [Drives -> 0..MaxPin]
         /\ preload' \in [Operators -> PreloadState]
         /\ PinnedOnlyHot'
         /\ PreloadTracksArc'
<1>1. preload \in [Operators -> PreloadState]
  BY DEF IInv, TypeOK
<1>2. /\ tier' \in [Drives -> Tiers \cup {"Absent"}]
      /\ pin' \in [Drives -> 0..MaxPin]
  BY DEF IInv, TypeOK, Rebuild
<1>3. preload' \in [Operators -> PreloadState]
  BY <1>1, DropArcsFacts
<1>4. PinnedOnlyHot'
  BY DEF IInv, TypeOK, PinnedOnlyHot, Rebuild
<1>5. PreloadTracksArc'
  BY <1>1, DropArcsFacts DEF IInv, PreloadTracksArc, Rebuild
<1> QED
  BY <1>2, <1>3, <1>4, <1>5

\* The same for a batch of demotions (demote_letter_with_reason).
LEMMA DemoteLettersKeeps ==
  ASSUME IInv, NEW to, DemoteLetters(to)
  PROVE  /\ tier' \in [Drives -> Tiers \cup {"Absent"}]
         /\ pin' \in [Drives -> 0..MaxPin]
         /\ preload' \in [Operators -> PreloadState]
         /\ PinnedOnlyHot'
         /\ PreloadTracksArc'
<1> DEFINE S == {d \in Drives : IsLegalDemoteTarget(tier[d], to[d])}
<1>1. Rebuild(S, to, 0) /\ preload' = DropArcs(S)
  BY DEF DemoteLetters
<1>2. \A d \in Drives : d \in S => to[d] \in Tiers \cup {"Absent"}
  BY DEF IsLegalDemoteTarget
<1> HIDE DEF S
<1> QED
  BY <1>1, <1>2, RebuildUnpinned

\* A batch of demotions changes a tier only along a legal edge to its target,
\* and such an edge leads down (is_legal_demote_target).
LEMMA DemoteLettersLowers ==
  ASSUME IInv, NEW to, DemoteLetters(to), NEW d \in Drives
  PROVE  /\ tier'[d] # tier[d] => tier'[d] = to[d] /\ to[d] \in {"Parked", "Cold"}
         /\ TierRank[tier'[d]] <= TierRank[tier[d]]
<1>1. \/ tier'[d] = tier[d]
      \/ tier'[d] = to[d] /\ IsLegalDemoteTarget(tier[d], to[d])
  BY DEF DemoteLetters, Rebuild
<1>2. tier[d] \in Tiers \cup {"Absent"}
  BY DEF IInv, TypeOK
<1> QED
  BY <1>1, <1>2, Ranks DEF IsLegalDemoteTarget

\* The initial registry satisfies the invariant.
LEMMA InitIInv == Init => IInv
<1> SUFFICES ASSUME Init PROVE IInv
  OBVIOUS
<1>1. Idle \in PreloadState /\ Idle.pc = "idle"
  BY DEF Idle, PreloadState
<1>2. preload \in [Operators -> PreloadState] /\ PreloadTracksArc
  BY <1>1 DEF Init, PreloadTracksArc
<1>3. NoForget \in [force : BOOLEAN, demote : SUBSET Drives, evict : SUBSET Drives]
  BY DEF NoForget
<1>4. TypeOK
  <2>1. /\ tier \in [Drives -> Tiers \cup {"Absent"}]
        /\ pin \in [Drives -> 0..MaxPin]
        /\ idle \in [Drives -> 0..MaxIdle]
        /\ loads \in [Drives -> Nat]
    BY DEF Init
  <2>2. /\ plan \in [Drives -> {"none", "Warm", "Parked", "Cold"}]
        /\ slot \in [Drives -> {"vacant", "loading", "got", "miss"}]
        /\ query \in [Clients -> {"idle", "ensure", "search"}]
        /\ wait \in [Waiters -> [Drives -> WaitStates]]
    BY DEF Init, NoPlan, Everywhere, WaitStates
  <2> QED
    BY <1>2, <1>3, <2>1, <2>2 DEF Init, TypeOK
<1>5. PinnedOnlyHot /\ SingleFlight /\ PickIsDrive /\ PlanAboveFloor
  BY DEF Init, PinnedOnlyHot, SingleFlight, PickIsDrive, PlanAboveFloor, NoPlan,
         Everywhere
<1> QED
  BY <1>2, <1>4, <1>5 DEF IInv

\* What a step leaves in place: the parts of the invariant that depend on
\* none of the variables the step changes.
LEMMA FrameFacts ==
  /\ IInv /\ UNCHANGED <<slot, loads>> => SingleFlight'
  /\ IInv /\ UNCHANGED <<cascade, pick>> => PickIsDrive'
  /\ IInv /\ UNCHANGED plan => PlanAboveFloor'
  /\ IInv /\ UNCHANGED <<tier, pin>> => PinnedOnlyHot'
  /\ IInv /\ UNCHANGED <<tier, preload>> => PreloadTracksArc'
BY DEF IInv, SingleFlight, PickIsDrive, PlanAboveFloor, PinnedOnlyHot,
       PreloadTracksArc

\* Every tick of the clock keeps the invariant.
LEMMA TickKeeps == IInv /\ Tick => IInv'
<1> SUFFICES ASSUME IInv, Tick PROVE IInv'
  OBVIOUS
<1>0. UNCHANGED <<tier, plan, pressure, promotes, hibernate, forget, patching,
                  reloading>>
  BY Zenon DEF Tick
<1>p. pin' = [d \in Drives |-> Less1(pin[d])]
  BY Zenon DEF Tick
<1>1. /\ idle' \in [Drives -> 0..MaxIdle]
      /\ pin' \in [Drives -> 0..MaxPin]
  <2>1. idle' = [d \in Drives |->
                  IF idle[d] < MaxIdle THEN idle[d] + 1 ELSE MaxIdle]
    BY Zenon DEF Tick
  <2> QED
    BY <1>p, <2>1 DEF IInv, TypeOK, Less1
<1>2. /\ preload' \in [Operators -> PreloadState]
      /\ \A o \in Operators : /\ preload'[o].pc = preload[o].pc
                              /\ preload'[o].drive = preload[o].drive
                              /\ preload'[o].live = preload[o].live
  <2>1. \A n \in 0..MaxPin : Less1(n) \in 0..MaxPin
    BY DEF Less1
  <2>2. preload \in [Operators -> PreloadState]
    BY DEF IInv, TypeOK
  <2>3. preload' = [o \in Operators |-> [preload[o] EXCEPT !.left = Less1(@)]]
    BY Zenon DEF Tick
  <2>4. ASSUME NEW r \in PreloadState, NEW n \in 0..MaxPin
        PROVE  /\ [r EXCEPT !.left = n] \in PreloadState
               /\ [r EXCEPT !.left = n].pc = r.pc
               /\ [r EXCEPT !.left = n].drive = r.drive
               /\ [r EXCEPT !.left = n].live = r.live
    BY SMT DEF PreloadState
  <2>5. ASSUME NEW o \in Operators
        PROVE  /\ preload'[o] \in PreloadState /\ preload'[o].pc = preload[o].pc
               /\ preload'[o].drive = preload[o].drive /\ preload'[o].live = preload[o].live
    <3>1. preload[o] \in PreloadState
      BY <2>2
    <3>2. preload[o].left \in 0..MaxPin
      BY <3>1 DEF PreloadState
    <3>3. PICK n \in 0..MaxPin : n = Less1(preload[o].left)
      BY <2>1, <3>2
    <3>4. preload'[o] = [preload[o] EXCEPT !.left = n]
      BY <2>3, <3>3
    <3> QED
      BY <2>4, <3>1, <3>4
  <2> QED
    BY <2>3, <2>5, Zenon
<1>3. TypeOK'
  BY <1>0, <1>1, <1>2 DEF IInv, TypeOK, pressure, promotes
<1>4. PinnedOnlyHot'
  BY <1>0, <1>p DEF IInv, TypeOK, PinnedOnlyHot, Less1
<1>5. PreloadTracksArc'
  BY <1>0, <1>2 DEF IInv, PreloadTracksArc
<1> QED
  BY <1>0, <1>3, <1>4, <1>5, FrameFacts DEF IInv, pressure, promotes

\* The idle controller: the plan it collects is above the floors, and applying
\* a plan, however old, keeps the invariant.
LEMMA IdlerKeeps == IInv /\ Idler => IInv'
<1> SUFFICES ASSUME IInv, Idler PROVE IInv'
  OBVIOUS
<1>1. CASE IdleDetect
  <2>1. PICK th \in [Drives -> Thresholds] :
          plan' = [d \in Drives |->
                    IF pin[d] > 0 THEN "none" ELSE EvaluateIdleDemote(d, th[d])]
    BY <1>1 DEF IdleDetect
  <2>2. ASSUME NEW d \in Drives
        PROVE  LET e == EvaluateIdleDemote(d, th[d])
               IN /\ e \in {"none", "Warm", "Parked", "Cold"}
                  /\ e # "none" => TierRank[e] >= TierRank[MinTier[d]]
    <3>1. NextStateForIdle(tier[d], idle[d], th[d]) \in {"none", "Warm", "Parked", "Cold"}
      BY DEF NextStateForIdle
    <3>2. TierRank[MinTier[d]] \in Nat
      BY Ranks
    <3> QED
      BY <3>1, <3>2, Ranks DEF EvaluateIdleDemote
  <2>3. /\ plan' \in [Drives -> {"none", "Warm", "Parked", "Cold"}]
        /\ PlanAboveFloor'
    BY <2>1, <2>2 DEF PlanAboveFloor
  <2>4. TypeOK'
    BY <1>1, <2>3 DEF IInv, TypeOK, IdleDetect, registry, pressure, promotes
  <2> QED
    BY <1>1, <2>3, <2>4, FrameFacts
    DEF IInv, IdleDetect, registry, pressure, promotes
<1>2. CASE IdleApply
  <2>1. DemoteLetters(plan)
    BY <1>2 DEF IdleApply
  <2>2. PlanAboveFloor' /\ plan' \in [Drives -> {"none", "Warm", "Parked", "Cold"}]
    BY <1>2 DEF IdleApply, PlanAboveFloor, NoPlan, Everywhere
  <2>3. TypeOK'
    BY <1>2, <2>1, <2>2, DemoteLettersKeeps
    DEF IInv, TypeOK, IdleApply, pressure, promotes
  <2> QED
    BY <1>2, <2>1, <2>2, <2>3, DemoteLettersKeeps, FrameFacts
    DEF IInv, IdleApply, pressure, promotes
<1> QED
  BY <1>1, <1>2 DEF Idler

\* The pressure subscriber: what it picks is a drive, what it demotes keeps the
\* registry's invariant.
LEMMA PressureKeeps == IInv /\ (PressureSignal \/ Presser) => IInv'
<1> SUFFICES ASSUME IInv, PressureSignal \/ Presser PROVE IInv'
  OBVIOUS
<1>1. CASE PressureSignal
  <2>1. TypeOK'
    BY <1>1 DEF IInv, TypeOK, PressureSignal, registry, promotes
  <2> QED
    BY <1>1, <2>1, FrameFacts DEF IInv, PressureSignal, registry, promotes
<1>2. CASE PressureObserve \/ CascadeContinue
  <2>1. TypeOK' /\ PickIsDrive'
    BY <1>2 DEF IInv, TypeOK, PickIsDrive, PressureObserve, CascadeContinue,
                registry, promotes
  <2> QED
    BY <1>2, <2>1, FrameFacts DEF IInv, PressureObserve, CascadeContinue,
                                  registry, promotes
<1>3. CASE CascadePick
  <2>1. TypeOK' /\ PickIsDrive'
    BY <1>3 DEF IInv, TypeOK, PickIsDrive, CascadePick, CascadeCandidates,
                registry, promotes
  <2> QED
    BY <1>3, <2>1, FrameFacts DEF IInv, CascadePick, registry, promotes
<1>4. CASE CascadeDemote
  <2> DEFINE to == [NoPlan EXCEPT ![pick] = "Parked"]
  <2>1. DemoteLetters(to)
    BY <1>4 DEF CascadeDemote
  <2>2. /\ cascade' \in {"wait", "check"}
        /\ pick' = "none"
        /\ UNCHANGED <<idle, plan, level, changed, promotes, hibernate, forget,
                       patching, reloading>>
    BY <1>4 DEF CascadeDemote
  <2> HIDE DEF to
  <2>3. TypeOK'
    BY <2>1, <2>2, DemoteLettersKeeps DEF IInv, TypeOK, promotes
  <2> QED
    BY <2>1, <2>2, <2>3, DemoteLettersKeeps, FrameFacts
    DEF IInv, PickIsDrive, promotes
<1> QED
  BY <1>1, <1>2, <1>3, <1>4 DEF Presser

\* Joining, resolving and cleaning up a shared load keep one load per drive
\* (install_or_join_in_flight_slot, build_load_future).
LEMMA LoadsKeep ==
  ASSUME IInv, NEW d \in Drives,
         (\E w \in Waiters : JoinInFlight(w, d)) \/ Loader(d)
  PROVE  IInv'
<1>1. UNCHANGED <<tier, pin, idle, plan, level, changed, cascade, pick, query,
                  preload, hibernate, forget, patching, reloading>>
  BY Zenon DEF JoinInFlight, Loader, LoadResolve, SlotCleanup, registry, pressure
<1>2. /\ slot' \in [Drives -> {"vacant", "loading", "got", "miss"}]
      /\ loads' \in [Drives -> Nat]
      /\ wait' \in [Waiters -> [Drives -> WaitStates]]
      /\ SingleFlight'
  <2>1. ASSUME NEW w \in Waiters, JoinInFlight(w, d)
        PROVE  <1>2!1 /\ <1>2!2 /\ <1>2!3 /\ <1>2!4
    <3>1. CASE slot[d] = "vacant"
      <4>1. /\ slot' = [slot EXCEPT ![d] = "loading"]
            /\ loads' = [loads EXCEPT ![d] = @ + 1]
            /\ wait' = [wait EXCEPT ![w][d] = "await"]
        BY <2>1, <3>1 DEF JoinInFlight
      <4>2. loads[d] = 0
        <5>1. loads[d] \in Nat
          BY DEF IInv, TypeOK
        <5>2. loads[d] <= 1 /\ loads[d] # 1
          BY <3>1 DEF IInv, SingleFlight
        <5> QED
          BY <5>1, <5>2
      <4>3. /\ slot' \in [Drives -> {"vacant", "loading", "got", "miss"}]
            /\ loads' \in [Drives -> Nat]
            /\ SingleFlight'
        BY <4>1, <4>2 DEF IInv, TypeOK, SingleFlight
      <4>4. wait' \in [Waiters -> [Drives -> WaitStates]]
        BY <4>1 DEF IInv, TypeOK, WaitStates
      <4> QED
        BY <4>3, <4>4
    <3>2. CASE slot[d] # "vacant"
      <4>1. UNCHANGED <<slot, loads>>
        BY <2>1, <3>2 DEF JoinInFlight
      <4>2. wait' \in [Waiters -> [Drives -> WaitStates]]
        BY <2>1, <3>2 DEF IInv, TypeOK, JoinInFlight, WaitStates
      <4> QED
        BY <4>1, <4>2, FrameFacts DEF IInv, TypeOK
    <3> QED
      BY <3>1, <3>2
  <2>2. CASE LoadResolve(d)
    BY <2>2 DEF IInv, TypeOK, SingleFlight, LoadResolve, WaitStates
  <2>3. CASE SlotCleanup(d)
    BY <2>3 DEF IInv, TypeOK, SingleFlight, SlotCleanup
  <2> QED
    BY <2>1, <2>2, <2>3 DEF Loader
<1>3. TypeOK'
  BY <1>1, <1>2 DEF IInv, TypeOK
<1> QED
  BY <1>1, <1>2, <1>3, FrameFacts DEF IInv

\* A search dispatch: planning, draining, snapshot, stamping and being dropped
\* (ensure_warm_for_dispatch, record_search_dispatch).
LEMMA SearchKeeps ==
  ASSUME IInv, NEW c \in Clients,
         \/ EnsureWarmPlan(c) \/ SearchSnapshot(c) \/ RecordSearchDispatch(c)
         \/ SearchDropped(c) \/ \E d \in Drives : EnsureWarmSwap(c, d)
  PROVE  IInv'
<1> c \in Waiters
  BY DEF Waiters
<1>1. CASE EnsureWarmPlan(c) \/ SearchSnapshot(c) \/ SearchDropped(c)
  <2>1. /\ UNCHANGED <<tier, pin, idle, plan, level, changed, cascade, pick, slot,
                       loads, preload, hibernate, forget, patching, reloading>>
        /\ query' \in [Clients -> {"idle", "ensure", "search"}]
        /\ wait' \in [Waiters -> [Drives -> WaitStates]]
    BY <1>1 DEF IInv, TypeOK, EnsureWarmPlan, SearchSnapshot, SearchDropped,
                registry, pressure, WaitStates, NoPlan, Everywhere
  <2>2. TypeOK'
    BY <2>1 DEF IInv, TypeOK
  <2> QED
    BY <2>1, <2>2, FrameFacts DEF IInv
<1>2. CASE RecordSearchDispatch(c)
  <2>1. /\ UNCHANGED <<tier, pin, plan, level, changed, cascade, pick, slot, loads,
                       preload, hibernate, forget, patching, reloading>>
        /\ idle' \in [Drives -> 0..MaxIdle]
        /\ query' \in [Clients -> {"idle", "ensure", "search"}]
        /\ wait' \in [Waiters -> [Drives -> WaitStates]]
    BY <1>2 DEF IInv, TypeOK, RecordSearchDispatch, Stamp, pressure, WaitStates,
                NoPlan, Everywhere
  <2>2. TypeOK'
    BY <2>1 DEF IInv, TypeOK
  <2> QED
    BY <2>1, <2>2, FrameFacts DEF IInv
<1>3. ASSUME NEW d \in Drives, EnsureWarmSwap(c, d)
      PROVE  IInv'
  <2> DEFINE S == {d} \cap {e \in Drives : tier[e] \in {"Parked", "Cold"}}
             to == Everywhere("Warm")
  <2>1. /\ UNCHANGED <<plan, level, changed, cascade, pick, slot, loads, query,
                       hibernate, forget, patching, reloading>>
        /\ Rebuild(S, to, 0)
        /\ preload' = DropArcs(S)
        /\ Stamp(S)
        /\ wait' = [wait EXCEPT ![c][d] = "done"]
    BY <1>3 DEF EnsureWarmSwap, pressure
  <2>2. \A e \in Drives : e \in S => to[e] \in Tiers \cup {"Absent"}
    BY DEF Everywhere
  <2> HIDE DEF S, to
  <2>3. /\ idle' \in [Drives -> 0..MaxIdle]
        /\ wait' \in [Waiters -> [Drives -> WaitStates]]
    BY <2>1 DEF IInv, TypeOK, Stamp, WaitStates
  <2>4. TypeOK'
    BY <2>1, <2>2, <2>3, RebuildUnpinned DEF IInv, TypeOK
  <2> QED
    BY <2>1, <2>2, <2>4, RebuildUnpinned, FrameFacts DEF IInv
<1> QED
  BY <1>1, <1>2, <1>3

\* A preload request: its snapshot, the lock-free pin extension, arming, the
\* failed load and the swap to Hot (preload_drive, swap_in_hot_with_pin).
LEMMA PreloadKeeps ==
  ASSUME IInv, NEW o \in Operators,
         \/ \E d \in Drives : PreloadDetect(o, d)
         \/ PreloadExtend(o) \/ PreloadArm(o) \/ PreloadLoadFailed(o) \/ PreloadSwap(o)
  PROVE  IInv'
<1>a. o \in Waiters
  BY DEF Waiters
<1>b. /\ preload \in [Operators -> PreloadState]
      /\ Idle \in PreloadState /\ Idle.pc = "idle"
  BY DEF IInv, TypeOK, Idle, PreloadState
<1>1. ASSUME NEW d \in Drives, PreloadDetect(o, d)
      PROVE  IInv'
  <2> DEFINE r == [pc |-> IF tier[d] = "Hot" THEN "extend"
                          ELSE IF tier[d] = "Warm" THEN "arm" ELSE "load",
                   drive |-> d, left |-> 0, live |-> TRUE]
  <2>1. /\ UNCHANGED <<tier, pin, idle, plan, level, changed, cascade, pick, slot,
                       loads, query, hibernate, forget, patching, reloading>>
        /\ preload' = [preload EXCEPT ![o] = r]
    BY <1>1 DEF PreloadDetect, registry, pressure
  <2>2. wait' \in [Waiters -> [Drives -> WaitStates]]
    BY <1>1, <1>a DEF IInv, TypeOK, PreloadDetect, WaitStates
  <2>3. /\ r \in PreloadState
        /\ r.drive = d
        /\ r.pc = "extend" => tier[d] = "Hot"
    BY DEF PreloadState
  <2> HIDE DEF r
  <2>4. preload' \in [Operators -> PreloadState]
    BY <1>b, <2>1, <2>3
  <2>5. PreloadTracksArc'
    BY <1>b, <2>1, <2>3 DEF IInv, PreloadTracksArc
  <2>6. TypeOK'
    BY <2>1, <2>2, <2>4 DEF IInv, TypeOK
  <2> QED
    BY <2>1, <2>5, <2>6, FrameFacts DEF IInv
<1>2. CASE PreloadExtend(o)
  <2>1. /\ UNCHANGED <<tier, idle, plan, level, changed, cascade, pick, slot,
                       loads, query, wait, hibernate, forget, patching, reloading>>
        /\ preload' = [preload EXCEPT ![o] = Idle]
    BY <1>2 DEF PreloadExtend, pressure, promotes
  <2>2. pin' \in [Drives -> 0..MaxPin] /\ PinnedOnlyHot'
    BY <1>2, <2>1 DEF IInv, TypeOK, PreloadExtend, PinnedOnlyHot, PreloadTracksArc
  <2>3. preload' \in [Operators -> PreloadState] /\ PreloadTracksArc'
    BY <1>b, <2>1 DEF IInv, PreloadTracksArc
  <2>4. TypeOK'
    BY <2>1, <2>2, <2>3 DEF IInv, TypeOK
  <2> QED
    BY <2>1, <2>2, <2>3, <2>4, FrameFacts DEF IInv
<1>3. CASE PreloadArm(o)
  <2>1. /\ UNCHANGED <<tier, pin, idle, plan, level, changed, cascade, pick, slot,
                       loads, query, hibernate, forget, patching, reloading>>
        /\ preload[o].pc # "idle"
        /\ wait' = [wait EXCEPT ![o] = NoPlan]
    BY <1>3, Zenon DEF PreloadArm, registry, pressure
  <2>2. PICK w \in PinWindows :
          preload' = [preload EXCEPT ![o].pc = "swap", ![o].left = w]
    BY <1>3, Zenon DEF PreloadArm
  <2>3. w \in 0..MaxPin
    OBVIOUS
  <2>4. /\ preload' \in [Operators -> PreloadState]
        /\ preload'[o].pc = "swap" /\ preload'[o].drive = preload[o].drive
        /\ \A x \in Operators \ {o} : preload'[x] = preload[x]
    BY <1>b, <2>2, <2>3 DEF PreloadState
  <2>5. PreloadTracksArc'
    BY <2>1, <2>4 DEF IInv, PreloadTracksArc
  <2>6. wait' \in [Waiters -> [Drives -> WaitStates]]
    BY <1>a, <2>1 DEF IInv, TypeOK, WaitStates, NoPlan, Everywhere
  <2>7. TypeOK'
    BY <2>1, <2>4, <2>6 DEF IInv, TypeOK
  <2> QED
    BY <2>1, <2>5, <2>7, FrameFacts DEF IInv
<1>4. CASE PreloadLoadFailed(o)
  <2>1. /\ UNCHANGED <<tier, pin, idle, plan, level, changed, cascade, pick, slot,
                       loads, query, hibernate, forget, patching, reloading>>
        /\ wait' = [wait EXCEPT ![o] = NoPlan]
        /\ preload' = [preload EXCEPT ![o] = Idle]
    BY <1>4 DEF PreloadLoadFailed, registry, pressure
  <2>2. preload' \in [Operators -> PreloadState] /\ PreloadTracksArc'
    BY <1>b, <2>1 DEF IInv, PreloadTracksArc
  <2>3. wait' \in [Waiters -> [Drives -> WaitStates]]
    BY <1>a, <2>1 DEF IInv, TypeOK, WaitStates, NoPlan, Everywhere
  <2>4. TypeOK'
    BY <2>1, <2>2, <2>3 DEF IInv, TypeOK
  <2> QED
    BY <2>1, <2>2, <2>4, FrameFacts DEF IInv
<1>5. CASE PreloadSwap(o)
  <2> DEFINE S == {d \in {preload[o].drive} : tier[d] \in {"Cold", "Parked", "Warm"}}
             to == Everywhere("Hot")
  <2>1. /\ UNCHANGED <<plan, level, changed, cascade, pick, slot, loads, query,
                       wait, hibernate, forget, patching, reloading>>
        /\ Rebuild(S, to, preload[o].left)
        /\ Stamp(S)
        /\ preload' = [DropArcs(S) EXCEPT ![o] = Idle]
    BY <1>5 DEF PreloadSwap, pressure, promotes
  <2>2. \A d \in Drives : to[d] = "Hot"
    BY DEF Everywhere
  <2> HIDE DEF S, to
  <2>3. preload[o].left \in 0..MaxPin
    BY <1>b DEF PreloadState
  <2>4. /\ tier' \in [Drives -> Tiers \cup {"Absent"}]
        /\ pin' \in [Drives -> 0..MaxPin]
        /\ idle' \in [Drives -> 0..MaxIdle]
        /\ PinnedOnlyHot'
    BY <2>1, <2>2, <2>3 DEF IInv, TypeOK, Rebuild, Stamp, PinnedOnlyHot
  <2>5. preload' \in [Operators -> PreloadState] /\ PreloadTracksArc'
    BY <1>b, <2>1, DropArcsFacts DEF IInv, PreloadTracksArc, Rebuild
  <2>6. TypeOK'
    BY <2>1, <2>4, <2>5 DEF IInv, TypeOK
  <2> QED
    BY <2>1, <2>4, <2>5, <2>6, FrameFacts DEF IInv
<1> QED
  BY <1>1, <1>2, <1>3, <1>4, <1>5

\* Hibernate and forget: stale demotions and evictions (hibernate_shards,
\* forget_drives).
LEMMA OperatorKeeps ==
  ASSUME IInv,
         \/ \E S \in SUBSET Drives : HibernateDetect(S)
         \/ HibernateApply
         \/ \E S \in SUBSET Drives, force \in BOOLEAN : ForgetDetect(S, force)
         \/ Forgetter
  PROVE  IInv'
<1> DEFINE F == [force : BOOLEAN, demote : SUBSET Drives, evict : SUBSET Drives]
<1>1. ASSUME NEW S \in SUBSET Drives, HibernateDetect(S)
      PROVE  IInv'
  <2>1. TypeOK'
    BY <1>1 DEF IInv, TypeOK, HibernateDetect, registry, pressure, promotes
  <2> QED
    BY <1>1, <2>1, FrameFacts DEF IInv, HibernateDetect, registry, pressure, promotes
<1>2. CASE HibernateApply
  <2> DEFINE to == [d \in Drives |-> IF d \in hibernate THEN "Cold" ELSE "none"]
  <2>1. DemoteLetters(to)
    BY <1>2 DEF HibernateApply
  <2>2. hibernate' = {} /\ UNCHANGED <<idle, plan, pressure, promotes, forget,
                                       patching, reloading>>
    BY <1>2 DEF HibernateApply
  <2> HIDE DEF to
  <2>3. TypeOK'
    BY <2>1, <2>2, DemoteLettersKeeps DEF IInv, TypeOK, pressure, promotes
  <2> QED
    BY <2>1, <2>2, <2>3, DemoteLettersKeeps, FrameFacts DEF IInv, pressure, promotes
<1>3. ASSUME NEW S \in SUBSET Drives, NEW force \in BOOLEAN, ForgetDetect(S, force)
      PROVE  IInv'
  <2>1. /\ forget' \in F
        /\ UNCHANGED <<registry, plan, pressure, promotes, preload, hibernate,
                       patching, reloading>>
    BY <1>3 DEF ForgetDetect
  <2>2. TypeOK'
    BY <2>1 DEF IInv, TypeOK, registry, pressure, promotes
  <2> QED
    BY <2>1, <2>2, FrameFacts DEF IInv, registry, pressure, promotes
<1>4. ASSUME NEW d \in Drives, ForgetDemote(d)
      PROVE  IInv'
  <2> DEFINE to == [NoPlan EXCEPT ![d] = "Cold"]
  <2>1. DemoteLetters(to)
    BY <1>4 DEF ForgetDemote
  <2>2. /\ forget' \in F
        /\ UNCHANGED <<idle, plan, pressure, promotes, hibernate, patching, reloading>>
    BY <1>4 DEF ForgetDemote, IInv, TypeOK
  <2> HIDE DEF to
  <2>3. TypeOK'
    BY <2>1, <2>2, DemoteLettersKeeps DEF IInv, TypeOK, pressure, promotes
  <2> QED
    BY <2>1, <2>2, <2>3, DemoteLettersKeeps, FrameFacts DEF IInv, pressure, promotes
<1>5. ASSUME NEW d \in Drives, ForgetEvict(d)
      PROVE  IInv'
  <2> DEFINE to == Everywhere("Absent")
  <2>1. /\ Rebuild({d}, to, 0)
        /\ preload' = DropArcs({d})
        /\ UNCHANGED <<idle, plan, pressure, promotes, hibernate, patching, reloading>>
    BY <1>5 DEF ForgetEvict
  <2>2. forget' \in F
    BY <1>5 DEF ForgetEvict, IInv, TypeOK, NoForget
  <2>3. \A e \in Drives : e \in {d} => to[e] \in Tiers \cup {"Absent"}
    BY DEF Everywhere
  <2> HIDE DEF to
  <2>4. TypeOK'
    BY <2>1, <2>2, <2>3, RebuildUnpinned DEF IInv, TypeOK, pressure, promotes
  <2> QED
    BY <2>1, <2>3, <2>4, RebuildUnpinned, FrameFacts DEF IInv, pressure, promotes
<1> QED
  BY <1>1, <1>2, <1>3, <1>4, <1>5 DEF Forgetter

\* Body replacement by the journal applier, a refresh or a hot load
\* (replace_warm_body, replace).
LEMMA BodySwapKeeps ==
  ASSUME IInv,
         \/ \E d \in Drives : JournalSnapshot(d)
         \/ JournalSwap
         \/ \E d \in Drives : ReloadStart(d) \/ ReloadDone(d) \/ ReloadFail(d)
  PROVE  IInv'
<1>1. ASSUME NEW d \in Drives,
             JournalSnapshot(d) \/ ReloadStart(d) \/ ReloadFail(d)
      PROVE  IInv'
  <2>1. /\ UNCHANGED <<registry, plan, pressure, promotes, preload, hibernate, forget>>
        /\ patching' \in Drives \cup {"none"}
        /\ reloading' \subseteq Drives
    BY <1>1 DEF IInv, TypeOK, JournalSnapshot, ReloadStart, ReloadFail
  <2>2. TypeOK'
    BY <2>1 DEF IInv, TypeOK, registry, pressure, promotes
  <2> QED
    BY <2>1, <2>2, FrameFacts DEF IInv, registry, pressure, promotes
<1>2. \A d \in Drives : Everywhere("Warm")[d] \in Tiers \cup {"Absent"}
  BY DEF Everywhere
<1>3. CASE JournalSwap
  <2> DEFINE S == {patching} \cap Active
             to == Everywhere("Warm")
  <2>1. /\ Rebuild(S, to, 0)
        /\ preload' = DropArcs(S)
        /\ patching' = "none"
        /\ UNCHANGED <<idle, plan, pressure, promotes, hibernate, forget, reloading>>
    BY <1>3 DEF JournalSwap
  <2>2. \A d \in Drives : d \in S => to[d] \in Tiers \cup {"Absent"}
    BY <1>2
  <2> HIDE DEF S, to
  <2>3. TypeOK'
    BY <2>1, <2>2, RebuildUnpinned DEF IInv, TypeOK, pressure, promotes
  <2> QED
    BY <2>1, <2>2, <2>3, RebuildUnpinned, FrameFacts DEF IInv, pressure, promotes
<1>4. ASSUME NEW d \in Drives, ReloadDone(d)
      PROVE  IInv'
  <2> DEFINE to == Everywhere("Warm")
  <2>1. /\ Rebuild({d}, to, 0)
        /\ preload' = DropArcs({d})
        /\ UNCHANGED <<plan, pressure, promotes, hibernate, forget, patching>>
        /\ reloading' \subseteq Drives
        /\ idle' \in [Drives -> 0..MaxIdle]
    BY <1>4 DEF ReloadDone, IInv, TypeOK, Stamp
  <2>2. \A e \in Drives : e \in {d} => to[e] \in Tiers \cup {"Absent"}
    BY <1>2
  <2> HIDE DEF to
  <2>3. TypeOK'
    BY <2>1, <2>2, RebuildUnpinned DEF IInv, TypeOK, pressure, promotes
  <2> QED
    BY <2>1, <2>2, <2>3, RebuildUnpinned, FrameFacts DEF IInv, pressure, promotes
<1> QED
  BY <1>1, <1>3, <1>4

\* IInv is inductive: every action of Next keeps it.
LEMMA NextIInv == IInv /\ [Next]_vars => IInv'
<1> SUFFICES ASSUME IInv, [Next]_vars PROVE IInv'
  OBVIOUS
<1>1. CASE UNCHANGED vars
  BY <1>1 DEF vars, IInv, TypeOK, PinnedOnlyHot, SingleFlight, PreloadTracksArc,
              PickIsDrive, PlanAboveFloor
<1>2. CASE Next
  <2>1. ASSUME NEW c \in Clients, NEW d \in Drives, JoinInFlight(c, d)
        PROVE  IInv'
    BY <2>1, LoadsKeep DEF Waiters
  <2>2. ASSUME NEW o \in Operators, NEW d \in Drives, JoinInFlight(o, d)
        PROVE  IInv'
    BY <2>2, LoadsKeep DEF Waiters
  <2>3. ASSUME NEW c \in Clients, EnsureWarmPlan(c) \/ Searcher(c) \/ SearchDropped(c)
        PROVE  IInv'
    BY <2>1, <2>3, SearchKeeps DEF Searcher
  <2>4. ASSUME NEW o \in Operators,
               Preloader(o) \/ \E d \in Drives : PreloadDetect(o, d)
        PROVE  IInv'
    BY <2>2, <2>4, PreloadKeeps DEF Preloader
  <2>5. ASSUME NEW d \in Drives, Loader(d)
        PROVE  IInv'
    BY <2>5, LoadsKeep
  <2> QED
    BY <1>2, <2>3, <2>4, <2>5, TickKeeps, IdlerKeeps, PressureKeeps, OperatorKeeps,
       BodySwapKeeps DEF Next
<1> QED
  BY <1>1, <1>2

\* IInv holds in every reachable state.
THEOREM Invariance == Spec => []IInv
BY InitIInv, NextIInv, PTL DEF Spec

\* Every variable stays in its domain.
THEOREM TypeCorrect == Spec => []TypeOK
<1>1. IInv => TypeOK
  BY DEF IInv
<1> QED
  BY <1>1, Invariance, PTL

\* A pin is only ever carried by a Hot entry, for any number of drives and of
\* concurrent preloads (ShardEntry::pin_until on a snapshot's Arc).
THEOREM PinsAreOnHotEntries == Spec => []PinnedOnlyHot
<1>1. IInv => PinnedOnlyHot
  BY DEF IInv
<1> QED
  BY <1>1, Invariance, PTL

\* At most one body load runs per drive, for any number of searches and
\* preloads (load_or_join_in_flight).
THEOREM OneLoadPerDrive == Spec => []SingleFlight
<1>1. IInv => SingleFlight
  BY DEF IInv
<1> QED
  BY <1>1, Invariance, PTL

\* The idle controller respects every min_tier floor, whatever happened to the
\* registry between detect and apply (demote_idle_shards).
THEOREM IdleKeepsFloor == Spec => IdleRespectsFloor
<1> DEFINE A == IdleApply => \A d \in Drives :
                  tier'[d] # tier[d] => TierRank[tier'[d]] >= TierRank[MinTier[d]]
<1>1. ASSUME IInv, IdleApply, NEW d \in Drives, tier'[d] # tier[d]
      PROVE  TierRank[tier'[d]] >= TierRank[MinTier[d]]
  <2>1. DemoteLetters(plan)
    BY <1>1 DEF IdleApply
  <2>2. tier'[d] = plan[d] /\ plan[d] # "none"
    BY <1>1, <2>1, DemoteLettersLowers
  <2> QED
    BY <1>1, <2>2 DEF IInv, PlanAboveFloor
<1>2. IInv => A
  BY <1>1
<1>3. IInv /\ [Next]_vars => [A]_vars
  BY <1>2
<1> QED
  BY <1>3, Invariance, PTL DEF Spec, IdleRespectsFloor

\* No demotion driver raises a tier, however stale its plan
\* (demote_letter_with_reason).
THEOREM StalePlansLower == Spec => StalePlansOnlyLower
<1> DEFINE Demote == IdleApply \/ CascadeDemote \/ HibernateApply \/ Forgetter
           A == Demote => \A d \in Drives : TierRank[tier'[d]] <= TierRank[tier[d]]
<1>1. ASSUME IInv, Demote, NEW d \in Drives
      PROVE  TierRank[tier'[d]] <= TierRank[tier[d]]
  <2>1. ASSUME NEW to, DemoteLetters(to)
        PROVE  TierRank[tier'[d]] <= TierRank[tier[d]]
    BY <1>1, <2>1, DemoteLettersLowers
  <2>2. CASE IdleApply
    BY <2>1, <2>2 DEF IdleApply
  <2>3. CASE CascadeDemote
    BY <2>1, <2>3 DEF CascadeDemote
  <2>4. CASE HibernateApply
    BY <2>1, <2>4 DEF HibernateApply
  <2>5. ASSUME NEW e \in Drives, ForgetDemote(e)
        PROVE  TierRank[tier'[d]] <= TierRank[tier[d]]
    BY <2>1, <2>5 DEF ForgetDemote
  <2>6. ASSUME NEW e \in Drives, ForgetEvict(e)
        PROVE  TierRank[tier'[d]] <= TierRank[tier[d]]
    <3>1. tier'[d] = tier[d] \/ tier'[d] = "Absent"
      BY <2>6 DEF ForgetEvict, Rebuild, Everywhere
    <3>2. tier[d] \in Tiers \cup {"Absent"}
      BY <1>1 DEF IInv, TypeOK
    <3> QED
      BY <3>1, <3>2, Ranks
  <2> QED
    BY <1>1, <2>2, <2>3, <2>4, <2>5, <2>6 DEF Forgetter
<1>2. IInv => A
  BY <1>1
<1>3. IInv /\ [Next]_vars => [A]_vars
  BY <1>2
<1> QED
  BY <1>3, Invariance, PTL DEF Spec, StalePlansOnlyLower

\* A body load that comes back late only raises the drive's tier and never cuts
\* a pin short (promote_letter, promote_letter_to_hot).
THEOREM LateLoadsRaise == Spec => LateLoadsOnlyRaise
<1> DEFINE Promote == \/ \E c \in Clients, d \in Drives : EnsureWarmSwap(c, d)
                      \/ \E o \in Operators : PreloadSwap(o)
           A == Promote => \A d \in Drives : /\ TierRank[tier'[d]] >= TierRank[tier[d]]
                                             /\ pin'[d] >= pin[d]
<1>1. ASSUME IInv, Promote, NEW d \in Drives
      PROVE  TierRank[tier'[d]] >= TierRank[tier[d]] /\ pin'[d] >= pin[d]
  <2>1. /\ tier[d] \in Tiers \cup {"Absent"}
        /\ pin[d] \in Nat
        /\ pin[d] > 0 => tier[d] = "Hot"
    BY <1>1 DEF IInv, TypeOK, PinnedOnlyHot
  <2>2. \/ tier'[d] = tier[d] /\ pin'[d] = pin[d]
        \/ /\ tier'[d] \in {"Warm", "Hot"} /\ pin'[d] \in Nat
           /\ tier[d] \in {"Cold", "Parked"} \/ (tier[d] = "Warm" /\ tier'[d] = "Hot")
    <3>1. ASSUME NEW c \in Clients, NEW e \in Drives, EnsureWarmSwap(c, e)
          PROVE  <2>2
      <4> DEFINE S == {e} \cap {x \in Drives : tier[x] \in {"Parked", "Cold"}}
      <4>1. Rebuild(S, Everywhere("Warm"), 0)
        BY <3>1 DEF EnsureWarmSwap
      <4>2. /\ tier'[d] = IF d \in S THEN "Warm" ELSE tier[d]
            /\ pin'[d] = IF d \in S THEN 0 ELSE pin[d]
        BY <4>1 DEF Rebuild, Everywhere
      <4> QED
        BY <4>2
    <3>2. ASSUME NEW o \in Operators, PreloadSwap(o)
          PROVE  <2>2
      <4>1. preload[o].left \in Nat
        BY <1>1 DEF IInv, TypeOK, PreloadState
      <4> QED
        BY <3>2, <4>1 DEF PreloadSwap, Rebuild, Everywhere
    <3> QED
      BY <1>1, <3>1, <3>2
  <2> QED
    BY <2>1, <2>2, Ranks
<1>2. IInv => A
  BY <1>1
<1>3. IInv /\ [Next]_vars => [A]_vars
  BY <1>2
<1> QED
  BY <1>3, Invariance, PTL DEF Spec, LateLoadsOnlyRaise

=============================================================================
