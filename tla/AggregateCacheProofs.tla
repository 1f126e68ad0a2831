------------------------ MODULE AggregateCacheProofs ------------------------
(***************************************************************************)
(* For any number of registry writers and requests, index versions are     *)
(* never reused.  IInv adds that all versions in the state were handed out *)
(* by the counter; each step then preserves it by comparing numbers.       *)
(***************************************************************************)
EXTENDS AggregateCache, TLAPS

\* The first version is 0 and no writer holds one.
LEMMA InitIInv == Init => IInv
  BY DEF Init, IInv, TypeOK, VersionsNotReused, NoEntry, IdleWriter, IdleRequest, Request

\* Publishing, the bump and the two halves of set_index_version.
LEMMA WriterKeeps ==
  ASSUME IInv, NEW w \in Writers, Publish(w) \/ WriterStep(w)
  PROVE  IInv'
<1>1. CASE Publish(w)
  BY <1>1 DEF Publish, IInv, TypeOK, VersionsNotReused
<1>2. CASE FetchAdd(w)
  <2> DEFINE new == [pc |-> "set", v |-> counter + 1]
  <2>1. /\ counter \in Nat /\ counter' = counter + 1
        /\ UNCHANGED <<gen, version, entry, request>>
        /\ writer' = [writer EXCEPT ![w] = new]
    BY <1>2 DEF FetchAdd, IInv, TypeOK
  <2>2. TypeOK'
    BY <2>1 DEF IInv, TypeOK
  <2>3. /\ writer'[w].v = counter + 1
        /\ \A u \in Writers \ {w} : writer'[u] = writer[u] /\ writer[u].v \in Nat
    BY <2>1 DEF IInv, TypeOK
  <2>4. /\ version \in Nat /\ entry.ver \in Nat /\ version <= counter /\ entry.ver <= counter
        /\ \A r \in Requests : request[r].ver \in Nat /\ request[r].ver <= counter
        /\ \A u \in Writers : writer[u].v <= counter
    BY DEF IInv, TypeOK, VersionsNotReused
  <2>5. ASSUME NEW u \in Writers, writer'[u].pc = "set"
        PROVE  /\ writer'[u].v \notin {version, entry.ver} /\ writer'[u].v > 0
               /\ writer'[u].v <= counter + 1
               /\ \A r \in Requests : request[r].ver # writer'[u].v
               /\ \A x \in Writers \ {u} : writer'[x].v # writer'[u].v
    <3>1. CASE u = w
      BY <3>1, <2>1, <2>3, <2>4
    <3>2. CASE u # w
      <4>1. writer[u].pc = "set" /\ writer'[u].v = writer[u].v
        BY <3>2, <2>3, <2>5
      <4>2. /\ writer[u].v \notin {version, entry.ver} /\ writer[u].v > 0
            /\ \A r \in Requests : request[r].ver # writer[u].v
            /\ \A x \in Writers \ {u} : writer[x].v # writer[u].v
        BY <4>1 DEF IInv, VersionsNotReused
      <4> QED
        BY <3>2, <4>1, <4>2, <2>1, <2>3, <2>4
    <3> QED
      BY <3>1, <3>2
  <2>6. \A u \in Writers : writer'[u].v <= counter + 1
    BY <2>1, <2>3, <2>4
  <2>7. VersionsNotReused'
    BY <2>1, <2>4, <2>5 DEF VersionsNotReused
  <2> QED
    BY <2>1, <2>2, <2>4, <2>5, <2>6, <2>7 DEF IInv
<1>3. CASE SetVersion(w)
  BY <1>3 DEF SetVersion, IdleWriter, IInv, TypeOK, VersionsNotReused
<1>4. CASE ClearEntries(w)
  BY <1>4 DEF ClearEntries, NoEntry, IdleWriter, IInv, TypeOK, VersionsNotReused
<1> QED
  BY <1>1, <1>2, <1>3, <1>4 DEF WriterStep

\* A request only copies the cache's version; inserting stores such a copy.
LEMMA RequestKeeps ==
  ASSUME IInv, NEW r \in Requests, Snapshot(r) \/ RequestStep(r)
  PROVE  IInv'
<1> USE DEF IInv, TypeOK, VersionsNotReused, Request, At
<1>1. CASE Snapshot(r)
  BY <1>1 DEF Snapshot
<1>2. CASE GetVersion(r)
  BY <1>2 DEF GetVersion
<1>3. CASE GetEntry(r)
  BY <1>3 DEF GetEntry
<1>4. CASE PutVersion(r)
  BY <1>4 DEF PutVersion
<1>5. CASE PutInsert(r)
  BY <1>5 DEF PutInsert
<1>6. CASE Respond(r)
  BY <1>6 DEF Respond, IdleRequest
<1> QED
  BY <1>1, <1>2, <1>3, <1>4, <1>5, <1>6 DEF RequestStep

\* IInv holds in every reachable state.
THEOREM Invariance == Spec => []IInv
<1>1. IInv /\ [Next]_vars => IInv'
  <2> SUFFICES ASSUME IInv, [Next]_vars PROVE IInv'
    OBVIOUS
  <2>1. CASE \E w \in Writers : Publish(w) \/ WriterStep(w)
    BY <2>1, WriterKeeps
  <2>2. CASE \E r \in Requests : Snapshot(r) \/ RequestStep(r)
    BY <2>2, RequestKeeps
  <2>3. CASE Expire
    BY <2>3 DEF Expire, NoEntry, IInv, TypeOK, VersionsNotReused
  <2>4. CASE UNCHANGED vars
    BY <2>4 DEF vars, IInv, TypeOK, VersionsNotReused
  <2> QED
    BY <2>1, <2>2, <2>3, <2>4 DEF Next
<1> QED
  BY InitIInv, <1>1, PTL DEF Spec

\* set_index_version and bump_index_version: whatever the order in which racing
\* bumps arrive, a version being installed matches no entry and no request.
THEOREM BumpsInstallNewVersions == Spec => []VersionsNotReused
<1>1. IInv => VersionsNotReused
  BY DEF IInv
<1> QED
  BY <1>1, Invariance, PTL

=============================================================================
