--------------------------- MODULE AggregateCache ---------------------------
(***************************************************************************)
(* The aggregate result cache beside the registry it caches results of.    *)
(* Registry writers publish a new generation and then, off the registry    *)
(* lock, bump the index version; requests take a registry snapshot, look   *)
(* their key up, and on a miss compute and insert.  set_index_version, get *)
(* and put each take the version lock and the entries lock one after the   *)
(* other, so each is two steps.  One cache key; an output is the           *)
(* generation it was computed from.                                        *)
(***************************************************************************)
EXTENDS Naturals

CONSTANTS
  Writers,   \* tasks that change the registry
  Requests,  \* aggregate requests
  MaxGen     \* registry changes (bound)

ASSUME GenAssumption == MaxGen \in Nat

VARIABLES
  gen,      \* generation of the registry
  counter,  \* IndexManager::index_version
  version,  \* AggregateCache::index_version
  entry,    \* the entry of the key
  writer,   \* writer -> [pc, v]
  request   \* request -> [pc, snap, ver, out]

vars == <<gen, counter, version, entry, writer, request>>

NoEntry == [some |-> FALSE, out |-> 0, ver |-> 0]
IdleWriter == [pc |-> "idle", v |-> 0]
Request(pc, snap, ver, out) == [pc |-> pc, snap |-> snap, ver |-> ver, out |-> out]
IdleRequest == Request("idle", 0, 0, 0)

Init ==
  /\ gen = 0 /\ counter = 0 /\ version = 0
  /\ entry = NoEntry
  /\ writer = [w \in Writers |-> IdleWriter]
  /\ request = [r \in Requests |-> IdleRequest]

-----------------------------------------------------------------------------
(* Writers: publish under the registry lock, then bump_index_version.      *)

Publish(w) ==
  /\ writer[w].pc = "idle"
  /\ gen < MaxGen
  /\ gen' = gen + 1
  /\ writer' = [writer EXCEPT ![w] = [pc |-> "bump", v |-> 0]]
  /\ UNCHANGED <<counter, version, entry, request>>

\* Mutant: the new version is derived from the cache's own.
FetchAddFromCache(w) ==
  /\ writer[w].pc = "bump"
  /\ counter' = counter + 1
  /\ writer' = [writer EXCEPT ![w] = [pc |-> "set", v |-> version + 1]]
  /\ UNCHANGED <<gen, version, entry, request>>

FetchAdd(w) ==
  /\ writer[w].pc = "bump"
  /\ counter' = counter + 1
  /\ writer' = [writer EXCEPT ![w] = [pc |-> "set", v |-> counter + 1]]
  /\ UNCHANGED <<gen, version, entry, request>>

SetVersion(w) ==
  /\ writer[w].pc = "set"
  /\ version' = writer[w].v
  /\ writer' = [writer EXCEPT ![w] = IF version = writer[w].v THEN IdleWriter
                                     ELSE [pc |-> "clear", v |-> writer[w].v]]
  /\ UNCHANGED <<gen, counter, entry, request>>

ClearEntries(w) ==
  /\ writer[w].pc = "clear"
  /\ entry' = NoEntry
  /\ writer' = [writer EXCEPT ![w] = IdleWriter]
  /\ UNCHANGED <<gen, counter, version, request>>

-----------------------------------------------------------------------------
(* Requests: compute_aggregate_output.                                     *)

At(r, pc) == request[r].pc = pc

Snapshot(r) ==
  /\ At(r, "idle")
  /\ request' = [request EXCEPT ![r] = Request("get", gen, 0, 0)]
  /\ UNCHANGED <<gen, counter, version, entry, writer>>

GetVersion(r) ==
  /\ At(r, "get")
  /\ request' = [request EXCEPT ![r] = Request("look", @.snap, version, 0)]
  /\ UNCHANGED <<gen, counter, version, entry, writer>>

\* A hit answers the request; a miss scans the snapshot.
GetEntry(r) ==
  /\ At(r, "look")
  /\ LET hit == entry.some /\ entry.ver = request[r].ver
     IN request' = [request EXCEPT ![r] =
                      IF hit THEN Request("done", @.snap, @.ver, entry.out)
                      ELSE Request("put", @.snap, @.ver, @.snap)]
  /\ UNCHANGED <<gen, counter, version, entry, writer>>

PutVersion(r) ==
  /\ At(r, "put")
  /\ request' = [request EXCEPT ![r] = Request("insert", @.snap, version, @.out)]
  /\ UNCHANGED <<gen, counter, version, entry, writer>>

PutInsert(r) ==
  /\ At(r, "insert")
  /\ entry' = [some |-> TRUE, out |-> request[r].out, ver |-> request[r].ver]
  /\ request' = [request EXCEPT ![r] = Request("done", @.snap, @.ver, @.out)]
  /\ UNCHANGED <<gen, counter, version, writer>>

Respond(r) ==
  /\ At(r, "done")
  /\ request' = [request EXCEPT ![r] = IdleRequest]
  /\ UNCHANGED <<gen, counter, version, entry, writer>>

\* Mutant: the TTL only frees entries of an old version.
ExpireOldVersion ==
  /\ entry.some /\ entry.ver # version
  /\ entry' = NoEntry
  /\ UNCHANGED <<gen, counter, version, writer, request>>

\* The TTL of the entry runs out: get treats it as absent, put evicts it.
Expire ==
  /\ entry.some
  /\ entry' = NoEntry
  /\ UNCHANGED <<gen, counter, version, writer, request>>

-----------------------------------------------------------------------------
WriterStep(w) == FetchAdd(w) \/ SetVersion(w) \/ ClearEntries(w)
RequestStep(r) ==
  \/ GetVersion(r) \/ GetEntry(r) \/ PutVersion(r) \/ PutInsert(r) \/ Respond(r)

Next ==
  \/ \E w \in Writers : Publish(w) \/ WriterStep(w)
  \/ \E r \in Requests : Snapshot(r) \/ RequestStep(r)
  \/ Expire

Spec == Init /\ [][Next]_vars

\* Started calls return, and a TTL that started runs out whatever is served.
Fairness ==
  /\ \A w \in Writers : WF_vars(WriterStep(w))
  /\ \A r \in Requests : WF_vars(RequestStep(r))
  /\ WF_vars(Expire)

FairSpec == Spec /\ Fairness

-----------------------------------------------------------------------------
(* Properties.                                                             *)

Stale == entry.some /\ entry.out < gen

Quiet == \A w \in Writers : writer[w].pc = "idle"

\* A result computed before a registry change does not stay in the cache: the
\* clear of set_index_version or, when a put raced with it, the TTL ends it.
StaleEntriesGo == Stale ~> ~Stale

\* A version about to be installed is new: no other writer installs it, the
\* cache does not have it, and nothing cached, looked up or about to be inserted
\* carries it.  So from the moment set_index_version has stored it every older
\* entry misses, also before its second lock has cleared the entries, in
\* whatever order racing bumps arrive.
VersionsNotReused ==
  /\ version <= counter
  /\ \A w \in Writers : writer[w].pc = "set" =>
       /\ writer[w].v \notin {version, entry.ver}
       /\ \A r \in Requests : request[r].ver # writer[w].v
       /\ \A u \in Writers \ {w} : writer[u].v # writer[w].v

\* Types of the state.
TypeOK ==
  /\ gen \in Nat /\ counter \in Nat /\ version \in Nat
  /\ entry \in [some : BOOLEAN, out : Nat, ver : Nat]
  /\ writer \in [Writers -> [pc : {"idle", "bump", "set", "clear"}, v : Nat]]
  /\ request \in [Requests ->
       [pc : {"idle", "get", "look", "put", "insert", "done"}, snap : Nat, ver : Nat, out : Nat]]

\* Everything handed out so far is at most the counter, and a pending version
\* is at least 1: what makes VersionsNotReused inductive.
IInv ==
  /\ TypeOK
  /\ VersionsNotReused
  /\ entry.ver <= counter
  /\ \A r \in Requests : request[r].ver <= counter
  /\ \A w \in Writers : writer[w].v <= counter
  /\ \A w \in Writers : writer[w].pc = "set" => writer[w].v > 0

\* AggregateCache::put "silently drops the entry when the cache's current index
\* version has advanced beyond the caller's": with every bump finished, no entry
\* that would hit was computed from an older registry.
PutDropsStaleResults == Quiet /\ entry.ver = version => ~Stale

=============================================================================
