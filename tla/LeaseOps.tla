------------------------------ MODULE LeaseOps ------------------------------
(***************************************************************************)
(* The lease manager of src/probekv/v8_leases.py as operators on its       *)
(* state.  Every component that shares one V8LeaseManager (the request     *)
(* controllers, the tiered backing coordinator) composes these operators   *)
(* with its own actions, so the manager is described once.                 *)
(*                                                                         *)
(* For a method f of V8LeaseManager, CanF(m, ...) is the condition under   *)
(* which f returns instead of raising, and F(m, ...) is the state it       *)
(* leaves.  Every check of a method precedes its first assignment, so a    *)
(* call that raises changes nothing.                                       *)
(***************************************************************************)
EXTENDS Integers, Sequences, FiniteSets, FiniteSetsExt

CONSTANTS
    Owners,        \* (request id, request generation) pairs
    Segments,      \* the reusable segments of a request
    Sources,       \* Source Variant ids
    Replicas,      \* Replica ids
    SourceOf,      \* the Source Variant a Replica belongs to
    TierOf,        \* the tier a Replica lives on
    SizeOf,        \* its bytes
    NamespaceOf,   \* the namespace of a Source Variant
    TtlFloor,      \* ttl_floor_s
    OrphanGrace,   \* orphan_grace_s
    NoSource, NoReplica, NoCap, NoTime

Tiers == {"gpu", "cpu", "ssd"}

ASSUME PoolShape ==
    /\ SourceOf \in [Replicas -> Sources]
    /\ TierOf \in [Replicas -> Tiers]
    /\ SizeOf \in [Replicas -> Nat]
    /\ DOMAIN NamespaceOf = Sources

ASSUME NullValues ==
    /\ NoSource \notin Sources
    /\ NoReplica \notin Replicas
    /\ NoTime \notin Int
    /\ NoCap \notin Int

ASSUME RecoveryTiming == TtlFloor \in Nat \ {0} /\ OrphanGrace \in Nat

(* ReplicaLifecycle, less CORRUPT and EVICTING, which no code assigns;     *)
(* "absent" stands for an id not (yet) in the manager's dictionary.        *)
ReplicaStates == {"absent", "allocating", "ready", "deleted"}
SourceStates  == {"absent", "active", "purged"}
(* ORPHANED is assigned and overwritten within one recover_expired call.   *)
LeaseStates   == {"active", "suspect", "released"}
Purposes      == {"logical", "copy", "speculative", "execution"}
Reasons       == {"none", "request", "orphan_recovery"}

LeaseRecords ==
    [owner : Owners, segment : Segments, source : Sources,
     replica : Replicas \cup {NoReplica}, purpose : Purposes,
     state : LeaseStates, heartbeat : Nat, expires : Nat,
     suspectAt : Nat \cup {NoTime}, reason : Reasons,
     copy : BOOLEAN, exec : BOOLEAN, ready : BOOLEAN]

ManagerStates ==
    [source : [Sources -> SourceStates], logical : [Sources -> Nat],
     life : [Replicas -> ReplicaStates], backing : [Replicas -> BOOLEAN],
     placement : [Replicas -> Nat],
     refs : [Replicas -> Nat], copies : [Replicas -> Nat],
     execs : [Replicas -> Nat],
     lease : Seq(LeaseRecords),
     frozen : [Owners -> [Segments -> Sources \cup {NoSource}]]]

(* A manager nothing was registered with yet.                              *)
NewManager(sources, replicas, owners, segments) ==
    [source |-> [s \in sources |-> "absent"], logical |-> [s \in sources |-> 0],
     life |-> [r \in replicas |-> "absent"],
     backing |-> [r \in replicas |-> FALSE],
     placement |-> [r \in replicas |-> 0],
     refs |-> [r \in replicas |-> 0], copies |-> [r \in replicas |-> 0],
     execs |-> [r \in replicas |-> 0],
     lease |-> <<>>,
     frozen |-> [o \in owners |-> [g \in segments |-> NoSource]]]

EmptyManager == NewManager(Sources, Replicas, Owners, Segments)

(***************************************************************************)
(* Views of the state.                                                     *)
(***************************************************************************)
Live(m) == {l \in DOMAIN m.lease : m.lease[l].state # "released"}
Holders(m, r) == {l \in Live(m) : m.lease[l].replica = r}
Copiers(m, r) == {l \in Live(m) : m.lease[l].replica = r /\ m.lease[l].copy}
Executors(m, r) == {l \in Live(m) : m.lease[l].replica = r /\ m.lease[l].exec}
LogicalHolders(m, s) ==
    {l \in Live(m) : m.lease[l].replica = NoReplica /\ m.lease[l].source = s}

Busy(m, r) == m.refs[r] # 0 \/ m.copies[r] # 0 \/ m.execs[r] # 0
Present(m, r) == m.life[r] \in {"allocating", "ready"}
HealthyBacking(m, s) ==
    {r \in Replicas : SourceOf[r] = s /\ m.life[r] = "ready" /\ m.backing[r]}

TtlFor(remaining) == IF 4 * remaining > TtlFloor THEN 4 * remaining ELSE TtlFloor

NewLease(o, g, s, r, purpose, remaining, now) ==
    [owner |-> o, segment |-> g, source |-> s, replica |-> r,
     purpose |-> purpose, state |-> "active", heartbeat |-> now,
     expires |-> now + TtlFor(remaining), suspectAt |-> NoTime,
     reason |-> "none",
     copy |-> purpose \in {"copy", "speculative"},
     exec |-> purpose = "execution", ready |-> FALSE]

(***************************************************************************)
(* Sources and Replicas.                                                   *)
(***************************************************************************)
(* Registering a known Source returns it as it is: a purged one stays so.  *)
RegisterSource(m, s) ==
    [m EXCEPT !.source[s] = IF @ = "absent" THEN "active" ELSE @]

CanRegisterReplica(m, r, isBacking) ==
    LET siblings == {q \in Replicas : SourceOf[q] = SourceOf[r] /\ Present(m, q)}
    IN  /\ m.source[SourceOf[r]] # "absent"
        /\ \A q \in siblings : TierOf[q] # TierOf[r]
        /\ isBacking => \A q \in siblings : ~m.backing[q]

(* A new resource object: its counters start at zero, also when a deleted  *)
(* one of the same id is replaced.  The placement pair (generation,        *)
(* placement_epoch) is new each time.                                      *)
RegisterReplica(m, r, isBacking, lifecycle) ==
    [m EXCEPT !.life[r] = lifecycle, !.backing[r] = isBacking,
              !.placement[r] = @ + 1,
              !.refs[r] = 0, !.copies[r] = 0, !.execs[r] = 0]

(* Mutant: the backing of a leased Source may go.                          *)
CanEvictBackingToo(m, r) == m.life[r] # "absent" /\ ~Busy(m, r)

CanEvictReplica(m, r) ==
    /\ m.life[r] # "absent"
    /\ ~Busy(m, r)
    /\ m.backing[r] => m.logical[SourceOf[r]] <= 0

EvictReplica(m, r) == [m EXCEPT !.life[r] = "deleted"]

NamespaceSources(m, n) ==
    {s \in Sources : NamespaceOf[s] = n /\ m.source[s] # "absent"}

CanPurgeNamespace(m, n) ==
    \A s \in NamespaceSources(m, n) :
        /\ m.logical[s] = 0
        /\ \A r \in Replicas : SourceOf[r] = s => ~Busy(m, r)

PurgeNamespace(m, n) ==
    LET targets == NamespaceSources(m, n)
    IN  [m EXCEPT
          !.source = [s \in Sources |-> IF s \in targets THEN "purged" ELSE @[s]],
          !.life = [r \in Replicas |->
                      IF SourceOf[r] \in targets /\ @[r] # "absent"
                      THEN "deleted" ELSE @[r]]]

(***************************************************************************)
(* Granting leases.                                                        *)
(***************************************************************************)
(* Mutant: the first choice of a segment is forgotten.                     *)
CanFreezeAgain(m, o, g, s) ==
    m.source[s] = "active" /\ HealthyBacking(m, s) # {}

CanFreeze(m, o, g, s) ==
    /\ m.source[s] = "active"
    /\ HealthyBacking(m, s) # {}
    /\ m.frozen[o][g] \in {NoSource, s}

FreezeAndAcquireLogical(m, o, g, s, remaining, now) ==
    [m EXCEPT
      !.lease = Append(@, NewLease(o, g, s, NoReplica, "logical", remaining, now)),
      !.frozen[o][g] = s,
      !.logical[s] = @ + 1]

GpuBytes(reqs) ==
    MapThenSumSet(LAMBDA i : SizeOf[reqs[i].replica],
                  {i \in DOMAIN reqs : TierOf[reqs[i].replica] = "gpu"})

(* The checks of one request of a batch, a record [segment, source,        *)
(* replica, placement, purpose].                                           *)
Bindable(m, o, q) ==
    /\ m.source[q.source] # "absent"
    /\ m.frozen[o][q.segment] = q.source
    /\ SourceOf[q.replica] = q.source
    /\ m.life[q.replica] = "ready"
    /\ m.placement[q.replica] = q.placement

CanLeaseBatch(m, o, reqs, cap) ==
    /\ \A i, j \in DOMAIN reqs : reqs[i].segment = reqs[j].segment => i = j
    /\ \A i \in DOMAIN reqs : Bindable(m, o, reqs[i])
    /\ cap # NoCap => GpuBytes(reqs) <= cap

BatchLease(o, q, remaining, now) ==
    NewLease(o, q.segment, q.source, q.replica, q.purpose, remaining, now)

LeaseBatch(m, o, reqs, remaining, now) ==
    LET Of(r, kinds) == {i \in DOMAIN reqs :
                           reqs[i].replica = r /\ reqs[i].purpose \in kinds}
    IN  [m EXCEPT
          !.lease = @ \o [i \in DOMAIN reqs |->
                            BatchLease(o, reqs[i], remaining, now)],
          !.refs = [r \in Replicas |->
                      @[r] + Cardinality(Of(r, Purposes))],
          !.copies = [r \in Replicas |->
                      @[r] + Cardinality(Of(r, {"copy", "speculative"}))],
          !.execs = [r \in Replicas |->
                      @[r] + Cardinality(Of(r, {"execution"}))]]

(***************************************************************************)
(* The life of a lease.                                                    *)
(***************************************************************************)
CanMarkReady(m, l) ==
    /\ m.lease[l].state = "active"
    /\ m.lease[l].replica # NoReplica
    /\ m.lease[l].ready \/ m.lease[l].copy

MarkPhysicalReady(m, l) ==
    IF m.lease[l].ready THEN m
    ELSE [m EXCEPT !.copies[m.lease[l].replica] = @ - 1,
                   !.lease[l].copy = FALSE, !.lease[l].ready = TRUE]

(* Neither physical_ready nor copy_active is looked at.                    *)
CanPromote(m, l) ==
    /\ m.lease[l].state = "active"
    /\ m.lease[l].purpose = "speculative"
    /\ m.life[m.lease[l].replica] = "ready"

PromoteSpeculative(m, l) ==
    [m EXCEPT !.lease[l].purpose = "execution", !.lease[l].exec = TRUE,
              !.execs[m.lease[l].replica] = @ + 1]

CanHeartbeat(m, l) == m.lease[l].state \in {"active", "suspect"}

(* Mutant: a renewed lease stays suspect since the old date.               *)
RenewedSuspect(lease, now) ==
    [lease EXCEPT !.heartbeat = now, !.expires = now + TtlFloor]

Renewed(lease, now) ==
    LET ttl == lease.expires - lease.heartbeat
    IN  [lease EXCEPT !.heartbeat = now,
                      !.expires = now + (IF ttl > TtlFloor THEN ttl ELSE TtlFloor),
                      !.state = "active", !.suspectAt = NoTime]

Heartbeat(m, l, now) == [m EXCEPT !.lease[l] = Renewed(@, now)]

(* One release of every live lease of L; releasing again is a no-op.  The  *)
(* underflow checks of release() never fire (CountersMatch), so they are   *)
(* not guards.                                                             *)
Released(lease, reason) ==
    [lease EXCEPT !.state = "released", !.reason = reason,
                  !.copy = FALSE, !.exec = FALSE]

(* Mutant: a lease is given back again each time it is released.           *)
ReleaseTwice(m, L, reason) ==
    LET Of(r) == {l \in L : m.lease[l].replica = r}
    IN  [m EXCEPT
          !.lease = [l \in DOMAIN @ |-> IF l \in L THEN Released(@[l], reason) ELSE @[l]],
          !.logical = [s \in Sources |-> @[s] - Cardinality({l \in Of(NoReplica) :
                                                     m.lease[l].source = s})],
          !.refs = [r \in Replicas |-> @[r] - Cardinality(Of(r))],
          !.copies = [r \in Replicas |-> @[r] - Cardinality(L \cap Copiers(m, r))],
          !.execs = [r \in Replicas |-> @[r] - Cardinality(L \cap Executors(m, r))]]

(* Mutant: the reason is written before the released record is noticed.    *)
ReleaseRestamped(m, L, reason) ==
    [m EXCEPT
      !.lease = [l \in DOMAIN @ |-> IF l \in L THEN Released(@[l], reason) ELSE @[l]],
      !.logical = [s \in Sources |->
                     @[s] - Cardinality(L \cap LogicalHolders(m, s))],
      !.refs = [r \in Replicas |-> @[r] - Cardinality(L \cap Holders(m, r))],
      !.copies = [r \in Replicas |-> @[r] - Cardinality(L \cap Copiers(m, r))],
      !.execs = [r \in Replicas |-> @[r] - Cardinality(L \cap Executors(m, r))]]

ReleaseAll(m, L, reason) ==
    [m EXCEPT
      !.lease = [l \in DOMAIN @ |->
                   IF l \in L \cap Live(m) THEN Released(@[l], reason) ELSE @[l]],
      !.logical = [s \in Sources |->
                     @[s] - Cardinality(L \cap LogicalHolders(m, s))],
      !.refs = [r \in Replicas |-> @[r] - Cardinality(L \cap Holders(m, r))],
      !.copies = [r \in Replicas |-> @[r] - Cardinality(L \cap Copiers(m, r))],
      !.execs = [r \in Replicas |-> @[r] - Cardinality(L \cap Executors(m, r))]]

Release(m, l, reason) == ReleaseAll(m, {l}, reason)

(* One sweep over all leases.  An expired lease is renewed if its owner is *)
(* live; otherwise it becomes suspect, and a later sweep at least          *)
(* OrphanGrace after that reclaims it.  The sweep treats each lease        *)
(* independently of the others.                                            *)
Expired(m, now) == {l \in Live(m) : now >= m.lease[l].expires}

Reclaimed(m, liveOwners, now) ==
    {l \in Expired(m, now) :
        /\ m.lease[l].owner \notin liveOwners
        /\ m.lease[l].state = "suspect"
        /\ now >= m.lease[l].suspectAt + OrphanGrace}

Swept(lease, liveOwners, now) ==
    IF lease.owner \in liveOwners THEN Renewed(lease, now)
    ELSE IF lease.state = "active"
         THEN [lease EXCEPT !.state = "suspect", !.suspectAt = now]
         ELSE lease

(* Mutant: a reclaimed record is closed without giving its counters back.  *)
RecoverUncounted(m, liveOwners, now) ==
    LET reclaimed == Reclaimed(m, liveOwners, now)
    IN  [m EXCEPT !.lease = [l \in DOMAIN @ |->
           IF l \in reclaimed THEN Released(@[l], "orphan_recovery")
           ELSE IF l \in Expired(m, now) THEN Swept(@[l], liveOwners, now)
           ELSE @[l]]]

RecoverExpired(m, liveOwners, now) ==
    LET reclaimed == Reclaimed(m, liveOwners, now)
        swept == [m EXCEPT !.lease = [l \in DOMAIN @ |->
                    IF l \in Expired(m, now) \ reclaimed
                    THEN Swept(@[l], liveOwners, now) ELSE @[l]]]
    IN  ReleaseAll(swept, reclaimed, "orphan_recovery")

(***************************************************************************)
(* same_source_replan: the fastest healthy Replica of the frozen Source,   *)
(* the tier deciding (one Replica per tier is live, so ids never do).      *)
(***************************************************************************)
Speed == [gpu |-> 0, cpu |-> 1, ssd |-> 2]

(* Only attempts 1 and 2 are made for a registered Source.                 *)
CanSameSourceReplan(m, s, attempt) == attempt \in {1, 2} /\ m.source[s] # "absent"

SameSourceReplan(m, s, excluded) ==
    LET candidates == {r \in Replicas \ excluded :
                         SourceOf[r] = s /\ m.life[r] = "ready"}
    IN  IF candidates = {} THEN NoReplica
        ELSE CHOOSE r \in candidates :
               \A q \in candidates : Speed[TierOf[r]] <= Speed[TierOf[q]]

(***************************************************************************)
(* Claims about the manager's state, proved and checked in Leases.         *)
(***************************************************************************)
(* The counters release(), evict_replica() and purge_namespace() rely on   *)
(* (v8_leases.py:62, 336, 389, 398) count exactly the live leases of the   *)
(* lease table, whichever way a lease came to its present state.           *)
CountersMatch(m) ==
    /\ \A s \in Sources : m.logical[s] = Cardinality(LogicalHolders(m, s))
    /\ \A r \in Replicas : /\ m.refs[r] = Cardinality(Holders(m, r))
                           /\ m.copies[r] = Cardinality(Copiers(m, r))
                           /\ m.execs[r] = Cardinality(Executors(m, r))

(* A live physical lease names a Replica that has not been evicted or      *)
(* purged, and a live logical lease an active Source with a healthy        *)
(* backing Replica ("logical Source lease protects the last healthy        *)
(* backing", v8_leases.py:395).                                            *)
LeasesProtect(m) ==
    \A l \in Live(m) :
        LET lease == m.lease[l]
        IN  IF lease.replica # NoReplica
            THEN m.life[lease.replica] = "ready"
            ELSE /\ m.source[lease.source] = "active"
                 /\ HealthyBacking(m, lease.source) # {}

(* All leases ever granted to one segment of one request, logical or       *)
(* physical, name the same Source Variant.                                 *)
OneSourcePerSegment(m) ==
    \A k, l \in DOMAIN m.lease :
        /\ m.lease[k].owner = m.lease[l].owner
        /\ m.lease[k].segment = m.lease[l].segment
        => m.lease[k].source = m.lease[l].source

=============================================================================
