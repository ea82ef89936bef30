------------------------------- MODULE Leases -------------------------------
(***************************************************************************)
(* V8LeaseManager (src/probekv/v8_leases.py) under every order of calls    *)
(* its users can make: several requests freeze Source Variants, bind and   *)
(* release Replicas, while the pool registers, evicts and purges, and a    *)
(* sweeper recovers expired leases as time passes.  mgr is the manager's   *)
(* state, now the monotonic clock its callers pass as now_s.               *)
(*                                                                         *)
(* Bounds: MaxLeases grants, times up to MaxTime, MaxPlacement incarnations *)
(* of one Replica id, batches of at most MaxBatch bindings.                *)
(***************************************************************************)
EXTENDS LeaseOps

CONSTANTS
    Remaining,     \* values of predicted_remaining_s
    Capacities,    \* values of hbm_capacity_bytes, NoCap for None
    MaxLeases, MaxTime, MaxPlacement, MaxBatch

ASSUME LeaseBounds ==
    /\ Remaining \subseteq Nat
    /\ Capacities \subseteq Nat \cup {NoCap}
    /\ {MaxLeases, MaxTime, MaxPlacement, MaxBatch} \subseteq Nat

VARIABLES mgr, now
vars == <<mgr, now>>

Requests == [segment : Segments, source : Sources, replica : Replicas,
             placement : 1..MaxPlacement,
             purpose : {"copy", "speculative", "execution"}]

Room(n) == Len(mgr.lease) + n <= MaxLeases

Init == mgr = EmptyManager /\ now = 0

Tick == now < MaxTime /\ now' = now + 1 /\ UNCHANGED mgr

DoRegisterSource(s) ==
    mgr' = RegisterSource(mgr, s) /\ UNCHANGED now

DoRegisterReplica(r, isBacking, lifecycle) ==
    /\ mgr.placement[r] < MaxPlacement
    /\ CanRegisterReplica(mgr, r, isBacking)
    /\ mgr' = RegisterReplica(mgr, r, isBacking, lifecycle)
    /\ UNCHANGED now

DoEvictReplica(r) ==
    /\ CanEvictReplica(mgr, r)
    /\ mgr' = EvictReplica(mgr, r)
    /\ UNCHANGED now

DoPurgeNamespace(n) ==
    /\ CanPurgeNamespace(mgr, n)
    /\ mgr' = PurgeNamespace(mgr, n)
    /\ UNCHANGED now

DoFreeze(o, g, s, remaining) ==
    /\ Room(1)
    /\ CanFreeze(mgr, o, g, s)
    /\ mgr' = FreezeAndAcquireLogical(mgr, o, g, s, remaining, now)
    /\ UNCHANGED now

DoLeaseBatch(o, reqs, remaining, cap) ==
    /\ Room(Len(reqs))
    /\ CanLeaseBatch(mgr, o, reqs, cap)
    /\ mgr' = LeaseBatch(mgr, o, reqs, remaining, now)
    /\ UNCHANGED now

DoMarkReady(l) ==
    /\ CanMarkReady(mgr, l)
    /\ mgr' = MarkPhysicalReady(mgr, l)
    /\ UNCHANGED now

DoPromote(l) ==
    /\ CanPromote(mgr, l)
    /\ mgr' = PromoteSpeculative(mgr, l)
    /\ UNCHANGED now

DoHeartbeat(l) ==
    /\ CanHeartbeat(mgr, l)
    /\ mgr' = Heartbeat(mgr, l, now)
    /\ UNCHANGED now

DoRelease(l) ==
    mgr' = Release(mgr, l, "request") /\ UNCHANGED now

DoRecoverExpired(liveOwners) ==
    mgr' = RecoverExpired(mgr, liveOwners, now) /\ UNCHANGED now

PoolStep ==
    \/ \E s \in Sources : DoRegisterSource(s)
    \/ \E r \in Replicas, b \in BOOLEAN : DoRegisterReplica(r, b, "ready")
    \/ \E r \in Replicas : DoEvictReplica(r)
    \/ \E n \in {NamespaceOf[s] : s \in Sources} : DoPurgeNamespace(n)

RequestStep ==
    \/ \E o \in Owners, g \in Segments, s \in Sources, p \in Remaining :
         DoFreeze(o, g, s, p)
    \/ \E o \in Owners, k \in 1..MaxBatch, p \in Remaining, cap \in Capacities :
         \E reqs \in [1..k -> {q \in Requests : Bindable(mgr, o, q)}] :
            DoLeaseBatch(o, reqs, p, cap)
    \/ \E l \in DOMAIN mgr.lease :
         \/ DoMarkReady(l)
         \/ DoPromote(l)
         \/ DoHeartbeat(l)
         \/ DoRelease(l)

SweeperStep == \E liveOwners \in SUBSET Owners : DoRecoverExpired(liveOwners)

Next == Tick \/ PoolStep \/ RequestStep \/ SweeperStep

Spec == Init /\ [][Next]_vars

(***************************************************************************)
(* Properties.                                                             *)
(***************************************************************************)
TypeOK == mgr \in ManagerStates /\ now \in Nat

(* The refcounts that guard eviction and purge never drift from the lease  *)
(* table, so release() cannot underflow and nothing stays busy for ever.   *)
Accounting == CountersMatch(mgr)

(* No eviction, purge, promotion or recovery takes a Replica or the last   *)
(* backing of a Source from under a live lease.                            *)
Protection == LeasesProtect(mgr)

(* A request never reads two Source Variants for one segment, even when it *)
(* released the first lease and froze again.                               *)
FrozenWinner == OneSourcePerSegment(mgr)

(* release() is final: no later heartbeat, promotion, sweep or release     *)
(* touches a released record, so its counters are given back once          *)
(* (v8_leases.py:326, 338, 369).                                           *)
ReleasedForGood ==
    [][\A l \in DOMAIN mgr.lease :
         mgr.lease[l].state = "released"
         => l \in DOMAIN mgr'.lease /\ mgr'.lease[l] = mgr.lease[l]]_vars

(* A sweep reclaims a lease no earlier than one TTL floor plus the orphan  *)
(* grace after its last heartbeat, however sweeps and heartbeats of live   *)
(* and dead owners interleave (v8_leases.py:359).                          *)
ReclaimedAfterGrace ==
    [][\A l \in DOMAIN mgr.lease :
         /\ mgr.lease[l].state # "released"
         /\ mgr'.lease[l].reason = "orphan_recovery"
         => now >= mgr.lease[l].heartbeat + TtlFloor + OrphanGrace]_vars

=============================================================================
