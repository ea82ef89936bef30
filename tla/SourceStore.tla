---------------------------- MODULE SourceStore ----------------------------
(***************************************************************************)
(* SourceStore of v3 to v5 (src/probekv/source_store.py): the Sources of a *)
(* segment under a limit of versions, and their replicas under the bytes   *)
(* of each tier, for every policy of both, with leases and the             *)
(* fixed-resident mode.  Clocks are kept as the order they give.           *)
(***************************************************************************)
EXTENDS Naturals, Sequences, FiniteSets, FiniteSetsExt, SequencesExt

CONSTANTS StoreSources,        \* source ids
          KeyOf, ContextOf,    \* model and content of each Source, its context_id
          HandleTier,          \* kv_location of each that has kv_handles
          TierCapacity,        \* tier_capacity_bytes
          ReplicaSizes, KMax,
          LeaseLimit           \* bound on the leases of each Source

VARIABLES storeMode,   \* eviction_policy, replica_eviction_policy, fixed_resident
          registered,  \* the Sources in order of registration
          recent,      \* the same Sources in order of last access
          leased,      \* lease_count of each
          replicas     \* bytes of each by tier

storeVars == <<storeMode, registered, recent, leased, replicas>>

StoreTiers == DOMAIN TierCapacity
InStore == ToSet(registered)
Bucket(s) == {t \in InStore : KeyOf[t] = KeyOf[s]}
At(tier) == {s \in InStore : tier \in DOMAIN replicas[s]}
Bytes(tier, S) == MapThenSumSet(LAMBDA s : replicas[s][tier], S)
Touch(s) == Append(SelectSeq(recent, LAMBDA t : t # s), s)
Before(order, s, t) ==
  \E i, j \in DOMAIN order : order[i] = s /\ order[j] = t /\ i < j

StoreInit ==
  /\ storeMode \in [version : {"reject_when_full", "fifo"},
                    replica : {"reject_when_full", "lru"}, fixed : BOOLEAN]
  /\ registered = <<>> /\ recent = <<>>
  /\ leased = [s \in StoreSources |-> 0] /\ replicas = [s \in StoreSources |-> <<>>]

-----------------------------------------------------------------------------
(* _evict_version_if_needed: nothing, or the oldest version nobody leases; *)
(* where there is none the call raises.                                    *)
Full(s) == Cardinality(Bucket(s)) >= KMax
MayEvictVersion == ~storeMode.fixed /\ storeMode.version = "fifo"
(* Mutant: the youngest one, as a sort in reverse would take.              *)
YoungestVersions(s) ==
  {v \in Bucket(s) : leased[v] = 0
     /\ \A t \in Bucket(s) \ {v} : leased[t] = 0 => Before(registered, t, v)}
OldestVersions(s) ==
  {v \in Bucket(s) : leased[v] = 0
     /\ \A t \in Bucket(s) \ {v} : leased[t] = 0 => Before(registered, v, t)}

(* Registering a Source again changes nothing.                             *)
RegisterVersion(s) ==
  /\ s \notin InStore
  /\ \A t \in Bucket(s) : ContextOf[t] # ContextOf[s]
  /\ Full(s) => MayEvictVersion
  /\ \E gone \in IF Full(s) THEN {{v} : v \in OldestVersions(s)} ELSE {{}} :
       /\ registered' = Append(SelectSeq(registered, LAMBDA t : t \notin gone), s)
       /\ recent' = Append(SelectSeq(recent, LAMBDA t : t \notin gone), s)
       /\ replicas' = [t \in StoreSources |->
            IF t \in gone THEN <<>>
            ELSE IF t = s THEN [tier \in HandleTier[s] |-> 0] ELSE replicas[t]]
  /\ UNCHANGED <<storeMode, leased>>

GetSource(s) ==
  /\ s \in InStore /\ recent' = Touch(s)
  /\ UNCHANGED <<storeMode, registered, leased, replicas>>

LeaseSource(s) ==
  /\ s \in InStore /\ leased[s] < LeaseLimit[s]
  /\ leased' = [leased EXCEPT ![s] = @ + 1] /\ recent' = Touch(s)
  /\ UNCHANGED <<storeMode, registered, replicas>>

ReleaseSource(s) ==
  /\ s \in InStore /\ leased[s] > 0
  /\ leased' = [leased EXCEPT ![s] = @ - 1] /\ recent' = Touch(s)
  /\ UNCHANGED <<storeMode, registered, replicas>>

Victims(s, tier) == {v \in At(tier) \ {s} : leased[v] = 0}

Required(s, tier, size) == Bytes(tier, At(tier) \ {s}) + size
(* The least recently used victims, until the new replica fits.            *)
EvictedFor(s, tier, size) ==
  LET V == Victims(s, tier)
  IN  {v \in V : Required(s, tier, size)
         > TierCapacity[tier] + Bytes(tier, {u \in V : Before(recent, u, v)})}

(* All or nothing: it raises before it evicts.                             *)
AttachReplica(s, tier, size) ==
  /\ s \in InStore
  /\ Required(s, tier, size) > TierCapacity[tier] =>
       /\ ~storeMode.fixed /\ storeMode.replica = "lru"
       /\ Required(s, tier, size) <= TierCapacity[tier] + Bytes(tier, Victims(s, tier))
  /\ LET gone == EvictedFor(s, tier, size)
     IN  replicas' = [t \in StoreSources |->
           LET kept == DOMAIN replicas[t] \ (IF t \in gone THEN {tier} ELSE {})
           IN  [u \in kept \cup (IF t = s THEN {tier} ELSE {}) |->
                  IF t = s /\ u = tier THEN size ELSE replicas[t][u]]]
  /\ recent' = Touch(s)
  /\ UNCHANGED <<storeMode, registered, leased>>

DetachReplica(s, tier) ==
  /\ s \in InStore /\ ~storeMode.fixed /\ leased[s] = 0
  /\ replicas' = [replicas EXCEPT ![s] = [u \in DOMAIN @ \ {tier} |-> @[u]]]
  /\ UNCHANGED <<storeMode, registered, recent, leased>>

StoreNext ==
  \E s \in StoreSources :
    \/ RegisterVersion(s) \/ GetSource(s) \/ LeaseSource(s) \/ ReleaseSource(s)
    \/ \E tier \in StoreTiers :
         DetachReplica(s, tier) \/ \E size \in ReplicaSizes : AttachReplica(s, tier, size)

StoreSpec == StoreInit /\ [][StoreNext]_storeVars

-----------------------------------------------------------------------------
(* A version goes only to make room for one of its content in a full       *)
(* bucket, alone, and before every unleased version registered later       *)
(* (_evict_version_if_needed).                                             *)
VersionsGoByAge ==
  \A v \in InStore \ InStore' :
    /\ MayEvictVersion /\ Full(v) /\ InStore \ InStore' = {v}
    /\ \E s \in InStore' \ InStore : KeyOf[s] = KeyOf[v]
    /\ \A u \in Bucket(v) \ {v} : leased[u] = 0 => Before(registered, v, u)

(* A replica goes because it is detached, or under LRU because another one *)
(* is placed on its tier; then what is unleased and keeps its replica was  *)
(* used later, and the tier would overflow had the eviction stopped short  *)
(* of it (attach_replica).                                                 *)
Lost(tier) == {v \in InStore \cap InStore' : tier \in DOMAIN replicas[v] \ DOMAIN replicas'[v]}
Placed(tier) == {s \in InStore' : /\ tier \in DOMAIN replicas'[s]
                                  /\ tier \in DOMAIN replicas[s] => replicas'[s][tier] # replicas[s][tier]}
ReplicasGoByUse ==
  \A tier \in StoreTiers : \A v \in Lost(tier) :
    \/ DetachReplica(v, tier)
    \/ /\ storeMode.replica = "lru" /\ Placed(tier) # {}
       /\ \A u \in At(tier) \ (Lost(tier) \cup Placed(tier)) :
            leased[u] = 0 => Before(recent, v, u)
       /\ Bytes(tier, At(tier))' + Bytes(tier, {u \in Lost(tier) : u = v \/ Before(recent, v, u)})
            > TierCapacity[tier]

(* The store stays within its limits, and a call takes from it neither     *)
(* what is leased nor, in the fixed-resident mode, anything; versions go   *)
(* by age, and replicas by use, each only where there is no room.          *)
StoreStep ==
  /\ \A s \in InStore' :
       /\ Cardinality({t \in InStore' : KeyOf[t] = KeyOf[s]}) <= KMax
       /\ \A t \in InStore' : KeyOf[t] = KeyOf[s] /\ ContextOf[t] = ContextOf[s] => s = t
  /\ \A tier \in StoreTiers : Bytes(tier, At(tier))' <= TierCapacity[tier]
  /\ \A s \in InStore :
       leased[s] > 0 \/ storeMode.fixed =>
         s \in InStore' /\ DOMAIN replicas[s] \subseteq DOMAIN replicas'[s]
  /\ VersionsGoByAge /\ ReplicasGoByUse
StoreKeeps == [][StoreStep]_storeVars
=============================================================================
