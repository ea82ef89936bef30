----------------------------- MODULE GlobalPool -----------------------------
(***************************************************************************)
(* GlobalSourcePool of v6 (src/probekv/global_source_pool.py): Sources of  *)
(* several models under global byte capacities, each with its canonical    *)
(* bytes on one tier and optional replicas on others, evicted by value     *)
(* when room is needed; and the model namespaces, of which one is active   *)
(* in single-model mode.                                                   *)
(*                                                                         *)
(* The value of a Source is a float that every record_* call moves, so     *)
(* among the Sources a search may take any is the least valuable; what is  *)
(* kept is who may be taken, and that Sources of a model over its soft     *)
(* quota go first.                                                         *)
(*                                                                         *)
(* Bounds: MaxActivity leases, copies and executions at once.              *)
(***************************************************************************)
EXTENDS Integers, FiniteSets, FiniteSetsExt, Functions

CONSTANTS
    PoolKeys,          \* (model, content, source) keys
    KeyModel, KeyContent, KeyHome, KeyBytes,
    Locations,
    TierCap,           \* tier_capacity_bytes
    CanonicalCap,      \* canonical_capacity_bytes
    VariantCap,        \* max_variants_per_content
    MinVariants,       \* min_variants_per_retained_content
    SoftQuota,         \* of each model, by location
    ProbationLookups,  \* probation_observations
    ReplicaSizes,
    ActivityKinds,     \* lease_count, copy_in_flight, execution_in_flight
    MaxActivity

PoolModels == {KeyModel[k] : k \in PoolKeys}

ASSUME GlobalPoolShape ==
    /\ IsFiniteSet(PoolKeys)
    /\ DOMAIN KeyModel = PoolKeys /\ DOMAIN KeyContent = PoolKeys
    /\ KeyHome \in [PoolKeys -> Locations] /\ KeyBytes \in [PoolKeys -> Nat]
    /\ TierCap \in [Locations -> Nat] /\ CanonicalCap \in Nat
    /\ SoftQuota \in [PoolModels -> [Locations -> Nat]]
    /\ MinVariants \in Nat \ {0} /\ VariantCap \in Nat /\ MinVariants <= VariantCap
    /\ ProbationLookups \in Nat /\ MaxActivity \in Nat
    /\ ReplicaSizes \subseteq Nat \ {0}

VARIABLES
    servingMode,
    space,             \* the state of each model namespace
    pooled             \* the registered Sources

globalVars == <<servingMode, space, pooled>>

NoReplicas == [t \in Locations |-> 0]
NewPooled == [replica |-> NoReplicas, seen |-> 0, work |-> [a \in ActivityKinds |-> 0]]

GlobalPoolInit ==
    /\ servingMode \in {"single", "multi"}
    /\ space = [m \in PoolModels |-> "unknown"]
    /\ pooled = <<>>

-----------------------------------------------------------------------------
(***************************************************************************)
(* Views of a pool p, a function from registered keys.                     *)
(***************************************************************************)
Regd(p) == DOMAIN p
AtWork(p, k) == \E a \in ActivityKinds : p[k].work[a] > 0
ModelAtWork(p, m) == \E k \in Regd(p) : KeyModel[k] = m /\ AtWork(p, k)
BucketOf(p, k) ==
    {j \in Regd(p) : KeyModel[j] = KeyModel[k] /\ KeyContent[j] = KeyContent[k]}

CanonicalUsed(p) == SumFunctionOnSet(KeyBytes, Regd(p))
BytesAt(p, t) ==
    [k \in Regd(p) |-> (IF KeyHome[k] = t THEN KeyBytes[k] ELSE 0) + p[k].replica[t]]
TierUsed(p, t) == SumFunction(BytesAt(p, t))
ModelTierUsed(p, m, t) ==
    SumFunctionOnSet(BytesAt(p, t), {k \in Regd(p) : KeyModel[k] = m})
OverQuota(p, k, t) == ModelTierUsed(p, KeyModel[k], t) > SoftQuota[KeyModel[k]][t]

(* Those a search by value may end with.                                   *)
QuotaFirst(p, K, t) ==
    LET over == {k \in K : OverQuota(p, k, t)} IN IF over = {} THEN K ELSE over

Without_(p, K) == [k \in Regd(p) \ K |-> p[k]]
DropReplica(p, k, t) == [p EXCEPT ![k].replica[t] = 0]

(* Mutant: probation is not respected.                                     *)
MayGoAtOnce(p, k) == ~AtWork(p, k)

MayGo(p, k) == ~AtWork(p, k) /\ p[k].seen >= ProbationLookups
Redundant(p, K) == {k \in K : Cardinality(BucketOf(p, k)) > MinVariants /\ MayGo(p, k)}

(* The contents of which every Source in K may go.                         *)
WholeContents(p, K) ==
    {C \in {K \cap BucketOf(p, k) : k \in K} : \A k \in C : MayGo(p, k)}

(***************************************************************************)
(* One turn of _make_tier_room_for_canonical and _make_canonical_room, as  *)
(* the set of pools it may leave; none when it raises MemoryError.         *)
(***************************************************************************)
TierTurn(p, t) ==
    LET replicas == {k \in Regd(p) : p[k].replica[t] > 0 /\ ~AtWork(p, k)}
        resident == {k \in Regd(p) : KeyHome[k] = t}
        redundant == Redundant(p, resident)
        contents == WholeContents(p, resident)
        over == {C \in contents : \E k \in C : OverQuota(p, k, t)}
    IN  IF replicas # {} THEN {DropReplica(p, k, t) : k \in QuotaFirst(p, replicas, t)}
        ELSE IF redundant # {} THEN {Without_(p, {k}) : k \in QuotaFirst(p, redundant, t)}
        ELSE {Without_(p, C) : C \in IF over = {} THEN contents ELSE over}

CanonicalTurn(p) ==
    LET redundant == Redundant(p, Regd(p))
    IN  IF redundant # {} THEN {Without_(p, {k}) : k \in redundant}
        ELSE {Without_(p, C) : C \in WholeContents(p, Regd(p))}

(***************************************************************************)
(* The loops go on in the pools without room.  Every turn takes a replica  *)
(* or a Source, so they end within MaxTurns; a turn that leaves no pool    *)
(* raises, and register() then restores everything.                        *)
(***************************************************************************)
MaxTurns == 2 * Cardinality(PoolKeys)

TierFull(p, t, required) == TierUsed(p, t) + required > TierCap[t]
CanonicalFull(p, required) == CanonicalUsed(p) + required > CanonicalCap

AfterTierTurn(P, t, required) ==
    LET full == {p \in P : TierFull(p, t, required)}
    IN  (P \ full) \cup UNION {TierTurn(p, t) : p \in full}

AfterCanonicalTurn(P, required) ==
    LET full == {p \in P : CanonicalFull(p, required)}
    IN  (P \ full) \cup UNION {CanonicalTurn(p) : p \in full}

(* The pools in which either loop ends, started from any of P.             *)
TierRoom(P, t, required) ==
    LET After[n \in 0..MaxTurns] ==
            IF n = 0 THEN P ELSE AfterTierTurn(After[n - 1], t, required)
    IN  {p \in After[MaxTurns] : ~TierFull(p, t, required)}

CanonicalRoom(P, required) ==
    LET After[n \in 0..MaxTurns] ==
            IF n = 0 THEN P ELSE AfterCanonicalTurn(After[n - 1], required)
    IN  {p \in After[MaxTurns] : ~CanonicalFull(p, required)}

-----------------------------------------------------------------------------
(***************************************************************************)
(* Sources.                                                                *)
(***************************************************************************)
(* register() under the cap on Variants of a content: one of them goes,    *)
(* unless that would leave fewer than the retained minimum.                *)
BelowVariantCap(p, k) ==
    LET bucket == BucketOf(p, k)
    IN  IF Cardinality(bucket) < VariantCap THEN {p}
        ELSE {Without_(p, {v}) : v \in Redundant(p, bucket)}

RegisterPooled(k) ==
    /\ space[KeyModel[k]] = "active" /\ k \notin Regd(pooled)
    /\ \E p \in CanonicalRoom(TierRoom(BelowVariantCap(pooled, k), KeyHome[k], KeyBytes[k]),
                               KeyBytes[k]) :
         pooled' = [j \in Regd(p) \cup {k} |-> IF j = k THEN NewPooled ELSE p[j]]
    /\ UNCHANGED <<servingMode, space>>

(* The replicas attach_replica() evicts: idle ones, in one sorted order    *)
(* with the models over quota first, each only while there is no room; all *)
(* of them when that is not enough, and it raises without putting them     *)
(* back.                                                                   *)
Displaced(p, k, t, size) ==
    LET idle == {j \in Regd(p) \ {k} : p[j].replica[t] > 0 /\ ~AtWork(p, j)}
        first == {j \in idle : OverQuota(p, j, t)}
        Fits(V) == TierUsed(p, t) - p[k].replica[t] + size
                     - MapThenSumSet(LAMBDA j : p[j].replica[t], V) <= TierCap[t]
        InOrder(V) == V \subseteq first \/ first \subseteq V
        Needed(V) == \E v \in V : InOrder(V \ {v}) /\ ~Fits(V \ {v})
    IN  IF Fits({}) THEN {{}}
        ELSE {V \in SUBSET idle : InOrder(V) /\ Needed(V) /\ (Fits(V) \/ V = idle)}
               \cup {V \in {idle} : idle = {}}

AttachReplicaTo(k, t, size) ==
    /\ k \in Regd(pooled) /\ KeyHome[k] # t
    /\ \E V \in Displaced(pooled, k, t, size) :
         LET p == [j \in Regd(pooled) |->
                     IF j \in V THEN [pooled[j] EXCEPT !.replica[t] = 0] ELSE pooled[j]]
             fits == TierUsed(p, t) - p[k].replica[t] + size <= TierCap[t]
         IN  pooled' = IF fits THEN [p EXCEPT ![k].replica[t] = size] ELSE p
    /\ UNCHANGED <<servingMode, space>>

(* record_comparison() ends the probation of a Source after a number of    *)
(* calls; the other counters only move its value.                          *)
RecordComparison(k) ==
    /\ k \in Regd(pooled) /\ pooled[k].seen < ProbationLookups
    /\ pooled' = [pooled EXCEPT ![k].seen = @ + 1]
    /\ UNCHANGED <<servingMode, space>>

-----------------------------------------------------------------------------
(***************************************************************************)
(* Namespaces.                                                             *)
(***************************************************************************)
(* begin_model_unload() on the namespaces n and a pool p.                  *)
Unloaded(n, p, m) ==
    LET state == IF n[m] = "active" THEN "draining" ELSE n[m]
    IN  [n EXCEPT ![m] = IF state = "draining" /\ ~ModelAtWork(p, m) THEN "retired" ELSE state]

(* Mutant: the end of the last work does not retire a draining model.      *)
UnloadedByCall(n, p, m) == n

(* What the end of a piece of work makes of the namespaces.                *)
AfterWork(n, p, m) == IF n[m] = "draining" THEN Unloaded(n, p, m) ELSE n

StartWork(k, a) ==
    /\ k \in Regd(pooled) /\ space[KeyModel[k]] = "active"
    /\ pooled[k].work[a] < MaxActivity
    /\ pooled' = [pooled EXCEPT ![k].work[a] = @ + 1]
    /\ UNCHANGED <<servingMode, space>>

FinishWork(k, a) ==
    /\ k \in Regd(pooled) /\ pooled[k].work[a] > 0
    /\ pooled' = [pooled EXCEPT ![k].work[a] = @ - 1]
    /\ space' = AfterWork(space, pooled', KeyModel[k])
    /\ UNCHANGED servingMode

NamespaceKnown(n, m) ==
    IF n[m] \in {"unknown", "deleted"} THEN [n EXCEPT ![m] = "retired"] ELSE n

Activated(n, m) ==
    LET r == NamespaceKnown(n, m)
        other == servingMode = "single" /\ \E x \in PoolModels \ {m} : r[x] = "active"
    IN  IF other \/ r[m] = "draining" THEN r ELSE [r EXCEPT ![m] = "active"]

(* register_namespace(), and activate_model(), which registers before it   *)
(* may raise.                                                              *)
RegisterNamespace(m) == space' = NamespaceKnown(space, m) /\ UNCHANGED <<servingMode, pooled>>
ActivateModel(m)     == space' = Activated(space, m) /\ UNCHANGED <<servingMode, pooled>>

BeginModelUnload(m) ==
    /\ space[m] # "unknown"
    /\ space' = Unloaded(space, pooled, m)
    /\ UNCHANGED <<servingMode, pooled>>

OfModels(p, M) == {k \in Regd(p) : KeyModel[k] \in M}

(* purge_model() of a model that is busy leaves it draining and raises, and *)
(* so does that of a deleted one.                                          *)
PurgeModel(m) ==
    /\ space[m] # "unknown"
    /\ LET n == Unloaded(space, pooled, m)
        IN  IF n[m] = "retired"
            THEN /\ space' = [n EXCEPT ![m] = "deleted"]
                 /\ pooled' = Without_(pooled, OfModels(pooled, {m}))
            ELSE space' = n /\ UNCHANGED pooled
    /\ UNCHANGED servingMode

(* switch_single_model() purges every other model in turn, in the order of *)
(* their registration; at the first busy one, which it leaves draining, it *)
(* gives up.  A model that is itself draining is not activated.            *)
SwitchSingleModel(m) ==
    LET others == {x \in PoolModels \ {m} : space[x] \notin {"unknown", "deleted"}}
        busy == {x \in others : ModelAtWork(pooled, x)}
        Purged(M) == [x \in PoolModels |-> IF x \in M THEN "deleted" ELSE space[x]]
    IN  /\ servingMode = "single"
        /\ \/ /\ busy = {}
              /\ space' = Activated(Purged(others), m)
              /\ pooled' = Without_(pooled, OfModels(pooled, others))
           \/ \E b \in busy, M \in SUBSET (others \ busy) :
                /\ space' = Unloaded(Purged(M), pooled, b)
                /\ pooled' = Without_(pooled, OfModels(pooled, M))
        /\ UNCHANGED servingMode

SourceStep ==
    \E k \in PoolKeys :
      \/ RegisterPooled(k)
      \/ \E t \in Locations, size \in ReplicaSizes : AttachReplicaTo(k, t, size)
      \/ RecordComparison(k)
      \/ \E a \in ActivityKinds : StartWork(k, a) \/ FinishWork(k, a)

NamespaceStep ==
    \E m \in PoolModels :
      RegisterNamespace(m) \/ ActivateModel(m) \/ BeginModelUnload(m) \/ PurgeModel(m)
        \/ SwitchSingleModel(m)

GlobalPoolNext == SourceStep \/ NamespaceStep

GlobalPoolSpec == GlobalPoolInit /\ [][GlobalPoolNext]_globalVars

-----------------------------------------------------------------------------
(* Whatever register() and attach_replica() displace, also when they fail  *)
(* half way, no tier and not the canonical pool exceeds its capacity.      *)
PoolsFit ==
    /\ CanonicalUsed(pooled) <= CanonicalCap
    /\ \A t \in Locations : TierUsed(pooled, t) <= TierCap[t]
    /\ \A k \in Regd(pooled) : Cardinality(BucketOf(pooled, k)) <= VariantCap

(* A model that drains has work in flight, so that the end of that work    *)
(* will retire it; one that is retired has none, one that is deleted has   *)
(* no Source left; and a single-model pool serves one model.               *)
DrainsToTheEnd ==
    /\ \A m \in PoolModels :
         /\ space[m] = "draining" => ModelAtWork(pooled, m)
         /\ space[m] = "retired" => ~ModelAtWork(pooled, m)
         /\ space[m] \in {"unknown", "deleted"} => OfModels(pooled, {m}) = {}
    /\ servingMode = "single" => Cardinality({m \in PoolModels : space[m] = "active"}) <= 1

(* "protects active leases/copies/executions" (global_source_pool.py:103): *)
(* a Source disappears, and a replica with it, only when nothing uses it,  *)
(* and unless its whole model is purged only after its probation.          *)
LossesAreIdle ==
    \A k \in Regd(pooled) :
      /\ k \notin Regd(pooled') =>
           /\ ~AtWork(pooled, k)
           /\ space'[KeyModel[k]] = "deleted" \/ pooled[k].seen >= ProbationLookups
      /\ k \in Regd(pooled') /\ AtWork(pooled, k) =>
           \A t \in Locations : pooled[k].replica[t] > 0 => pooled'[k].replica[t] > 0

(* The v6 pool keeps its capacities, and drains its models to the end.     *)
GlobalPoolHolds == PoolsFit /\ DrainsToTheEnd

(* What the v6 pool loses is idle.                                         *)
OnlyIdleIsLost == [][LossesAreIdle]_globalVars
=============================================================================
