----------------------------- MODULE SourcePool -----------------------------
(***************************************************************************)
(* Schema10SourcePool (src/probekv/v8_schema10_pool.py), which is          *)
(* V7SourcePool (v7_source_pool.py) with bounded probation, and the        *)
(* materialization controller that decides which Source Variants it gets   *)
(* (v8_schema10_materialization.py).  A content bucket holds a bounded     *)
(* number of Variants; each has one Artifact and at most one live Replica  *)
(* on a tier; tiers are bounded as well.                                   *)
(*                                                                         *)
(* The pool's clock only orders events, so the epochs it stamps are kept   *)
(* as the orders themselves: registered, accessed and used are the pairs   *)
(* of a Variant of the pool and a newer one. Placement epochs and          *)
(* generations, which bind_replica compares, are not kept, nor are the     *)
(* digests that Artifacts and Replicas must agree on.                      *)
(*                                                                         *)
(* The runtime decides and publishes in one call; they are two steps here, *)
(* as publication expects (it refuses what went stale in between), and     *)
(* running them back to back is one of the interleavings.                  *)
(*                                                                         *)
(* Bounds: MaxObservations observations of a Variant; MaxInFlight uses of  *)
(* Replicas and admitted, unpublished materializations at a time.          *)
(***************************************************************************)
EXTENDS Integers, FiniteSets, FiniteSetsExt

CONSTANTS
    Models, Contents, Variants,
    ModelOf,       \* the model-math signature of a content key
    ContentOf,     \* the content key of a Source Variant
    BytesOf,       \* the size of a Replica of a Variant
    PoolTiers,     \* the tiers in use
    CapacityOf,    \* tier_capacity_bytes
    MaxVariants,   \* max_variants_per_content
    MaxProtected,  \* max_protected_probation_per_content
    EnoughObservations,  \* probation_observations
    LookupWindow,  \* probation_lookup_opportunities
    PriorSaved,    \* prior_saved_ms
    ExplorationQuota,    \* exploration_quota_per_content
    Observed,      \* the stages that observations are made to reach
    Uses,          \* the ways in which Replicas are used
    MaxObservations, MaxInFlight, NoVictim

ASSUME PoolConstants ==
    /\ ModelOf \in [Contents -> Models]
    /\ ContentOf \in [Variants -> Contents]
    /\ BytesOf \in [Variants -> Nat]
    /\ CapacityOf \in [PoolTiers -> Nat]
    /\ MaxVariants \in 1..16
    /\ {MaxProtected, EnoughObservations, PriorSaved, ExplorationQuota,
        MaxObservations, MaxInFlight} \subseteq Nat
    /\ Observed \subseteq 1..5 /\ Uses \subseteq {"lease", "copy", "exec"}
    /\ LookupWindow \in Nat \ {0}
    /\ NoVictim \notin Variants

VARIABLES
    namespace,   \* the state of each model's namespace
    variant,     \* the stored Variants
    registered, accessed, used,   \* orders of the stored Variants
    decisions    \* admitted materializations, not yet published

orders == <<registered, accessed, used>>
vars == <<namespace, variant, orders, decisions>>

NamespaceStates == {"unknown", "retired", "active", "deleted"}
Maturities == {"probation", "verified", "expired"}
MaterializationReasons == {"content_miss", "mismatch", "exploration"}

ReplicaRecords == [live : BOOLEAN, backing : BOOLEAN, lease : 0..1, copy : 0..1, exec : 0..1]
Stats == [lookups : Nat, hits : Nat, comparisons : Nat, selections : Nat, saved : Nat]
Stored == [state : {"active", "evicted"}, artifact : BOOLEAN,
           replica : [PoolTiers -> ReplicaRecords], maturity : Maturities,
           protected : BOOLEAN, window : Nat, stats : Stats,
           reason : MaterializationReasons]

NoPlacement == [live |-> FALSE, backing |-> FALSE, lease |-> 0, copy |-> 0, exec |-> 0]
NotStored == [state |-> "absent"]

NewVariant(reason) ==
    [state |-> "active", artifact |-> FALSE, replica |-> [t \in PoolTiers |-> NoPlacement],
     maturity |-> "probation", protected |-> TRUE, window |-> 0,
     stats |-> [lookups |-> 0, hits |-> 0, comparisons |-> 0, selections |-> 0, saved |-> 0],
     reason |-> reason]

Init ==
    /\ namespace = [m \in Models |-> "unknown"]
    /\ variant = [v \in Variants |-> NotStored]
    /\ registered = {} /\ accessed = {} /\ used = {}
    /\ decisions = {}

-----------------------------------------------------------------------------
(* Reading the pool P, the function of stored Variants.                    *)
InPool(P) == {v \in Variants : P[v].state # "absent"}
Bucket(P, c) == {v \in InPool(P) : ContentOf[v] = c}
LiveOn(P, v) == {t \in PoolTiers : P[v].replica[t].live}

InUseOf(r) == r.lease + r.copy + r.exec
BusyReplica(r) == InUseOf(r) > 0
ReadyReplica(r) == r.live /\ ~BusyReplica(r)
(* READY or LEASED: _refresh_busy_state lets a copy or an execution hide   *)
(* the leases of a Replica.                                                *)
HealthyReplica(r) == r.live /\ r.copy = 0 /\ r.exec = 0

BusyVariant(P, v) == \E t \in PoolTiers : BusyReplica(P[v].replica[t])
LiveBacking(P, v) == {t \in LiveOn(P, v) : P[v].replica[t].backing}

(* _probation_protected, of a bounded probation.                           *)
ProtectedVariant(P, v) == P[v].maturity = "probation" /\ P[v].protected

ResidentBytes(P, v) == Cardinality(LiveOn(P, v)) * BytesOf[v]
TierUsage(P, t) == MapThenSumSet(LAMBDA v : BytesOf[v], {v \in InPool(P) : t \in LiveOn(P, v)})

(* value_density(v) < value_density(w), the quotients multiplied out.      *)
Numerator(s) == (s.hits + 1) * (s.selections + 1) * (s.saved + PriorSaved)
Denominator(P, v) ==
    LET s == P[v].stats
        bytes == ResidentBytes(P, v)
    IN  (s.lookups + 2) * (s.comparisons + 2) * (s.selections + 2)
        * (IF bytes = 0 THEN 1 ELSE bytes)
WorthLess(P, v, w) ==
    Numerator(P[v].stats) * Denominator(P, w) < Numerator(P[w].stats) * Denominator(P, v)

Before(order, v, w) == <<v, w>> \in order

(* The one Variant of least value, as a set.                               *)
LowestValue(P, S) ==
    {v \in S : \A w \in S \ {v} :
        WorthLess(P, v, w) \/ (~WorthLess(P, w, v) /\ Before(accessed, v, w))}

Replaceable(P, c) == {v \in Bucket(P, c) : ~BusyVariant(P, v) /\ ~ProtectedVariant(P, v)}

(* plan_variant_replacement of schema 10 for a full bucket; NoVictim for   *)
(* its MemoryError, which decide_with_pool takes for no victim.            *)
LruVictim(P, c) ==
    LET S == Replaceable(P, c)
    IN  IF S = {} THEN NoVictim
        ELSE CHOOSE v \in S : \A w \in S \ {v} : Before(used, v, w)

ExplorationCount(P, c) == Cardinality({v \in Bucket(P, c) : P[v].reason = "exploration"})

-----------------------------------------------------------------------------
(* Changing the pool.                                                      *)
Without(order, S) == {p \in order : p[1] \notin S /\ p[2] \notin S}
Newest(order, S, v) == Without(order, {v}) \cup ((S \ {v}) \X {v})
Touched(order, v) == Newest(order, InPool(variant), v)

DeleteReplica(s, t) ==
    LET rest == [s.replica EXCEPT ![t] = NoPlacement]
    IN  [s EXCEPT !.replica = rest,
                  !.state = IF \E u \in PoolTiers : HealthyReplica(rest[u]) THEN @ ELSE "evicted"]

(* Mutant: a busy Replica, or the backing of a protected Variant, may go.  *)
EvictableAnyway(P, t) == {v \in InPool(P) : t \in LiveOn(P, v)}

(* The Replicas _ensure_capacity deletes from tier t for a new one: copies *)
(* before backings, then by value, then by access, until it fits or none   *)
(* is left.                                                                *)
Evictable(P, t) ==
    {v \in InPool(P) : /\ ReadyReplica(P[v].replica[t])
                       /\ P[v].replica[t].backing => ~ProtectedVariant(P, v)}

DeletedSooner(P, t, v, w) ==
    LET copy(x) == ~P[x].replica[t].backing
    IN  \/ copy(v) /\ ~copy(w)
        \/ /\ copy(v) = copy(w)
           /\ \/ WorthLess(P, v, w)
              \/ ~WorthLess(P, w, v) /\ Before(accessed, v, w)

(* Mutant: the incoming bytes are not counted.                             *)
FitsBefore(P, t, deleted, bytes) ==
    TierUsage(P, t) - MapThenSumSet(LAMBDA v : BytesOf[v], deleted) <= CapacityOf[t]

Fits(P, t, deleted, bytes) ==
    TierUsage(P, t) - MapThenSumSet(LAMBDA v : BytesOf[v], deleted) + bytes <= CapacityOf[t]

MadeRoom(P, t, bytes) ==
    LET C == Evictable(P, t)
        enough == {S \in SUBSET C : /\ \A v \in S, w \in C \ S : DeletedSooner(P, t, v, w)
                                    /\ Fits(P, t, S, bytes)}
    IN  IF enough = {} THEN C
        ELSE CHOOSE S \in enough : \A R \in enough : Cardinality(S) <= Cardinality(R)

(* Mutant: a newer Variant does not end the protection of an older one.    *)
BoundNothing(P, order, c) == P

(* _bound_probation_protection: the newest Variants on probation of a      *)
(* bucket are protected; order is the one of registration.                 *)
BoundProtection(P, order, c) ==
    LET rows == {v \in Bucket(P, c) : P[v].maturity = "probation"}
        newer(v) == {w \in rows : Before(order, v, w)}
    IN  [v \in Variants |->
           IF v \in rows
           THEN [P[v] EXCEPT !.protected = Cardinality(newer(v)) < MaxProtected]
           ELSE P[v]]

InFlight ==
    LET uses(v) == MapThenSumSet(LAMBDA t : InUseOf(variant[v].replica[t]), PoolTiers)
    IN  Cardinality(decisions) + MapThenSumSet(uses, InPool(variant))

-----------------------------------------------------------------------------
(* Namespaces, one model being served at a time.                           *)
Registered(m) == IF namespace[m] \in {"unknown", "deleted"} THEN "retired" ELSE namespace[m]

ActivateNamespace(m) ==
    /\ namespace' = [namespace EXCEPT ![m] =
          IF \E n \in Models \ {m} : namespace[n] = "active" THEN Registered(m) ELSE "active"]
    /\ UNCHANGED <<variant, orders, decisions>>

Purgeable(S) ==
    \A v \in InPool(variant) : ModelOf[ContentOf[v]] \in S => ~BusyVariant(variant, v)

(* Every Variant of the models in S leaves the pool.                       *)
Purged(S) ==
    LET gone == {v \in InPool(variant) : ModelOf[ContentOf[v]] \in S}
    IN  /\ variant' = [v \in Variants |-> IF v \in gone THEN NotStored ELSE variant[v]]
        /\ registered' = Without(registered, gone)
        /\ accessed' = Without(accessed, gone)
        /\ used' = Without(used, gone)

DeleteNamespace(m) ==
    /\ namespace[m] # "unknown"
    /\ Purgeable({m})
    /\ Purged({m})
    /\ namespace' = [namespace EXCEPT ![m] = "deleted"]
    /\ UNCHANGED decisions

SwitchModel(m) ==
    LET old == {n \in Models \ {m} : namespace[n] = "active"}
    IN  /\ Purgeable(old)
        /\ Purged(old)
        /\ namespace' = [n \in Models |-> IF n = m THEN "active"
                                          ELSE IF n \in old THEN "deleted" ELSE namespace[n]]
        /\ UNCHANGED decisions

-----------------------------------------------------------------------------
(* Artifacts and Replicas.                                                 *)
RegisterArtifact(v) ==
    /\ v \in InPool(variant)
    /\ ~variant[v].artifact
    /\ variant' = [variant EXCEPT ![v].artifact = TRUE]
    /\ UNCHANGED <<namespace, orders, decisions>>

(* wanted is is_backing, "default" for None.  When room cannot be made the *)
(* evictions stay, although nothing is attached.                           *)
AttachReplica(v, t, wanted) ==
    LET backing == IF wanted = "default" THEN LiveBacking(variant, v) = {} ELSE wanted = "backing"
        deleted == MadeRoom(variant, t, BytesOf[v])
        roomy == [w \in Variants |-> IF w \in deleted THEN DeleteReplica(variant[w], t)
                                                      ELSE variant[w]]
    IN  /\ v \in InPool(variant)
        /\ variant[v].artifact
        /\ t \notin LiveOn(variant, v)
        /\ backing => LiveBacking(variant, v) = {}
        /\ variant' = IF Fits(variant, t, deleted, BytesOf[v])
                      THEN [roomy EXCEPT ![v].replica[t] = [NoPlacement EXCEPT !.live = TRUE,
                                                                             !.backing = backing]]
                      ELSE roomy
        /\ UNCHANGED <<namespace, orders, decisions>>

(* lease_replica, copy_replica and execute_replica enter and leave.        *)
Enter(v, t, counter) ==
    LET r == variant[v].replica[t]
    IN  /\ InFlight < MaxInFlight
        /\ v \in InPool(variant)
        /\ IF counter = "lease" THEN ReadyReplica(r) ELSE HealthyReplica(r)
        /\ variant' = [variant EXCEPT ![v].replica[t][counter] = @ + 1]
        /\ UNCHANGED <<namespace, orders, decisions>>

Leave(v, t, counter) ==
    /\ v \in InPool(variant)
    /\ variant[v].replica[t][counter] > 0
    /\ variant' = [variant EXCEPT ![v].replica[t][counter] = @ - 1]
    /\ UNCHANGED <<namespace, orders, decisions>>

BindReplica(v, t) ==
    /\ v \in InPool(variant)
    /\ ReadyReplica(variant[v].replica[t])
    /\ accessed' = Touched(accessed, v)
    /\ used' = Touched(used, v)
    /\ UNCHANGED <<namespace, variant, registered, decisions>>

-----------------------------------------------------------------------------
(* Observations and probation.  An observation reaches a stage of the      *)
(* lookup, and every earlier one: it looked the content up (1), hit the    *)
(* Variant (2), compared (3), selected (4) and admitted it (5).            *)
Observe(x, stage) ==
    LET s == x.stats
        reached(k) == IF stage >= k THEN 1 ELSE 0
        stats == [lookups |-> s.lookups + 1, hits |-> s.hits + reached(2),
                  comparisons |-> s.comparisons + reached(3),
                  selections |-> s.selections + reached(4), saved |-> s.saved + reached(5)]
        verified == stats.comparisons >= EnoughObservations
    IN  [x EXCEPT !.stats = stats,
                  !.maturity = IF verified THEN "verified" ELSE @,
                  !.protected = @ /\ ~verified]

RecordObservation(v, stage) ==
    /\ v \in InPool(variant)
    /\ variant[v].stats.lookups < MaxObservations
    /\ variant' = [variant EXCEPT ![v] = Observe(@, stage)]
    /\ accessed' = Touched(accessed, v)
    /\ used' = IF stage >= 4 THEN Touched(used, v) ELSE used
    /\ UNCHANGED <<namespace, registered, decisions>>

(* One more lookup of its content that a Variant on probation went through.*)
LookedUp(x) ==
    LET expires == /\ x.stats.comparisons < EnoughObservations
                   /\ x.window + 1 >= LookupWindow
    IN  [x EXCEPT !.window = @ + 1,
                  !.maturity = IF expires THEN "expired" ELSE @,
                  !.protected = @ /\ ~expires]

FinishContentLookup(c) ==
    /\ variant' = [v \in Variants |->
          IF v \in Bucket(variant, c) /\ variant[v].maturity = "probation"
          THEN LookedUp(variant[v]) ELSE variant[v]]
    /\ UNCHANGED <<namespace, orders, decisions>>

-----------------------------------------------------------------------------
(* Materialization.                                                        *)
Full(c) == Cardinality(Bucket(variant, c)) >= MaxVariants

Admits(c, reason, victim) ==
    CASE reason = "content_miss" -> ~Full(c)
      [] reason = "mismatch"     -> Full(c) => victim # NoVictim
      [] reason = "exploration"  -> ~Full(c) /\ ExplorationCount(variant, c) < ExplorationQuota

Decide(v, reason) ==
    LET c == ContentOf[v]
        victim == IF reason = "mismatch" /\ Full(c) THEN LruVictim(variant, c) ELSE NoVictim
    IN  /\ InFlight < MaxInFlight
        /\ Admits(c, reason, victim)
        /\ decisions' = decisions \cup {[source |-> v, reason |-> reason, victim |-> victim]}
        /\ UNCHANGED <<namespace, variant, orders>>

(* The Variants register_variant evicts for decision d, at most one, and   *)
(* the conditions under which it refuses.                                  *)
Replaced(d) == {d.victim} \ {NoVictim}

Publishable(d) ==
    LET c == ContentOf[d.source]
        S == Replaceable(variant, c)
    IN  /\ namespace[ModelOf[c]] = "active"
        /\ IF Full(c)
           THEN d.victim # NoVictim /\ d.victim \in LowestValue(variant, S)
           ELSE d.victim = NoVictim

Publish(d) ==
    LET v == d.source
        gone == Replaced(d)
        stored == [w \in Variants |-> IF w = v THEN NewVariant(d.reason)
                                      ELSE IF w \in gone THEN NotStored ELSE variant[w]]
        kept == InPool(variant) \ gone
        order == Newest(Without(registered, gone), kept, v)
    IN  /\ v \notin InPool(variant)
        /\ Publishable(d)
        /\ registered' = order
        /\ accessed' = Newest(Without(accessed, gone), kept, v)
        /\ used' = Newest(Without(used, gone), kept, v)
        /\ variant' = BoundProtection(stored, order, ContentOf[v])
        /\ decisions' = decisions \ {d}
        /\ UNCHANGED namespace

(* Publication of a Variant that is already stored.                        *)
PublishStored(d) ==
    LET v == d.source
    IN  /\ v \in InPool(variant)
        /\ namespace[ModelOf[ContentOf[v]]] = "active"
        /\ variant[v].reason = d.reason
        /\ accessed' = Touched(accessed, v)
        /\ decisions' = decisions \ {d}
        /\ UNCHANGED <<namespace, variant, registered, used>>

(* register_variant raises, and the decision is lost.                      *)
PublicationRefused(d) ==
    LET v == d.source
    IN  /\ IF v \in InPool(variant)
           THEN namespace[ModelOf[ContentOf[v]]] # "active" \/ variant[v].reason # d.reason
           ELSE ~Publishable(d)
        /\ decisions' = decisions \ {d}
        /\ UNCHANGED <<namespace, variant, orders>>

-----------------------------------------------------------------------------
Next ==
    \/ \E m \in Models : ActivateNamespace(m) \/ DeleteNamespace(m) \/ SwitchModel(m)
    \/ \E v \in Variants : RegisterArtifact(v)
    \/ \E v \in Variants, t \in PoolTiers, wanted \in {"default", "backing", "copy"} :
          AttachReplica(v, t, wanted)
    \/ \E v \in Variants, t \in PoolTiers, counter \in Uses :
          Enter(v, t, counter) \/ Leave(v, t, counter)
    \/ \E v \in Variants, t \in PoolTiers : BindReplica(v, t)
    \/ \E v \in Variants, stage \in Observed : RecordObservation(v, stage)
    \/ \E c \in Contents : FinishContentLookup(c)
    \/ \E v \in Variants, reason \in MaterializationReasons : Decide(v, reason)
    \/ \E d \in decisions : Publish(d) \/ PublishStored(d) \/ PublicationRefused(d)

Spec == Init /\ [][Next]_vars

-----------------------------------------------------------------------------
(* The types: counters of a Replica stay at zero or one because a second   *)
(* lease, copy or execution is refused, and each of the three orders ranks *)
(* exactly the Variants stored (v7_source_pool.py:204-272, 778-798).       *)
Ranks(order, S) ==
    /\ order \subseteq S \X S
    /\ \A v \in S : ~Before(order, v, v)
    /\ \A v, w \in S : v # w => (Before(order, v, w) <=> ~Before(order, w, v))
    /\ \A u, v, w \in S : Before(order, u, v) /\ Before(order, v, w) => Before(order, u, w)
TypeOK ==
    /\ namespace \in [Models -> NamespaceStates]
    /\ variant \in [Variants -> Stored \cup {NotStored}]
    /\ \A order \in {registered, accessed, used} : Ranks(order, InPool(variant))
    /\ decisions \subseteq [source : Variants, reason : MaterializationReasons,
                             victim : Variants \cup {NoVictim}]

(* No tier holds more bytes than its capacity, whatever was evicted to     *)
(* make room or survived because it was busy (_ensure_capacity,            *)
(* v7_source_pool.py:704-735).                                             *)
CapacityKept == \A t \in PoolTiers : TierUsage(variant, t) <= CapacityOf[t]

(* Decisions that raced each other do not push a bucket over its limit:    *)
(* publication checks the limit again (v7_source_pool.py:236-252).         *)
ContentLimit == \A c \in Contents : Cardinality(Bucket(variant, c)) <= MaxVariants

(* A bucket has few protected Variants, though they are verified, expired  *)
(* and replaced in any order (_bound_probation_protection,                 *)
(* v7_source_pool.py:464-492).                                             *)
ProtectedFew ==
    \A c \in Contents :
        Cardinality({v \in Bucket(variant, c) : ProtectedVariant(variant, v)}) <= MaxProtected

(* What is busy keeps its Replicas, and a Variant in its grace period its  *)
(* backing and its place, whatever evictions, replacements and switches    *)
(* happen around it; only a purge of its namespace ends the grace          *)
(* (v7_source_pool.py:704-798).                                            *)
GraceStep ==
    \A v \in InPool(variant) :
        /\ \A t \in PoolTiers : BusyReplica(variant[v].replica[t]) =>
              v \in InPool(variant') /\ t \in LiveOn(variant', v)
        /\ \/ namespace'[ModelOf[ContentOf[v]]] = "deleted"
           \/ ProtectedVariant(variant, v) =>
                 /\ v \in InPool(variant')
                 /\ LiveBacking(variant, v) \subseteq LiveBacking(variant', v)
GraceKept == [][GraceStep]_vars

(* A Variant leaves the pool with its namespace or as the victim an        *)
(* admitted mismatch named; a content miss or an exploration never         *)
(* replaces one ("Content miss and budget-truncated exploration cannot     *)
(* silently evict a Variant", docs/PROBEKV_V8_SCHEMA10_PLAN.md:50).        *)
VictimStep ==
    \A v \in InPool(variant) : v \notin InPool(variant') =>
        \/ namespace'[ModelOf[ContentOf[v]]] = "deleted"
        \/ \E d \in decisions \ decisions' : d.victim = v /\ d.reason = "mismatch"
NamedVictim == [][VictimStep]_vars

(* A content has no more Variants than its limit, however decisions raced, *)
(* of which few are protected, in whatever order they were verified,       *)
(* expired and replaced.                                                   *)
VariantLimits == ContentLimit /\ ProtectedFew

(* What the pool evicts is idle and past its grace, and is the Variant an  *)
(* admitted mismatch named.                                                *)
EvictionsJustified == GraceKept /\ NamedVictim

(* "Within one canonical Segment/content bucket, the replacement victim is *)
(* the Source Variant with the oldest real request-use epoch"              *)
(* (docs/PROBEKV_V8_SCHEMA10_PLAN.md:53): a decision whose victim is still *)
(* that one is not refused as stale.  Violated: register_variant compares  *)
(* it with the Variant of least value (v7_source_pool.py:243-249).         *)
LruReplaces ==
    \A d \in decisions :
        LET c == ContentOf[d.source]
        IN  /\ d.victim # NoVictim /\ d.source \notin InPool(variant)
            /\ namespace[ModelOf[c]] = "active"
            /\ Full(c)
            /\ d.victim = LruVictim(variant, c)
            => Publishable(d)
=============================================================================
