--------------------------- MODULE StorageProofs ---------------------------
(***************************************************************************)
(* Theorems about what holds Sources.  The pool of v7: what its tiers and  *)
(* its contents hold is within their limits, and what it evicts is idle,   *)
(* past its grace, and named by an admitted decision.  The global pool of  *)
(* v6: its tiers, its canonical bytes and its Variants stay within their   *)
(* limits, a namespace drains only while there is work on it, and no step  *)
(* loses a Source or a replica that is in use.  The tiered backing of      *)
(* schema 8: its policy overfills no tier and displaces the least recent,  *)
(* and its coordinator keeps one backing of a Source through migrations.   *)
(***************************************************************************)
EXTENDS SourcePool, GlobalPool, BackingCoordinator, LeaseOpsProofs, FoldLemmas, TLAPS

(* Something that is older than all others exists.                         *)
LEMMA OldestExists ==
    ASSUME NEW S, IsFiniteSet(S), S # {}, NEW order, NEW T, Ranks(order, T), S \subseteq T
    PROVE  \E v \in S : \A w \in S \ {v} : Before(order, v, w)
<1> DEFINE F == {s \in SUBSET S : s = {} \/ \E v \in s : \A w \in s \ {v} : Before(order, v, w)}
<1>1. {} \in F
  OBVIOUS
<1>2. ASSUME NEW s \in SUBSET S, s # {}, \A x \in s : s \ {x} \in F PROVE s \in F
  <2>1. PICK x \in s : TRUE
    BY <1>2
  <2> DEFINE r == s \ {x}
  <2>2. CASE r = {}
    BY <2>1, <2>2
  <2>3. CASE r # {}
    <3>1. PICK v \in r : \A w \in r \ {v} : Before(order, v, w)
      BY <1>2, <2>1, <2>3
    <3>2. CASE Before(order, v, x)
      BY <2>1, <3>1, <3>2
    <3>3. CASE ~Before(order, v, x)
      <4>1. Before(order, x, v)
        BY <2>1, <3>1, <3>3 DEF Ranks
      <4>2. \A w \in r \ {v} : Before(order, x, w)
        BY <2>1, <3>1, <4>1 DEF Ranks
      <4> QED BY <2>1, <4>1, <4>2
    <3> QED BY <3>2, <3>3
  <2> QED BY <2>2, <2>3
<1> HIDE DEF F
<1>3. S \in F
  BY <1>1, <1>2, SubsetInduction
<1> QED BY <1>3 DEF F

(* Those newer than v, and those with fewer than n newer ones.             *)
Newer(S, order, v) == {w \in S : Before(order, v, w)}
NewestOf(S, order, n) == {v \in S : Cardinality(Newer(S, order, v)) < n}

(* A bounded number are the newest: what fewer than n are newer than.      *)
LEMMA FewAreNewest ==
    ASSUME NEW S, IsFiniteSet(S), NEW order, Ranks(order, S), NEW n \in Nat
    PROVE  Cardinality(NewestOf(S, order, n)) <= n
<1> DEFINE F == {s \in SUBSET S : Cardinality(NewestOf(s, order, n)) <= n}
<1>0. \A s \in SUBSET S : IsFiniteSet(s) /\ Cardinality(s) \in Nat
  BY FS_Subset, FS_CardinalityType
<1>1. {} \in F
  <2>1. NewestOf({}, order, n) = {}
    BY DEF NewestOf
  <2>2. Cardinality({}) <= n
    BY FS_EmptySet
  <2> QED BY <2>1, <2>2
<1>2. ASSUME NEW s \in SUBSET S, s # {}, \A x \in s : s \ {x} \in F PROVE s \in F
  <2>1. PICK x \in s : \A w \in s \ {x} : Before(order, x, w)
    BY <1>0, <1>2, OldestExists
  <2> DEFINE r == s \ {x}
  <2>2. Cardinality(r) = Cardinality(s) - 1
    BY <1>0, FS_RemoveElement
  <2>3. Newer(s, order, x) = r
    BY <2>1 DEF Newer, Ranks
  <2>4. \A v \in r : Newer(s, order, v) = Newer(r, order, v)
    BY <2>1 DEF Newer, Ranks
  <2>5. CASE Cardinality(s) <= n
    <3>1. NewestOf(s, order, n) \subseteq s
      BY DEF NewestOf
    <3>2. Cardinality(NewestOf(s, order, n)) <= Cardinality(s)
          /\ Cardinality(NewestOf(s, order, n)) \in Nat
      BY <1>0, <3>1, FS_Subset
    <3> QED BY <1>0, <2>5, <3>2
  <2>6. CASE ~(Cardinality(s) <= n)
    <3>1. ~(Cardinality(r) < n)
      BY <1>0, <2>2, <2>6
    <3>2. x \notin NewestOf(s, order, n)
      BY <2>3, <3>1 DEF NewestOf
    <3>3. NewestOf(s, order, n) = NewestOf(r, order, n)
      BY <2>4, <3>2 DEF NewestOf
    <3>4. r \in F
      BY <1>2
    <3> QED BY <3>3, <3>4
  <2> QED BY <2>5, <2>6
<1> HIDE DEF F
<1>3. \A s \in SUBSET S : s \in F
  BY <1>1, <1>2, SubsetInduction
<1>4. S \in F
  BY <1>3
<1> QED BY <1>4 DEF F

(* Leaving an order, and entering it as the newest.                        *)
LEMMA WithoutRanks ==
    ASSUME NEW S, NEW order, Ranks(order, S), NEW T
    PROVE  Ranks(Without(order, T), S \ T)
  BY DEF Ranks, Without, Before

(* The newest of an order is newer than all the others.                    *)
LEMMA NewestRanks ==
    ASSUME NEW S, NEW order, Ranks(order, S), NEW v
    PROVE  Ranks(Newest(order, S, v), S \cup {v})
  BY DEF Ranks, Newest, Without, Before

-----------------------------------------------------------------------------
(***************************************************************************)
(* The pool.  A pool P that keeps its limits keeps them when Variants,     *)
(* Replicas and protections go.                                            *)
(***************************************************************************)
Residents(P, t) == {v \in InPool(P) : t \in LiveOn(P, v)}
Protected(P, c) == {v \in Bucket(P, c) : ProtectedVariant(P, v)}

PoolTyped(P) == P \in [Variants -> Stored \cup {NotStored}]
PoolWithin(P) ==
  /\ \A t \in PoolTiers : TierUsage(P, t) <= CapacityOf[t]
  /\ \A c \in Contents : /\ Cardinality(Bucket(P, c)) <= MaxVariants
                         /\ Cardinality(Protected(P, c)) <= MaxProtected
BusyIsLive(P) ==
  \A v \in InPool(P), t \in PoolTiers :
    BusyReplica(P[v].replica[t]) => P[v].replica[t].live
PoolKept(P) == PoolTyped(P) /\ IsFiniteSet(InPool(P)) /\ PoolWithin(P) /\ BusyIsLive(P)

(* The Variants of a pool are those with a record.                         *)
LEMMA StoredInPool ==
    ASSUME NEW P, PoolTyped(P), NEW v \in Variants
    PROVE  /\ v \in InPool(P) <=> P[v] \in Stored
           /\ v \notin InPool(P) <=> P[v] = NotStored
<1> DEFINE R == [PoolTiers -> ReplicaRecords]
           T == [state : {"active", "evicted"}, artifact : BOOLEAN, replica : R,
                 maturity : Maturities, protected : BOOLEAN, window : Nat, stats : Stats,
                 reason : MaterializationReasons]
<1>1. Stored = T
  BY DEF Stored
<1> HIDE DEF R
<1>2. \A x \in T : x.state # "absent"
  OBVIOUS
<1>3. NotStored.state = "absent"
  BY DEF NotStored
<1> QED BY <1>1, <1>2, <1>3 DEF InPool, PoolTyped

(* The usage of a tier is the sum over its residents.                      *)
LEMMA UsageIsSum ==
    ASSUME NEW P, NEW t
    PROVE  TierUsage(P, t) = SumOver(BytesOf, Residents(P, t))
  BY DEF TierUsage, Residents, SumOver

(* A tier without some of its residents, and without more of them.         *)
LEMMA UsageWithout ==
    ASSUME NEW P, PoolKept(P), NEW t \in PoolTiers, NEW Q, NEW gone,
           gone \subseteq Residents(P, t), Residents(Q, t) = Residents(P, t) \ gone
    PROVE  /\ TierUsage(Q, t) = TierUsage(P, t) - SumOver(BytesOf, gone)
           /\ SumOver(BytesOf, gone) \in Nat /\ TierUsage(Q, t) \in Nat
           /\ TierUsage(P, t) \in Nat
<1> DEFINE S == Residents(P, t)
<1>1. IsFiniteSet(S) /\ S \subseteq Variants
  BY FS_Subset DEF PoolKept, Residents, InPool
<1>2. \A x \in S : BytesOf[x] \in Nat
  BY <1>1, PoolConstants
<1> HIDE DEF S
<1>3. gone \subseteq S
  BY DEF S
<1>4. /\ SumOver(BytesOf, S) = SumOver(BytesOf, S \ gone) + SumOver(BytesOf, gone)
      /\ SumOver(BytesOf, S \ gone) \in Nat /\ SumOver(BytesOf, gone) \in Nat
  BY <1>1, <1>2, <1>3, SumApart
<1>5. /\ TierUsage(P, t) = SumOver(BytesOf, S)
      /\ TierUsage(Q, t) = SumOver(BytesOf, S \ gone)
  BY UsageIsSum DEF S
<1> QED BY <1>4, <1>5

(* A tier whose residents only go stays within its capacity.               *)
LEMMA UsageShrinks ==
    ASSUME NEW P, PoolKept(P), NEW t \in PoolTiers, NEW Q,
           Residents(Q, t) \subseteq Residents(P, t)
    PROVE  TierUsage(Q, t) <= CapacityOf[t]
<1> DEFINE gone == Residents(P, t) \ Residents(Q, t)
<1>1. gone \subseteq Residents(P, t) /\ Residents(Q, t) = Residents(P, t) \ gone
  OBVIOUS
<1> HIDE DEF gone
<1>2. /\ TierUsage(Q, t) = TierUsage(P, t) - SumOver(BytesOf, gone)
      /\ SumOver(BytesOf, gone) \in Nat /\ TierUsage(P, t) \in Nat
  BY <1>1, UsageWithout
<1>3. TierUsage(P, t) <= CapacityOf[t] /\ CapacityOf[t] \in Nat
  BY PoolConstants DEF PoolKept, PoolWithin
<1> QED BY <1>2, <1>3

(* A part of a small set is small.                                         *)
LEMMA PartIsSmall ==
    ASSUME NEW S, IsFiniteSet(S), NEW n \in Nat, Cardinality(S) <= n, NEW T, T \subseteq S
    PROVE  Cardinality(T) <= n
<1>1. Cardinality(T) <= Cardinality(S) /\ Cardinality(T) \in Nat /\ Cardinality(S) \in Nat
  BY FS_Subset, FS_CardinalityType
<1> QED BY <1>1

(* A pool that only loses Variants, Replicas and protections keeps its     *)
(* limits.                                                                 *)
LEMMA PoolShrinks ==
    ASSUME NEW P, PoolKept(P), NEW Q, PoolTyped(Q), BusyIsLive(Q),
           InPool(Q) \subseteq InPool(P),
           \A v \in InPool(Q) : /\ LiveOn(Q, v) \subseteq LiveOn(P, v)
                                /\ ProtectedVariant(Q, v) => ProtectedVariant(P, v)
    PROVE  PoolKept(Q)
<1>1. IsFiniteSet(InPool(P)) /\ IsFiniteSet(InPool(Q))
  BY FS_Subset DEF PoolKept
<1>2. ASSUME NEW t \in PoolTiers PROVE TierUsage(Q, t) <= CapacityOf[t]
  BY UsageShrinks DEF Residents
<1>3. ASSUME NEW c \in Contents
      PROVE  /\ Cardinality(Bucket(Q, c)) <= MaxVariants
             /\ Cardinality(Protected(Q, c)) <= MaxProtected
  <2>1. /\ Bucket(Q, c) \subseteq Bucket(P, c)
        /\ Protected(Q, c) \subseteq Protected(P, c)
    BY DEF Protected, Bucket
  <2>2. IsFiniteSet(Bucket(P, c)) /\ IsFiniteSet(Protected(P, c))
    BY <1>1, FS_Subset DEF Protected, Bucket
  <2>3. /\ Cardinality(Bucket(P, c)) <= MaxVariants /\ MaxVariants \in Nat
        /\ Cardinality(Protected(P, c)) <= MaxProtected /\ MaxProtected \in Nat
    BY PoolConstants DEF PoolKept, PoolWithin
  <2> QED BY <2>1, <2>2, <2>3, PartIsSmall
<1> QED BY <1>1, <1>2, <1>3 DEF PoolKept, PoolWithin

-----------------------------------------------------------------------------
(* The invariant: the pool with its orders, and decisions that name a      *)
(* victim only where they are admitted mismatches.                         *)
DecisionRecords == [source : Variants, reason : MaterializationReasons, victim : Variants \cup {NoVictim}]
OrdersRank ==
  /\ Ranks(registered, InPool(variant))
  /\ Ranks(accessed, InPool(variant))
  /\ Ranks(used, InPool(variant))
DecisionsFit ==
  /\ decisions \subseteq DecisionRecords
  /\ \A d \in decisions : d.victim # NoVictim => d.reason = "mismatch"
PoolFits ==
  namespace \in [Models -> NamespaceStates] /\ PoolKept(variant) /\ OrdersRank /\ DecisionsFit

(* The pool is empty at first.                                             *)
LEMMA PoolStarts == Init => PoolFits
<1> SUFFICES ASSUME Init PROVE PoolFits
  OBVIOUS
<1>1. PoolTyped(variant) /\ InPool(variant) = {}
  BY DEF Init, PoolTyped, InPool, NotStored
<1>2. \A t : TierUsage(variant, t) = 0
  <2>1. \A t : Residents(variant, t) = {}
    BY <1>1 DEF Residents
  <2> QED BY <2>1, UsageIsSum, SumEmpty
<1>3. \A c : Bucket(variant, c) = {} /\ Protected(variant, c) = {}
  BY <1>1 DEF Bucket, Protected
<1>4. PoolWithin(variant)
  <2>1. Cardinality({}) = 0
    BY FS_EmptySet
  <2> QED BY <1>2, <1>3, <2>1, PoolConstants DEF PoolWithin
<1>5. IsFiniteSet(InPool(variant)) /\ BusyIsLive(variant)
  BY <1>1, FS_EmptySet DEF BusyIsLive
<1> QED BY <1>1, <1>4, <1>5 DEF Init, PoolFits, PoolKept, OrdersRank, Ranks, DecisionsFit,
                                NamespaceStates

-----------------------------------------------------------------------------
(***************************************************************************)
(* Steps.  Each keeps the invariant and only evicts what it may.           *)
(***************************************************************************)
StepKeeps == PoolFits' /\ GraceStep /\ VictimStep
OrdersStillRank ==
  /\ Ranks(registered', InPool(variant))
  /\ Ranks(accessed', InPool(variant))
  /\ Ranks(used', InPool(variant))

(* A step that keeps every Variant with its Replicas and ends protections  *)
(* at most.                                                                *)
LEMMA SamePool ==
    ASSUME PoolFits, PoolTyped(variant'), BusyIsLive(variant'),
           InPool(variant') = InPool(variant),
           \A v \in InPool(variant) :
             /\ LiveOn(variant', v) = LiveOn(variant, v)
             /\ LiveBacking(variant', v) = LiveBacking(variant, v)
             /\ ProtectedVariant(variant', v) => ProtectedVariant(variant, v),
           OrdersStillRank, DecisionsFit', namespace' \in [Models -> NamespaceStates]
    PROVE  StepKeeps
<1>1. PoolKept(variant')
  BY PoolShrinks DEF PoolFits
<1>2. GraceStep
  <2>1. ASSUME NEW v \in InPool(variant), NEW t \in PoolTiers, BusyReplica(variant[v].replica[t])
        PROVE  t \in LiveOn(variant', v)
    BY <2>1 DEF PoolFits, PoolKept, BusyIsLive, LiveOn
  <2> QED BY <2>1 DEF GraceStep
<1>3. OrdersRank'
  BY DEF OrdersRank, OrdersStillRank
<1> QED BY <1>1, <1>2, <1>3 DEF StepKeeps, PoolFits, VictimStep

(* A step that rewrites the record of one Variant.                         *)
LEMMA RecordRewritten ==
    ASSUME PoolFits, NEW v \in InPool(variant), NEW y \in Stored,
           variant' = [variant EXCEPT ![v] = y],
           \A t \in PoolTiers : /\ y.replica[t].live = variant[v].replica[t].live
                                /\ y.replica[t].backing = variant[v].replica[t].backing
                                /\ BusyReplica(y.replica[t]) => y.replica[t].live,
           y.maturity = "probation" /\ y.protected => ProtectedVariant(variant, v),
           OrdersStillRank, DecisionsFit', namespace' \in [Models -> NamespaceStates]
    PROVE  StepKeeps
<1>1. PoolTyped(variant) /\ v \in Variants
  BY DEF PoolFits, PoolKept, InPool
<1>2. PoolTyped(variant') /\ variant'[v] = y /\ \A w \in Variants \ {v} : variant'[w] = variant[w]
  BY <1>1 DEF PoolTyped
<1>3. InPool(variant') = InPool(variant)
  <2>1. v \in InPool(variant')
    BY <1>1, <1>2, StoredInPool
  <2> QED BY <1>1, <1>2, <2>1 DEF InPool
<1>4. ASSUME NEW w \in InPool(variant)
      PROVE  /\ LiveOn(variant', w) = LiveOn(variant, w)
             /\ LiveBacking(variant', w) = LiveBacking(variant, w)
             /\ ProtectedVariant(variant', w) => ProtectedVariant(variant, w)
  <2>1. CASE w = v
    BY <1>2, <2>1 DEF LiveOn, LiveBacking, ProtectedVariant
  <2>2. CASE w # v
    BY <1>2, <2>2 DEF LiveOn, LiveBacking, ProtectedVariant, InPool
  <2> QED BY <2>1, <2>2
<1>5. BusyIsLive(variant')
  <2> SUFFICES ASSUME NEW w \in InPool(variant'), NEW t \in PoolTiers,
                      BusyReplica(variant'[w].replica[t])
               PROVE  variant'[w].replica[t].live
    BY DEF BusyIsLive
  <2>1. CASE w = v
    BY <1>2, <2>1
  <2>2. CASE w # v
    BY <1>2, <1>3, <2>2 DEF PoolFits, PoolKept, BusyIsLive, InPool
  <2> QED BY <2>1, <2>2
<1> QED BY <1>2, <1>3, <1>4, <1>5, SamePool

(* The record of a Variant of the pool.                                    *)
LEMMA StoredRecord ==
    ASSUME PoolFits, NEW v \in InPool(variant)
    PROVE  /\ variant[v] \in Stored /\ v \in Variants
           /\ \A t \in PoolTiers : BusyReplica(variant[v].replica[t]) => variant[v].replica[t].live
  BY StoredInPool DEF PoolFits, PoolKept, InPool, BusyIsLive

(* Registering an Artifact changes nothing the limits count.               *)
LEMMA ArtifactKeeps ==
    ASSUME PoolFits, NEW v \in Variants, RegisterArtifact(v) PROVE StepKeeps
<1> DEFINE x == variant[v]
           y == [x EXCEPT !.artifact = TRUE]
<1>1. /\ v \in InPool(variant) /\ variant' = [variant EXCEPT ![v] = y]
      /\ UNCHANGED <<namespace, orders, decisions>>
  BY DEF RegisterArtifact
<1>2. x \in Stored
  BY <1>1, StoredRecord
<1>3. y \in Stored /\ y.replica = x.replica /\ y.maturity = x.maturity /\ y.protected = x.protected
  BY <1>2 DEF Stored
<1>4. \A t \in PoolTiers : BusyReplica(x.replica[t]) => x.replica[t].live
  BY <1>1, StoredRecord
<1>6. OrdersStillRank /\ DecisionsFit' /\ namespace' \in [Models -> NamespaceStates]
  BY <1>1 DEF PoolFits, OrdersRank, OrdersStillRank, DecisionsFit, orders
<1>7. y.maturity = "probation" /\ y.protected => ProtectedVariant(variant, v)
  BY <1>3 DEF ProtectedVariant
<1> HIDE DEF y
<1> QED BY <1>1, <1>3, <1>4, <1>6, <1>7, RecordRewritten

(* What a use changes of the Replica it enters or leaves.                  *)
LEMMA CounterKeeps ==
    ASSUME PoolFits, NEW v \in InPool(variant), NEW t \in PoolTiers, NEW q \in ReplicaRecords,
           variant' = [variant EXCEPT ![v].replica[t] = q],
           q.live = variant[v].replica[t].live, q.backing = variant[v].replica[t].backing,
           BusyReplica(q) => q.live,
           UNCHANGED <<namespace, orders, decisions>>
    PROVE  StepKeeps
<1> DEFINE x == variant[v]
           y == [x EXCEPT !.replica = [@ EXCEPT ![t] = q]]
<1>1. x \in Stored /\ \A u \in PoolTiers : BusyReplica(x.replica[u]) => x.replica[u].live
  BY StoredRecord
<1>2. variant' = [variant EXCEPT ![v] = y]
  OBVIOUS
<1>3. x.replica \in [PoolTiers -> ReplicaRecords]
  BY <1>1 DEF Stored
<1>4. /\ y.replica = [x.replica EXCEPT ![t] = q] /\ y.maturity = x.maturity
      /\ y.protected = x.protected
  BY <1>1 DEF Stored
<1>5. y.replica \in [PoolTiers -> ReplicaRecords]
  BY <1>3, <1>4
<1>6. y \in Stored
  BY <1>1, <1>5 DEF Stored
<1>7. \A u \in PoolTiers : /\ y.replica[u].live = x.replica[u].live
                           /\ y.replica[u].backing = x.replica[u].backing
                           /\ BusyReplica(y.replica[u]) => y.replica[u].live
  BY <1>1, <1>3, <1>4
<1>8. y.maturity = "probation" /\ y.protected => ProtectedVariant(variant, v)
  BY <1>4 DEF ProtectedVariant
<1>9. OrdersStillRank /\ DecisionsFit' /\ namespace' \in [Models -> NamespaceStates]
  BY DEF PoolFits, OrdersRank, OrdersStillRank, DecisionsFit, orders
<1> HIDE DEF y
<1> QED BY <1>2, <1>6, <1>7, <1>8, <1>9, RecordRewritten

(* Entering and leaving change one counter, which stays zero or one.       *)
Counted(r, counter, q) ==
  \/ /\ IF counter = "lease" THEN ReadyReplica(r) ELSE HealthyReplica(r)
     /\ q = [r EXCEPT ![counter] = @ + 1]
  \/ r[counter] > 0 /\ q = [r EXCEPT ![counter] = @ - 1]

(* A use that may enter finds its counter at zero.                         *)
LEMMA CounterFits ==
    ASSUME NEW r \in ReplicaRecords, NEW counter \in {"lease", "copy", "exec"}, NEW q,
           Counted(r, counter, q)
    PROVE  q \in ReplicaRecords /\ q.live = r.live /\ q.backing = r.backing
<1>1. CASE counter = "lease"
  <2>1. \/ ReadyReplica(r) /\ q = [r EXCEPT !.lease = @ + 1]
        \/ r.lease > 0 /\ q = [r EXCEPT !.lease = @ - 1]
    BY <1>1 DEF Counted
  <2>2. r.lease \in 0..1 /\ r.copy \in 0..1 /\ r.exec \in 0..1
    BY DEF ReplicaRecords
  <2>3. PICK n \in 0..1 : q = [r EXCEPT !.lease = n]
    BY <2>1, <2>2 DEF ReadyReplica, BusyReplica, InUseOf
  <2> QED BY <2>3 DEF ReplicaRecords
<1>2. CASE counter = "copy"
  <2>1. \/ HealthyReplica(r) /\ q = [r EXCEPT !.copy = @ + 1]
        \/ r.copy > 0 /\ q = [r EXCEPT !.copy = @ - 1]
    BY <1>2 DEF Counted
  <2>2. r.lease \in 0..1 /\ r.copy \in 0..1 /\ r.exec \in 0..1
    BY DEF ReplicaRecords
  <2>3. PICK n \in 0..1 : q = [r EXCEPT !.copy = n]
    BY <2>1, <2>2 DEF HealthyReplica
  <2> QED BY <2>3 DEF ReplicaRecords
<1>3. CASE counter = "exec"
  <2>1. \/ HealthyReplica(r) /\ q = [r EXCEPT !.exec = @ + 1]
        \/ r.exec > 0 /\ q = [r EXCEPT !.exec = @ - 1]
    BY <1>3 DEF Counted
  <2>2. r.lease \in 0..1 /\ r.copy \in 0..1 /\ r.exec \in 0..1
    BY DEF ReplicaRecords
  <2>3. PICK n \in 0..1 : q = [r EXCEPT !.exec = n]
    BY <2>1, <2>2 DEF HealthyReplica
  <2> QED BY <2>3 DEF ReplicaRecords
<1> QED BY <1>1, <1>2, <1>3

(* Entering and leaving a use of a Replica (lease, copy, execution).       *)
LEMMA UseKeeps ==
    ASSUME PoolFits, NEW v \in Variants, NEW t \in PoolTiers, NEW counter \in Uses,
           Enter(v, t, counter) \/ Leave(v, t, counter)
    PROVE  StepKeeps
<1> DEFINE r == variant[v].replica[t]
<1>1. v \in InPool(variant) /\ UNCHANGED <<namespace, orders, decisions>>
  BY DEF Enter, Leave
<1>2. r \in ReplicaRecords /\ (BusyReplica(r) => r.live)
  BY <1>1, StoredRecord DEF Stored
<1>3. counter \in {"lease", "copy", "exec"}
  BY PoolConstants
<1>4. PICK q : variant' = [variant EXCEPT ![v].replica[t] = q] /\ Counted(r, counter, q)
  <2>1. CASE Enter(v, t, counter)
    <3> WITNESS [r EXCEPT ![counter] = @ + 1]
    <3> QED BY <2>1 DEF Enter, Counted
  <2>2. CASE Leave(v, t, counter)
    <3> WITNESS [r EXCEPT ![counter] = @ - 1]
    <3> QED BY <2>2 DEF Leave, Counted
  <2> QED BY <2>1, <2>2
<1>5. r.live
  <2>1. CASE r[counter] > 0
    <3>1. BusyReplica(r)
      BY <1>2, <1>3, <2>1 DEF BusyReplica, InUseOf, ReplicaRecords
    <3> QED BY <1>2, <3>1
  <2>2. CASE IF counter = "lease" THEN ReadyReplica(r) ELSE HealthyReplica(r)
    BY <2>2 DEF ReadyReplica, HealthyReplica
  <2> QED BY <1>4, <2>1, <2>2 DEF Counted
<1> HIDE DEF r
<1>6. q \in ReplicaRecords /\ q.live = r.live /\ q.backing = r.backing
  BY <1>2, <1>3, <1>4, CounterFits
<1>7. BusyReplica(q) => q.live
  BY <1>5, <1>6
<1>8. q.live = variant[v].replica[t].live /\ q.backing = variant[v].replica[t].backing
  BY <1>6 DEF r
<1>9. variant' = [variant EXCEPT ![v].replica[t] = q]
  BY <1>4
<1> QED BY <1>1, <1>6, <1>7, <1>8, <1>9, CounterKeeps

(* Steps that leave the stored Variants alone.                             *)
LEMMA VariantsUnchanged ==
    ASSUME PoolFits, variant' = variant, OrdersStillRank, DecisionsFit',
           namespace' \in [Models -> NamespaceStates]
    PROVE  StepKeeps
  BY SamePool DEF PoolFits, PoolKept

(* Touching a stored Variant keeps the order ranked.                       *)
LEMMA TouchedRanks ==
    ASSUME NEW order, Ranks(order, InPool(variant)), NEW v \in InPool(variant)
    PROVE  Ranks(Touched(order, v), InPool(variant))
<1> DEFINE S == InPool(variant)
<1>1. Ranks(order, S) /\ S \cup {v} = S /\ Touched(order, v) = Newest(order, S, v)
  BY DEF Touched
<1> HIDE DEF S
<1>2. Ranks(Newest(order, S, v), S)
  BY <1>1, NewestRanks
<1> QED BY <1>1, <1>2 DEF S

(* Binding a Replica to a request only touches the orders.                 *)
LEMMA BindKeeps ==
    ASSUME PoolFits, NEW v \in Variants, NEW t \in PoolTiers, BindReplica(v, t)
    PROVE  StepKeeps
<1>1. /\ v \in InPool(variant) /\ accessed' = Touched(accessed, v) /\ used' = Touched(used, v)
      /\ UNCHANGED <<namespace, variant, registered, decisions>>
  BY DEF BindReplica
<1>2. OrdersStillRank
  BY <1>1, TouchedRanks DEF PoolFits, OrdersRank, OrdersStillRank
<1> QED BY <1>1, <1>2, VariantsUnchanged DEF PoolFits, DecisionsFit

(* What an observation and a lookup make of a record.                      *)
LEMMA ObserveFits ==
    ASSUME NEW x \in Stored, NEW stage \in Nat
    PROVE  /\ Observe(x, stage) \in Stored /\ Observe(x, stage).replica = x.replica
           /\ Observe(x, stage).maturity = "probation" => x.maturity = "probation"
           /\ Observe(x, stage).protected => x.protected
<1> DEFINE s == x.stats
           reached(k) == IF stage >= k THEN 1 ELSE 0
           stats == [lookups |-> s.lookups + 1, hits |-> s.hits + reached(2),
                     comparisons |-> s.comparisons + reached(3),
                     selections |-> s.selections + reached(4), saved |-> s.saved + reached(5)]
           verified == stats.comparisons >= EnoughObservations
           maturity == IF verified THEN "verified" ELSE x.maturity
           protected == x.protected /\ ~verified
           y == [x EXCEPT !.stats = stats, !.maturity = maturity, !.protected = protected]
<1>1. Observe(x, stage) = y
  BY DEF Observe
<1>2. stats \in Stats
  <2>1. s \in Stats
    BY DEF Stored
  <2>2. \A k \in {2, 3, 4, 5} : reached(k) \in Nat
    OBVIOUS
  <2> HIDE DEF s, reached
  <2> QED BY <2>1, <2>2 DEF Stats
<1>3. /\ maturity \in Maturities /\ protected \in BOOLEAN
      /\ maturity = "probation" => x.maturity = "probation"
      /\ protected => x.protected
  BY DEF Stored, Maturities
<1> HIDE DEF stats, maturity, protected
<1>4. y \in Stored /\ y.replica = x.replica /\ y.maturity = maturity /\ y.protected = protected
  BY <1>2, <1>3 DEF Stored
<1> HIDE DEF y
<1> QED BY <1>1, <1>3, <1>4

(* A lookup may end a protection and never starts one.                     *)
LEMMA LookedUpFits ==
    ASSUME NEW x \in Stored
    PROVE  /\ LookedUp(x) \in Stored /\ LookedUp(x).replica = x.replica
           /\ LookedUp(x).protected => x.protected
<1> DEFINE expires == x.stats.comparisons < EnoughObservations /\ x.window + 1 >= LookupWindow
           m == IF expires THEN "expired" ELSE x.maturity
           p == x.protected /\ ~expires
           w == x.window + 1
           y == [x EXCEPT !.window = w, !.maturity = m, !.protected = p]
<1>1. LookedUp(x) = y
  BY DEF LookedUp
<1>2. m \in Maturities /\ p \in BOOLEAN /\ w \in Nat /\ (p => x.protected)
  BY DEF Stored, Maturities
<1> HIDE DEF m, p, w
<1>3. y \in Stored /\ y.replica = x.replica /\ y.protected = p
  BY <1>2 DEF Stored
<1> HIDE DEF y
<1> QED BY <1>1, <1>2, <1>3

(* Recording an observation (record_observation).                          *)
LEMMA ObservationKeeps ==
    ASSUME PoolFits, NEW v \in Variants, NEW stage \in Observed, RecordObservation(v, stage)
    PROVE  StepKeeps
<1> DEFINE x == variant[v]
           y == Observe(x, stage)
<1>1. /\ v \in InPool(variant) /\ variant' = [variant EXCEPT ![v] = y]
      /\ accessed' = Touched(accessed, v)
      /\ used' = IF stage >= 4 THEN Touched(used, v) ELSE used
      /\ UNCHANGED <<namespace, registered, decisions>>
  BY DEF RecordObservation
<1>2. x \in Stored /\ \A t \in PoolTiers : BusyReplica(x.replica[t]) => x.replica[t].live
  BY <1>1, StoredRecord
<1>3. /\ y \in Stored /\ y.replica = x.replica
      /\ y.maturity = "probation" => x.maturity = "probation"
      /\ y.protected => x.protected
  <2>1. stage \in Nat
    BY PoolConstants
  <2> HIDE DEF x
  <2> QED BY <1>2, <2>1, ObserveFits, Zenon
<1>4. y.maturity = "probation" /\ y.protected => ProtectedVariant(variant, v)
  BY <1>3 DEF ProtectedVariant
<1>5. OrdersStillRank
  BY <1>1, TouchedRanks DEF PoolFits, OrdersRank, OrdersStillRank
<1>6. DecisionsFit' /\ namespace' \in [Models -> NamespaceStates]
  BY <1>1 DEF PoolFits, DecisionsFit
<1> HIDE DEF y
<1> QED BY <1>1, <1>2, <1>3, <1>4, <1>5, <1>6, RecordRewritten

(* Finishing a lookup of a content, which may expire its Variants on       *)
(* probation.                                                              *)
LEMMA LookupKeeps ==
    ASSUME PoolFits, NEW c \in Contents, FinishContentLookup(c) PROVE StepKeeps
<1> DEFINE expected(v) == v \in Bucket(variant, c) /\ variant[v].maturity = "probation"
           y(v) == LookedUp(variant[v])
<1>1. /\ variant' = [v \in Variants |-> IF expected(v) THEN y(v) ELSE variant[v]]
      /\ UNCHANGED <<namespace, orders, decisions>>
  BY DEF FinishContentLookup
<1>2. PoolTyped(variant)
  BY DEF PoolFits, PoolKept
<1>3. ASSUME NEW v \in InPool(variant)
      PROVE  /\ y(v) \in Stored /\ y(v).replica = variant[v].replica
             /\ y(v).protected => variant[v].protected
  BY StoredRecord, LookedUpFits
<1> HIDE DEF y
<1>4. \A v \in Variants : variant'[v] = IF expected(v) THEN y(v) ELSE variant[v]
  BY <1>1
<1>5. \A v \in Variants : expected(v) => v \in InPool(variant)
  BY DEF Bucket
<1>6. PoolTyped(variant')
  BY <1>1, <1>2, <1>3, <1>5 DEF PoolTyped
<1>7. InPool(variant') = InPool(variant)
  <2> SUFFICES ASSUME NEW v \in Variants PROVE v \in InPool(variant') <=> v \in InPool(variant)
    BY DEF InPool
  <2>1. CASE expected(v)
    BY <1>3, <1>4, <1>5, <1>6, <2>1, StoredInPool
  <2>2. CASE ~expected(v)
    BY <1>4, <2>2 DEF InPool
  <2> QED BY <2>1, <2>2
<1>8. ASSUME NEW v \in InPool(variant)
      PROVE  /\ variant'[v].replica = variant[v].replica
             /\ ProtectedVariant(variant', v) => ProtectedVariant(variant, v)
  <2>1. v \in Variants
    BY <1>8 DEF InPool
  <2>2. CASE expected(v)
    BY <1>3, <1>4, <2>1, <2>2 DEF ProtectedVariant
  <2>3. CASE ~expected(v)
    BY <1>4, <2>1, <2>3 DEF ProtectedVariant
  <2> QED BY <2>2, <2>3
<1> HIDE DEF expected
<1>9. \A v \in InPool(variant) : /\ LiveOn(variant', v) = LiveOn(variant, v)
                                 /\ LiveBacking(variant', v) = LiveBacking(variant, v)
  BY <1>8 DEF LiveOn, LiveBacking
<1>10. BusyIsLive(variant')
  BY <1>7, <1>8 DEF PoolFits, PoolKept, BusyIsLive
<1>11. OrdersStillRank /\ DecisionsFit' /\ namespace' \in [Models -> NamespaceStates]
  BY <1>1 DEF PoolFits, OrdersRank, OrdersStillRank, DecisionsFit, orders
<1> QED BY <1>6, <1>7, <1>8, <1>9, <1>10, <1>11, SamePool

-----------------------------------------------------------------------------
(* Decisions come and go without the pool.                                 *)
LEMMA DecisionFits ==
    ASSUME PoolFits, NEW v \in Variants, NEW reason \in MaterializationReasons, Decide(v, reason)
    PROVE  StepKeeps
<1> DEFINE c == ContentOf[v]
           victim == IF reason = "mismatch" /\ Full(c) THEN LruVictim(variant, c) ELSE NoVictim
           d == [source |-> v, reason |-> reason, victim |-> victim]
<1>1. decisions' = decisions \cup {d} /\ UNCHANGED <<namespace, variant, orders>>
  BY DEF Decide
<1>2. LruVictim(variant, c) \in Variants \cup {NoVictim}
  <2> DEFINE S == Replaceable(variant, c)
  <2>1. CASE S = {}
    BY <2>1 DEF LruVictim
  <2>2. CASE S # {}
    <3>1. S \subseteq InPool(variant) /\ IsFiniteSet(S)
      BY FS_Subset DEF Replaceable, Bucket, PoolFits, PoolKept
    <3>2. \E w \in S : \A u \in S \ {w} : Before(used, w, u)
      BY <2>2, <3>1, OldestExists DEF PoolFits, OrdersRank
    <3>3. LruVictim(variant, c) \in S
      BY <2>2, <3>2, Zenon DEF LruVictim
    <3> QED BY <3>1, <3>3 DEF InPool
  <2> QED BY <2>1, <2>2
<1>3. victim \in Variants \cup {NoVictim} /\ (victim # NoVictim => reason = "mismatch")
  BY <1>2
<1> HIDE DEF victim
<1>4. d \in DecisionRecords /\ (d.victim # NoVictim => d.reason = "mismatch")
  BY <1>3 DEF DecisionRecords
<1> HIDE DEF d
<1>5. DecisionsFit'
  BY <1>1, <1>4 DEF PoolFits, DecisionsFit
<1>6. OrdersStillRank /\ namespace' \in [Models -> NamespaceStates]
  BY <1>1 DEF PoolFits, OrdersRank, OrdersStillRank, orders
<1> QED BY <1>1, <1>5, <1>6, VariantsUnchanged

(* Publication of a stored Variant, and refusal, use the decision up.      *)
LEMMA DecisionDropped ==
    ASSUME PoolFits, NEW d \in decisions, PublishStored(d) \/ PublicationRefused(d)
    PROVE  StepKeeps
<1>1. decisions' = decisions \ {d} /\ variant' = variant /\ namespace' = namespace
  BY DEF PublishStored, PublicationRefused
<1>2. DecisionsFit'
  BY <1>1 DEF PoolFits, DecisionsFit
<1>3. OrdersStillRank
  <2>1. CASE PublishStored(d)
    BY <2>1, TouchedRanks DEF PublishStored, PoolFits, OrdersRank, OrdersStillRank
  <2>2. CASE PublicationRefused(d)
    BY <2>2 DEF PublicationRefused, PoolFits, OrdersRank, OrdersStillRank, orders
  <2> QED BY <2>1, <2>2
<1> QED BY <1>1, <1>2, <1>3, VariantsUnchanged DEF PoolFits

-----------------------------------------------------------------------------
(* Namespaces.  Purging takes the Variants of a model, which are idle, and *)
(* leaves its namespace deleted.                                           *)
LEMMA ActivationKeeps ==
    ASSUME PoolFits, NEW m \in Models, ActivateNamespace(m) PROVE StepKeeps
<1>1. UNCHANGED <<variant, orders, decisions>>
  BY DEF ActivateNamespace
<1>2. namespace' \in [Models -> NamespaceStates]
  <2>1. namespace \in [Models -> NamespaceStates]
    BY DEF PoolFits
  <2>2. \A n \in Models : Registered(n) \in NamespaceStates
    BY <2>1 DEF Registered, NamespaceStates
  <2>3. "active" \in NamespaceStates
    BY DEF NamespaceStates
  <2> QED BY <2>1, <2>2, <2>3 DEF ActivateNamespace
<1>3. OrdersStillRank /\ DecisionsFit'
  BY <1>1 DEF PoolFits, OrdersRank, OrdersStillRank, DecisionsFit, orders
<1> QED BY <1>1, <1>2, <1>3, VariantsUnchanged

(* Purging the models in S.                                                *)
LEMMA PurgeKeeps ==
    ASSUME PoolFits, NEW S \in SUBSET Models, Purgeable(S), Purged(S), UNCHANGED decisions,
           namespace' \in [Models -> NamespaceStates], \A m \in S : namespace'[m] = "deleted"
    PROVE  StepKeeps
<1> DEFINE gone == {v \in InPool(variant) : ModelOf[ContentOf[v]] \in S}
<1>1. /\ variant' = [v \in Variants |-> IF v \in gone THEN NotStored ELSE variant[v]]
      /\ registered' = Without(registered, gone)
      /\ accessed' = Without(accessed, gone)
      /\ used' = Without(used, gone)
  BY DEF Purged
<1>2. \A v \in InPool(variant) : v \in gone <=> ModelOf[ContentOf[v]] \in S
  OBVIOUS
<1>3. gone \subseteq InPool(variant)
  OBVIOUS
<1> HIDE DEF gone
<1>4. PoolTyped(variant')
  BY <1>1 DEF PoolFits, PoolKept, PoolTyped
<1>5. InPool(variant') = InPool(variant) \ gone
      /\ \A v \in InPool(variant') : variant'[v] = variant[v]
  BY <1>1 DEF InPool, NotStored
<1>6. BusyIsLive(variant')
  BY <1>5 DEF PoolFits, PoolKept, BusyIsLive
<1>7. \A v \in InPool(variant') :
        /\ LiveOn(variant', v) = LiveOn(variant, v)
        /\ LiveBacking(variant', v) = LiveBacking(variant, v)
        /\ ProtectedVariant(variant', v) => ProtectedVariant(variant, v)
  BY <1>5 DEF LiveOn, LiveBacking, ProtectedVariant
<1>8. PoolKept(variant')
  BY <1>4, <1>5, <1>6, <1>7, PoolShrinks DEF PoolFits
<1>9. OrdersRank'
  BY <1>1, <1>5, WithoutRanks DEF PoolFits, OrdersRank
<1>10. DecisionsFit'
  BY DEF PoolFits, DecisionsFit
<1>11. \A v \in gone : namespace'[ModelOf[ContentOf[v]]] = "deleted"
  BY <1>2, <1>3
<1>12. GraceStep
  <2> SUFFICES ASSUME NEW v \in InPool(variant)
               PROVE  /\ \A t \in PoolTiers : BusyReplica(variant[v].replica[t]) =>
                            v \in InPool(variant') /\ t \in LiveOn(variant', v)
                      /\ \/ namespace'[ModelOf[ContentOf[v]]] = "deleted"
                         \/ v \in InPool(variant')
                            /\ LiveBacking(variant, v) \subseteq LiveBacking(variant', v)
    BY DEF GraceStep
  <2>1. CASE v \in gone
    <3>1. \A t \in PoolTiers : ~BusyReplica(variant[v].replica[t])
      BY <1>2, <2>1 DEF Purgeable, BusyVariant
    <3> QED BY <1>11, <2>1, <3>1
  <2>2. CASE v \notin gone
    <3>1. v \in InPool(variant')
      BY <1>5, <2>2
    <3>2. \A t \in PoolTiers : BusyReplica(variant[v].replica[t]) => t \in LiveOn(variant, v)
      BY DEF PoolFits, PoolKept, BusyIsLive, LiveOn
    <3> QED BY <1>7, <3>1, <3>2
  <2> QED BY <2>1, <2>2
<1>13. VictimStep
  BY <1>5, <1>11 DEF VictimStep
<1> QED BY <1>8, <1>9, <1>10, <1>12, <1>13 DEF StepKeeps, PoolFits

(* Purging one namespace, and switching to a model.                        *)
LEMMA NamespaceKeeps ==
    ASSUME PoolFits, NEW m \in Models, DeleteNamespace(m) \/ SwitchModel(m) PROVE StepKeeps
<1>0. namespace \in [Models -> NamespaceStates]
      /\ "deleted" \in NamespaceStates /\ "active" \in NamespaceStates
  BY DEF PoolFits, NamespaceStates
<1>1. CASE DeleteNamespace(m)
  <2>1. /\ namespace' \in [Models -> NamespaceStates] /\ namespace'[m] = "deleted"
        /\ {m} \in SUBSET Models /\ Purgeable({m}) /\ Purged({m}) /\ UNCHANGED decisions
    BY <1>0, <1>1 DEF DeleteNamespace
  <2>2. \A n \in {m} : namespace'[n] = "deleted"
    BY <2>1
  <2> QED BY <2>1, <2>2, PurgeKeeps
<1>2. CASE SwitchModel(m)
  <2> DEFINE old == {n \in Models \ {m} : namespace[n] = "active"}
  <2>1. /\ Purgeable(old) /\ Purged(old) /\ UNCHANGED decisions
        /\ namespace' = [n \in Models |-> IF n = m THEN "active"
                                          ELSE IF n \in old THEN "deleted" ELSE namespace[n]]
    BY <1>2 DEF SwitchModel
  <2>2. old \in SUBSET Models /\ m \notin old
    OBVIOUS
  <2> HIDE DEF old
  <2>3. /\ namespace' \in [Models -> NamespaceStates]
        /\ \A n \in old : namespace'[n] = "deleted"
    BY <1>0, <2>1, <2>2
  <2> QED BY <2>1, <2>2, <2>3, PurgeKeeps
<1> QED BY <1>1, <1>2

-----------------------------------------------------------------------------
(* Making room only deletes idle Replicas, and no backing of a protected   *)
(* Variant.                                                                *)
LEMMA RoomIsEvictable ==
    ASSUME NEW P, PoolKept(P), NEW t \in PoolTiers, NEW bytes
    PROVE  MadeRoom(P, t, bytes) \subseteq Evictable(P, t)
<1> DEFINE C == Evictable(P, t)
           enough == {S \in SUBSET C : /\ \A v \in S, w \in C \ S : DeletedSooner(P, t, v, w)
                                       /\ Fits(P, t, S, bytes)}
           sizes == {Cardinality(S) : S \in enough}
<1>1. MadeRoom(P, t, bytes) = IF enough = {} THEN C
        ELSE CHOOSE S \in enough : \A R \in enough : Cardinality(S) <= Cardinality(R)
  BY DEF MadeRoom
<1>2. IsFiniteSet(C)
  BY FS_Subset DEF Evictable, PoolKept
<1>3. enough \subseteq SUBSET C
  OBVIOUS
<1> HIDE DEF C, enough
<1>4. CASE enough # {}
  <2>1. sizes \subseteq Nat /\ sizes # {}
    BY <1>2, <1>3, <1>4, FS_Subset, FS_CardinalityType
  <2>2. PICK n \in sizes : \A m \in sizes : n <= m
    BY <2>1, LeastNumber
  <2>3. \E S \in enough : \A R \in enough : Cardinality(S) <= Cardinality(R)
    BY <2>2
  <2>4. MadeRoom(P, t, bytes) \in enough
    BY <1>1, <1>4, <2>3, Zenon
  <2> QED BY <1>3, <2>4 DEF C
<1> QED BY <1>1, <1>4 DEF C

(* A record without its Replica on a tier, and with one attached.          *)
LEMMA DeletedRecord ==
    ASSUME NEW x \in Stored, NEW t \in PoolTiers
    PROVE  /\ DeleteReplica(x, t) \in Stored
           /\ DeleteReplica(x, t).replica = [x.replica EXCEPT ![t] = NoPlacement]
           /\ DeleteReplica(x, t).maturity = x.maturity
           /\ DeleteReplica(x, t).protected = x.protected
<1> DEFINE rest == [x.replica EXCEPT ![t] = NoPlacement]
           state == IF \E u \in PoolTiers : HealthyReplica(rest[u]) THEN x.state ELSE "evicted"
           y == [x EXCEPT !.replica = rest, !.state = state]
<1>1. DeleteReplica(x, t) = y
  BY DEF DeleteReplica
<1>2. NoPlacement \in ReplicaRecords
  BY DEF NoPlacement, ReplicaRecords
<1>3. rest \in [PoolTiers -> ReplicaRecords]
  <2>1. x.replica \in [PoolTiers -> ReplicaRecords]
    BY DEF Stored
  <2> QED BY <1>2, <2>1
<1>4. state \in {"active", "evicted"}
  BY DEF Stored
<1> HIDE DEF rest, state
<1>5. /\ y \in Stored /\ y.replica = rest /\ y.maturity = x.maturity
      /\ y.protected = x.protected
  BY <1>3, <1>4 DEF Stored
<1> HIDE DEF y
<1> QED BY <1>1, <1>5 DEF rest

(* What the pool Q keeps of a pool P: what is busy keeps its Replicas, and *)
(* what is protected its backing.                                          *)
Spares(P, Q) ==
  /\ InPool(Q) = InPool(P)
  /\ \A v \in InPool(P) :
       /\ \A t \in PoolTiers : BusyReplica(P[v].replica[t]) =>
             BusyReplica(Q[v].replica[t]) /\ t \in LiveOn(Q, v)
       /\ ProtectedVariant(P, v) =>
             ProtectedVariant(Q, v) /\ LiveBacking(P, v) \subseteq LiveBacking(Q, v)

(* The pool without the Replicas that are deleted from a tier.             *)
Roomy(P, t, deleted) ==
  [w \in Variants |-> IF w \in deleted THEN DeleteReplica(P[w], t) ELSE P[w]]

(* Deleting evictable Replicas keeps the limits, what is busy and what is  *)
(* protected.                                                              *)
LEMMA RoomSpares ==
    ASSUME NEW P, PoolKept(P), NEW t \in PoolTiers, NEW deleted,
           deleted \subseteq Evictable(P, t)
    PROVE  /\ PoolKept(Roomy(P, t, deleted)) /\ Spares(P, Roomy(P, t, deleted))
           /\ Residents(Roomy(P, t, deleted), t) = Residents(P, t) \ deleted
           /\ \A v \in InPool(P) \ deleted : Roomy(P, t, deleted)[v] = P[v]
<1> DEFINE Q == Roomy(P, t, deleted)
<1>a. Q = [w \in Variants |-> IF w \in deleted THEN DeleteReplica(P[w], t) ELSE P[w]]
  BY DEF Roomy
<1> HIDE DEF Q
<1>0. PoolTyped(P) /\ BusyIsLive(P)
  BY DEF PoolKept
<1>1. deleted \subseteq InPool(P) /\ InPool(P) \subseteq Variants
      /\ \A w \in deleted : /\ ReadyReplica(P[w].replica[t])
                            /\ P[w].replica[t].backing => ~ProtectedVariant(P, w)
  BY DEF Evictable, InPool
<1>2. \A w \in Variants \ deleted : Q[w] = P[w]
  BY <1>a
<1>3. ASSUME NEW w \in deleted
      PROVE  /\ Q[w] \in Stored /\ Q[w].replica = [P[w].replica EXCEPT ![t] = NoPlacement]
             /\ Q[w].maturity = P[w].maturity /\ Q[w].protected = P[w].protected
             /\ P[w].replica \in [PoolTiers -> ReplicaRecords]
  <2>1. P[w] \in Stored
    BY <1>0, <1>1, StoredInPool
  <2>2. Q[w] = DeleteReplica(P[w], t)
    BY <1>a, <1>1
  <2>3. P[w].replica \in [PoolTiers -> ReplicaRecords]
    BY <2>1 DEF Stored
  <2> QED BY <2>1, <2>2, <2>3, DeletedRecord
<1>4. PoolTyped(Q)
  <2>1. \A w \in Variants : Q[w] \in Stored \cup {NotStored}
    BY <1>0, <1>2, <1>3 DEF PoolTyped
  <2> QED BY <1>a, <2>1 DEF PoolTyped
<1>5. InPool(Q) = InPool(P)
  <2>1. \A w \in deleted : w \in InPool(Q)
    BY <1>1, <1>3, <1>4, StoredInPool
  <2> QED BY <1>1, <1>2, <2>1 DEF InPool
<1>6. \A w \in InPool(P) : ProtectedVariant(Q, w) = ProtectedVariant(P, w)
  BY <1>1, <1>2, <1>3 DEF ProtectedVariant
<1>7. ASSUME NEW w \in deleted, NEW u \in PoolTiers
      PROVE  Q[w].replica[u] = IF u = t THEN NoPlacement ELSE P[w].replica[u]
  <2> DEFINE f == P[w].replica
             g == Q[w].replica
  <2>1. f \in [PoolTiers -> ReplicaRecords] /\ g = [f EXCEPT ![t] = NoPlacement]
    BY <1>3
  <2> HIDE DEF f, g
  <2>2. g[u] = IF u = t THEN NoPlacement ELSE f[u]
    BY <2>1
  <2> QED BY <2>2 DEF f, g
<1>8. ~NoPlacement.live /\ ~BusyReplica(NoPlacement)
  BY DEF NoPlacement, BusyReplica, InUseOf
<1>9. ASSUME NEW w \in InPool(P), NEW u \in PoolTiers
      PROVE  /\ Q[w].replica[u].live =>
                  P[w].replica[u].live /\ Q[w].replica[u] = P[w].replica[u]
             /\ BusyReplica(Q[w].replica[u]) => BusyReplica(P[w].replica[u])
             /\ Q[w].replica[u] # P[w].replica[u] =>
                  u = t /\ w \in deleted
             /\ w \in deleted => ~Q[w].replica[t].live
  BY <1>1, <1>2, <1>7, <1>8
<1>10. BusyIsLive(Q)
  BY <1>0, <1>1, <1>2, <1>5, <1>7, <1>8 DEF BusyIsLive
<1>11. \A w \in InPool(P) : LiveOn(Q, w) \subseteq LiveOn(P, w)
  BY <1>9 DEF LiveOn
<1>12. PoolKept(Q)
  BY <1>4, <1>5, <1>6, <1>10, <1>11, PoolShrinks
<1>13. ASSUME NEW w \in InPool(P), NEW u \in PoolTiers
       PROVE  /\ BusyReplica(P[w].replica[u]) =>
                    BusyReplica(Q[w].replica[u]) /\ u \in LiveOn(Q, w)
              /\ ProtectedVariant(P, w) /\ u \in LiveBacking(P, w) => u \in LiveBacking(Q, w)
  <2>1. CASE Q[w].replica[u] = P[w].replica[u]
    BY <1>0, <2>1 DEF BusyIsLive, LiveBacking, LiveOn
  <2>2. CASE Q[w].replica[u] # P[w].replica[u]
    <3>1. u = t /\ w \in deleted
      BY <1>9, <2>2
    <3> QED BY <1>1, <3>1 DEF ReadyReplica, LiveBacking
  <2> QED BY <2>1, <2>2
<1>14. Spares(P, Q)
  BY <1>5, <1>6, <1>13 DEF Spares, LiveBacking, LiveOn
<1>15. Residents(Q, t) = Residents(P, t) \ deleted
  BY <1>1, <1>2, <1>5, <1>9 DEF Residents, LiveOn
<1> QED BY <1>1, <1>2, <1>12, <1>14, <1>15 DEF Q

(* The Replica that is attached when it fits.                              *)
Attached(isBacking) == [NoPlacement EXCEPT !.live = TRUE, !.backing = isBacking]

(* Attaching a Replica to a tier with room for its bytes keeps the limits. *)
LEMMA AttachedFits ==
    ASSUME NEW Q, PoolKept(Q), NEW v \in InPool(Q), NEW t \in PoolTiers, t \notin LiveOn(Q, v),
           TierUsage(Q, t) + BytesOf[v] <= CapacityOf[t],
           NEW isBacking \in BOOLEAN,
           NEW R, R = [Q EXCEPT ![v].replica[t] = Attached(isBacking)]
    PROVE  PoolKept(R) /\ Spares(Q, R)
<1> DEFINE x == Q[v]
           q == Attached(isBacking)
           y == [x EXCEPT !.replica = [@ EXCEPT ![t] = q]]
<1>1. /\ PoolTyped(Q) /\ v \in Variants /\ BusyIsLive(Q) /\ PoolWithin(Q)
      /\ InPool(Q) \subseteq Variants
  BY DEF PoolKept, InPool
<1>2. q \in ReplicaRecords /\ q.live /\ ~BusyReplica(q)
  <2>1. NoPlacement \in ReplicaRecords /\ NoPlacement.lease = 0 /\ NoPlacement.copy = 0
        /\ NoPlacement.exec = 0
    BY DEF NoPlacement, ReplicaRecords
  <2>2. q = [NoPlacement EXCEPT !.live = TRUE, !.backing = isBacking]
    BY DEF Attached
  <2> HIDE DEF q
  <2>3. q \in ReplicaRecords /\ q.live /\ q.lease = 0 /\ q.copy = 0 /\ q.exec = 0
    BY <2>1, <2>2 DEF ReplicaRecords
  <2> QED BY <2>3 DEF BusyReplica, InUseOf
<1>3. R = [Q EXCEPT ![v] = y]
  OBVIOUS
<1>4. x \in Stored /\ x.replica \in [PoolTiers -> ReplicaRecords]
  BY <1>1, StoredInPool DEF Stored
<1> HIDE DEF q
<1>5. /\ y.replica = [x.replica EXCEPT ![t] = q] /\ y.maturity = x.maturity
      /\ y.protected = x.protected /\ y \in Stored
  <2>1. [x.replica EXCEPT ![t] = q] \in [PoolTiers -> ReplicaRecords]
    BY <1>2, <1>4
  <2> QED BY <1>4, <2>1 DEF Stored
<1>6. R[v] = y /\ \A w \in Variants \ {v} : R[w] = Q[w]
  BY <1>1, <1>3 DEF PoolTyped
<1> HIDE DEF y
<1>7. PoolTyped(R)
  BY <1>1, <1>3, <1>5 DEF PoolTyped
<1>8. InPool(R) = InPool(Q)
  <2>1. v \in InPool(R)
    BY <1>1, <1>5, <1>6, <1>7, StoredInPool
  <2> QED BY <1>1, <1>6, <2>1 DEF InPool
<1>9. /\ y.replica[t] = q /\ \A u \in PoolTiers \ {t} : y.replica[u] = x.replica[u]
  BY <1>4, <1>5
<1>10. ASSUME NEW w \in InPool(Q), NEW u \in PoolTiers
       PROVE  R[w].replica[u] = IF w = v /\ u = t THEN q ELSE Q[w].replica[u]
  <2>1. CASE w = v
    <3>1. R[w].replica[u] = y.replica[u]
      BY <1>6, <2>1
    <3>2. y.replica[u] = IF u = t THEN q ELSE x.replica[u]
      BY <1>9
    <3> QED BY <2>1, <3>1, <3>2
  <2>2. CASE w # v
    BY <1>1, <1>6, <2>2
  <2> QED BY <2>1, <2>2
<1>11. \A w \in InPool(Q) : ProtectedVariant(R, w) <=> ProtectedVariant(Q, w)
  BY <1>1, <1>5, <1>6 DEF ProtectedVariant
<1>12. ~Q[v].replica[t].live /\ ~BusyReplica(Q[v].replica[t])
  BY <1>1 DEF LiveOn, BusyIsLive
<1>13. BusyIsLive(R)
  BY <1>1, <1>2, <1>8, <1>10 DEF BusyIsLive
<1>14. ASSUME NEW w \in InPool(Q), NEW u \in PoolTiers
       PROVE  /\ BusyReplica(Q[w].replica[u]) =>
                   BusyReplica(R[w].replica[u]) /\ u \in LiveOn(R, w)
              /\ u \in LiveBacking(Q, w) => u \in LiveBacking(R, w)
              /\ u # t => (u \in LiveOn(R, w) <=> u \in LiveOn(Q, w))
              /\ u = t => (u \in LiveOn(R, w) <=> w = v \/ u \in LiveOn(Q, w))
  BY <1>1, <1>2, <1>10, <1>12 DEF BusyIsLive, LiveOn, LiveBacking
<1>15. Spares(Q, R)
  BY <1>8, <1>11, <1>14 DEF Spares, LiveBacking, LiveOn
<1>16. \A u \in PoolTiers : Residents(R, u) = IF u = t THEN Residents(Q, t) \cup {v}
                                                       ELSE Residents(Q, u)
  BY <1>8, <1>14 DEF Residents
<1>17. ASSUME NEW u \in PoolTiers PROVE TierUsage(R, u) <= CapacityOf[u]
  <2>1. CASE u # t
    <3>1. TierUsage(R, u) = TierUsage(Q, u)
      BY <1>16, <2>1, UsageIsSum
    <3> QED BY <1>1, <3>1 DEF PoolWithin
  <2>2. CASE u = t
    <3> DEFINE S == Residents(R, t)
    <3>1. S \subseteq InPool(Q) /\ v \in S /\ S \ {v} = Residents(Q, t)
      BY <1>8, <1>12, <1>16 DEF Residents, LiveOn
    <3>2. IsFiniteSet(S) /\ \A w \in S : BytesOf[w] \in Nat
      BY <1>1, <3>1, PoolConstants, FS_Subset DEF PoolKept
    <3> HIDE DEF S
    <3>3. SumOver(BytesOf, S) = BytesOf[v] + SumOver(BytesOf, S \ {v})
          /\ SumOver(BytesOf, S \ {v}) \in Nat /\ BytesOf[v] \in Nat
      <4>1. IsFiniteSet(S \ {v}) /\ \A w \in S \ {v} : BytesOf[w] \in Nat
        BY <3>2, FS_Subset
      <4>2. SumOver(BytesOf, S \ {v}) \in Nat
        BY <4>1, SumNat
      <4> QED BY <3>1, <3>2, <4>2, SumRemove
    <3>4. TierUsage(R, t) = SumOver(BytesOf, S) /\ TierUsage(Q, t) = SumOver(BytesOf, S \ {v})
      BY <3>1, UsageIsSum DEF S
    <3>5. TierUsage(R, t) = TierUsage(Q, t) + BytesOf[v]
      BY <3>3, <3>4
    <3> QED BY <2>2, <3>5
  <2> QED BY <2>1, <2>2
<1>18. \A c \in Contents : Bucket(R, c) = Bucket(Q, c) /\ Protected(R, c) = Protected(Q, c)
  BY <1>8, <1>11 DEF Bucket, Protected
<1>19. PoolWithin(R)
  BY <1>1, <1>17, <1>18 DEF PoolWithin
<1> QED BY <1>7, <1>8, <1>13, <1>15, <1>19 DEF PoolKept

(* A step that evicts nothing it may not.                                  *)
LEMMA SparingKeeps ==
    ASSUME PoolFits, PoolKept(variant'), Spares(variant, variant'),
           UNCHANGED <<namespace, orders, decisions>>
    PROVE  StepKeeps
<1>1. InPool(variant') = InPool(variant)
  BY DEF Spares
<1>2. GraceStep
  BY DEF Spares, GraceStep
<1>3. OrdersRank' /\ DecisionsFit' /\ namespace' \in [Models -> NamespaceStates]
  BY <1>1 DEF PoolFits, OrdersRank, DecisionsFit, orders
<1> QED BY <1>1, <1>2, <1>3 DEF StepKeeps, PoolFits, VictimStep

(* What spares a pool twice spares it.                                     *)
LEMMA SparingTwice ==
    ASSUME NEW P, NEW Q, NEW R, Spares(P, Q), Spares(Q, R)
    PROVE  Spares(P, R)
  BY DEF Spares

(* Attaching a Replica, or only making room for it, keeps the invariant.   *)
LEMMA AttachKeeps ==
    ASSUME PoolFits, NEW v \in Variants, NEW t \in PoolTiers,
           NEW wanted \in {"default", "backing", "copy"}, AttachReplica(v, t, wanted)
    PROVE  StepKeeps
<1> DEFINE isBacking == IF wanted = "default" THEN LiveBacking(variant, v) = {}
                                              ELSE wanted = "backing"
           deleted == MadeRoom(variant, t, BytesOf[v])
           roomy == Roomy(variant, t, deleted)
           full == [roomy EXCEPT ![v].replica[t] = Attached(isBacking)]
<1>1. /\ v \in InPool(variant) /\ t \notin LiveOn(variant, v)
      /\ variant' = IF Fits(variant, t, deleted, BytesOf[v]) THEN full ELSE roomy
      /\ UNCHANGED <<namespace, orders, decisions>>
  BY DEF AttachReplica, Attached, Roomy
<1>2. PoolKept(variant)
  BY DEF PoolFits
<1>3. deleted \subseteq Evictable(variant, t) /\ isBacking \in BOOLEAN
  BY <1>2, RoomIsEvictable
<1>4. deleted \subseteq Residents(variant, t) /\ v \notin deleted
  BY <1>1, <1>3 DEF Evictable, Residents, ReadyReplica, LiveOn
<1> HIDE DEF deleted, isBacking
<1>5. /\ PoolKept(roomy) /\ Spares(variant, roomy)
      /\ Residents(roomy, t) = Residents(variant, t) \ deleted
      /\ \A w \in InPool(variant) \ deleted : roomy[w] = variant[w]
  BY <1>2, <1>3, RoomSpares
<1> HIDE DEF roomy
<1>6. CASE ~Fits(variant, t, deleted, BytesOf[v])
  <2>1. variant' = roomy
    BY <1>1, <1>6
  <2> QED BY <1>1, <1>5, <2>1, SparingKeeps
<1>7. CASE Fits(variant, t, deleted, BytesOf[v])
  <2>1. v \in InPool(roomy) /\ t \notin LiveOn(roomy, v)
    BY <1>1, <1>4, <1>5 DEF Spares, LiveOn
  <2>2. TierUsage(roomy, t) = TierUsage(variant, t) - SumOver(BytesOf, deleted)
    BY <1>2, <1>4, <1>5, UsageWithout
  <2>3. TierUsage(variant, t) - SumOver(BytesOf, deleted) + BytesOf[v] <= CapacityOf[t]
    BY <1>7 DEF Fits, SumOver
  <2>4. TierUsage(roomy, t) + BytesOf[v] <= CapacityOf[t]
    BY <2>2, <2>3
  <2>5. PoolKept(full) /\ Spares(roomy, full)
    BY <1>3, <1>5, <2>1, <2>4, AttachedFits
  <2>6. Spares(variant, full)
    BY <1>5, <2>5, SparingTwice
  <2>7. variant' = full
    BY <1>1, <1>7
  <2> QED BY <1>1, <2>5, <2>6, <2>7, SparingKeeps
<1> QED BY <1>6, <1>7

-----------------------------------------------------------------------------
(* Publication.  What it replaces is idle and past its grace, and leaves   *)
(* room for one more.                                                      *)
LEMMA ReplacedIsReplaceable ==
    ASSUME PoolFits, NEW d \in decisions, Publishable(d)
    PROVE  LET c == ContentOf[d.source]
           IN  /\ c \in Contents /\ d.source \in Variants
               /\ Replaced(d) \subseteq Replaceable(variant, c)
               /\ Cardinality(Bucket(variant, c) \ Replaced(d)) < MaxVariants
               /\ Replaced(d) # {} => d.reason = "mismatch"
<1> DEFINE c == ContentOf[d.source]
           B == Bucket(variant, c)
<1>1. d \in DecisionRecords /\ (d.victim # NoVictim => d.reason = "mismatch")
  BY DEF PoolFits, DecisionsFit
<1>2. d.source \in Variants /\ c \in Contents
  BY <1>1, PoolConstants DEF DecisionRecords
<1>3. IsFiniteSet(B) /\ Cardinality(B) <= MaxVariants /\ MaxVariants \in Nat
      /\ Cardinality(B) \in Nat
  <2>1. IsFiniteSet(InPool(variant)) /\ B \subseteq InPool(variant)
    BY DEF PoolFits, PoolKept, Bucket
  <2>2. IsFiniteSet(B) /\ Cardinality(B) \in Nat
    BY <2>1, FS_Subset, FS_CardinalityType
  <2>3. Cardinality(B) <= MaxVariants /\ MaxVariants \in Nat
    BY <1>2, PoolConstants DEF PoolFits, PoolKept, PoolWithin
  <2> QED BY <2>2, <2>3
<1>4. CASE Full(c)
  <2>1. d.victim # NoVictim /\ d.victim \in Replaceable(variant, c)
    BY <1>4 DEF Publishable, LowestValue
  <2>2. Replaced(d) = {d.victim} /\ d.victim \in B
    BY <2>1 DEF Replaced, Replaceable
  <2> HIDE DEF B, c
  <2>3. Cardinality(B \ {d.victim}) = Cardinality(B) - 1
    BY <1>3, <2>2, FS_RemoveElement
  <2>4. Cardinality(B \ Replaced(d)) < MaxVariants
    BY <1>3, <2>2, <2>3
  <2> QED BY <1>1, <1>2, <2>1, <2>2, <2>4 DEF B, c
<1>5. CASE ~Full(c)
  <2>1. Replaced(d) = {} /\ ~(Cardinality(B) >= MaxVariants)
    BY <1>5 DEF Publishable, Replaced, Full
  <2>2. B \ Replaced(d) = B
    BY <2>1
  <2> HIDE DEF B
  <2>3. Cardinality(B \ Replaced(d)) < MaxVariants
    BY <1>3, <2>1, <2>2
  <2> QED BY <1>2, <2>1, <2>3 DEF B
<1> QED BY <1>4, <1>5

(* Few are the newest of a part of what an order ranks.                    *)
LEMMA FewOfThemNewest ==
    ASSUME NEW S, IsFiniteSet(S), NEW order, NEW T, Ranks(order, T), S \subseteq T, NEW n \in Nat
    PROVE  Cardinality(NewestOf(S, order, n)) <= n
<1> DEFINE part == {p \in order : p[1] \in S /\ p[2] \in S}
<1>1. Ranks(part, S)
  BY DEF Ranks, Before
<1>2. \A v \in S : Newer(S, part, v) = Newer(S, order, v)
  BY DEF Newer, Before
<1> HIDE DEF part
<1>3. NewestOf(S, part, n) = NewestOf(S, order, n)
  BY <1>2 DEF NewestOf
<1> QED BY <1>1, <1>3, FewAreNewest

(* The pool after publication, before and after protections are bounded.   *)
PoolWith(d) ==
  [w \in Variants |-> IF w = d.source THEN NewVariant(d.reason)
                      ELSE IF w \in Replaced(d) THEN NotStored ELSE variant[w]]

(* The record of a new Variant.                                            *)
LEMMA NewVariantFits ==
    ASSUME NEW reason \in MaterializationReasons
    PROVE  /\ NewVariant(reason) \in Stored
           /\ NewVariant(reason).replica = [t \in PoolTiers |-> NoPlacement]
<1> DEFINE r == [t \in PoolTiers |-> NoPlacement]
           s == [lookups |-> 0, hits |-> 0, comparisons |-> 0, selections |-> 0, saved |-> 0]
           y == [state |-> "active", artifact |-> FALSE, replica |-> r, maturity |-> "probation",
                 protected |-> TRUE, window |-> 0, stats |-> s, reason |-> reason]
<1>1. NewVariant(reason) = y
  BY DEF NewVariant
<1>2. NoPlacement \in ReplicaRecords /\ s \in Stats /\ "probation" \in Maturities
  BY DEF NoPlacement, ReplicaRecords, Stats, Maturities
<1>3. r \in [PoolTiers -> ReplicaRecords]
  BY <1>2
<1> HIDE DEF r, s
<1>4. y \in Stored /\ y.replica = r
  BY <1>2, <1>3 DEF Stored
<1> HIDE DEF y
<1> QED BY <1>1, <1>4 DEF r

(* The record of a Variant whose protection is recomputed.                 *)
LEMMA BoundRecord ==
    ASSUME NEW x \in Stored, NEW few \in BOOLEAN, NEW y, y = [x EXCEPT !.protected = few]
    PROVE  /\ y \in Stored /\ y.replica = x.replica /\ y.maturity = x.maturity
           /\ y.protected = few
  BY DEF Stored

(* What publication makes of the pool.                                     *)
PublishedAs(d, order, P) ==
  LET c == ContentOf[d.source]
      rows == {w \in Bucket(P, c) : P[w].maturity = "probation"}
  IN  /\ PoolTyped(P) /\ InPool(P) = (InPool(variant) \ Replaced(d)) \cup {d.source}
      /\ \A w \in InPool(variant) \ Replaced(d) : P[w].replica = variant[w].replica
      /\ P[d.source].replica = [t \in PoolTiers |-> NoPlacement]
      /\ \A w \in InPool(P) : ContentOf[w] # c => P[w] = variant[w]
      /\ Protected(P, c) = NewestOf(rows, order, MaxProtected)

(* It holds the Variants that were kept and the new one, of which the      *)
(* newest on probation are protected.                                      *)
LEMMA PublishedPool ==
    ASSUME PoolFits, NEW d \in decisions, d.source \notin InPool(variant), Publishable(d),
           NEW order
    PROVE  PublishedAs(d, order, BoundProtection(PoolWith(d), order, ContentOf[d.source]))
<1> DEFINE v == d.source
           c == ContentOf[v]
           gone == Replaced(d)
           Q == PoolWith(d)
           kept == InPool(variant) \ gone
           few == {w \in Bucket(Q, c) : Q[w].maturity = "probation"}
           small(w) == Cardinality({u \in few : Before(order, w, u)}) < MaxProtected
           P == BoundProtection(Q, order, c)
<1>1. PoolTyped(variant) /\ InPool(variant) \subseteq Variants
  BY DEF PoolFits, PoolKept, InPool
<1>2. v \in Variants /\ d.reason \in MaterializationReasons /\ gone \subseteq InPool(variant) /\ v \notin gone
  <2>1. gone \subseteq Replaceable(variant, c)
    BY ReplacedIsReplaceable
  <2>2. d \in DecisionRecords
    BY DEF PoolFits, DecisionsFit
  <2> QED BY <2>1, <2>2 DEF DecisionRecords, Replaceable, Bucket
<1>3. /\ Q[v] = NewVariant(d.reason) /\ \A w \in gone : Q[w] = NotStored
      /\ \A w \in Variants : w # v /\ w \notin gone => Q[w] = variant[w]
      /\ Q \in [Variants -> {NewVariant(d.reason), NotStored} \cup {variant[w] : w \in Variants}]
  BY <1>1, <1>2 DEF PoolWith
<1>4. P = [w \in Variants |-> IF w \in few THEN [Q[w] EXCEPT !.protected = small(w)] ELSE Q[w]]
  BY DEF BoundProtection
<1> HIDE DEF v, Q, gone, P
<1>5. PoolTyped(Q)
  <2>1. NewVariant(d.reason) \in Stored
    BY <1>2, NewVariantFits
  <2> HIDE DEF NewVariant, NotStored
  <2>2. \A w \in Variants : Q[w] \in Stored \cup {NotStored}
    BY <1>1, <1>2, <1>3, <2>1 DEF PoolTyped
  <2> QED BY <1>3, <2>2 DEF PoolTyped
<1>6. InPool(Q) = kept \cup {v}
  <2>1. v \in InPool(Q)
    BY <1>2, <1>3, <1>5, NewVariantFits, StoredInPool
  <2>2. \A w \in gone : w \notin InPool(Q)
    BY <1>1, <1>2, <1>3, <1>5, StoredInPool
  <2>3. \A w \in Variants : w # v /\ w \notin gone => (w \in InPool(Q) <=> w \in InPool(variant))
    BY <1>3 DEF InPool
  <2>4. InPool(Q) \subseteq Variants
    BY DEF InPool
  <2> QED BY <1>1, <1>2, <2>1, <2>2, <2>3, <2>4
<1>7. few \subseteq InPool(Q) /\ \A w \in few : ContentOf[w] = c
  BY DEF Bucket
<1>8. ASSUME NEW w \in InPool(Q)
      PROVE  /\ P[w] \in Stored /\ P[w].replica = Q[w].replica /\ P[w].maturity = Q[w].maturity
             /\ w \in few => P[w].protected = small(w)
             /\ w \notin few => P[w] = Q[w]
  <2>1. w \in Variants /\ Q[w] \in Stored
    BY <1>5, StoredInPool DEF InPool
  <2>2. CASE w \in few
    <3>1. P[w] = [Q[w] EXCEPT !.protected = small(w)] /\ small(w) \in BOOLEAN
      BY <1>4, <2>1, <2>2
    <3> HIDE DEF small
    <3> QED BY <2>1, <2>2, <3>1, BoundRecord
  <2>3. CASE w \notin few
    <3>1. P[w] = Q[w]
      BY <1>4, <2>1, <2>3
    <3> QED BY <2>1, <2>3, <3>1
  <2> QED BY <2>2, <2>3
<1>9. \A w \in Variants : w \notin InPool(Q) => P[w] = Q[w]
  BY <1>4, <1>7
<1>10. PoolTyped(P)
  <2>1. \A w \in Variants : P[w] \in Stored \cup {NotStored}
    BY <1>5, <1>8, <1>9 DEF PoolTyped
  <2> HIDE DEF few, small
  <2> QED BY <1>4, <2>1 DEF PoolTyped
<1>11. InPool(P) = InPool(Q)
  <2>1. \A w \in InPool(Q) : w \in InPool(P)
    BY <1>8, <1>10, StoredInPool DEF InPool
  <2>2. \A w \in Variants : w \notin InPool(Q) => w \notin InPool(P)
    BY <1>9 DEF InPool
  <2> QED BY <2>1, <2>2 DEF InPool
<1> DEFINE rows == {w \in Bucket(P, c) : P[w].maturity = "probation"}
<1>12. rows = few
  BY <1>8, <1>11 DEF Bucket
<1>13. Protected(P, c) = NewestOf(rows, order, MaxProtected)
  <2>1. Protected(P, c) = {w \in few : P[w].protected}
    BY <1>8, <1>11 DEF Protected, ProtectedVariant, Bucket
  <2>2. NewestOf(rows, order, MaxProtected) = {w \in few : small(w)}
    BY <1>12 DEF NewestOf, Newer
  <2>3. \A w \in few : P[w].protected = small(w)
    BY <1>7, <1>8
  <2> HIDE DEF few, small
  <2> QED BY <2>1, <2>2, <2>3, Zenon
<1>14. ASSUME NEW w \in kept PROVE P[w].replica = variant[w].replica
  <2>1. w \in InPool(Q) /\ w \in Variants /\ w # v /\ w \notin gone
    BY <1>1, <1>6 DEF v
  <2>2. Q[w] = variant[w]
    BY <1>3, <2>1
  <2>3. P[w].replica = Q[w].replica
    BY <1>8, <2>1
  <2> QED BY <2>2, <2>3
<1>15. P[v].replica = [t \in PoolTiers |-> NoPlacement]
  <2>1. P[v].replica = Q[v].replica
    BY <1>6, <1>8
  <2>2. Q[v] = NewVariant(d.reason)
    BY <1>3
  <2> HIDE DEF NewVariant
  <2> QED BY <1>2, <2>1, <2>2, NewVariantFits
<1>16. \A w \in InPool(P) : ContentOf[w] # c => P[w] = variant[w]
  BY <1>1, <1>2, <1>3, <1>6, <1>7, <1>8, <1>11
<1> HIDE DEF few, rows
<1>17. PublishedAs(d, order, P)
  BY <1>6, <1>10, <1>11, <1>13, <1>14, <1>15, <1>16 DEF v, gone, rows, PublishedAs
<1> QED BY <1>17 DEF P, Q, v

(* Publication keeps the limits and evicts only what it may.               *)
LEMMA PublishKeeps ==
    ASSUME PoolFits, NEW d \in decisions, Publish(d) PROVE StepKeeps
<1> DEFINE v == d.source
           c == ContentOf[v]
           gone == Replaced(d)
           kept == InPool(variant) \ gone
           P == variant'
           order == Newest(Without(registered, gone), kept, v)
           rows == {w \in Bucket(P, c) : P[w].maturity = "probation"}
<1>1. /\ v \notin InPool(variant) /\ Publishable(d) /\ P = BoundProtection(PoolWith(d), order, c)
      /\ registered' = order
      /\ accessed' = Newest(Without(accessed, gone), kept, v)
      /\ used' = Newest(Without(used, gone), kept, v)
      /\ decisions' = decisions \ {d} /\ namespace' = namespace
  BY DEF Publish, PoolWith
<1>2. /\ PoolKept(variant) /\ OrdersRank /\ DecisionsFit
      /\ namespace \in [Models -> NamespaceStates]
  BY DEF PoolFits
<1>3. /\ c \in Contents /\ v \in Variants /\ gone \subseteq Replaceable(variant, c)
      /\ Cardinality(Bucket(variant, c) \ gone) < MaxVariants
      /\ gone # {} => d.reason = "mismatch"
  BY <1>1, ReplacedIsReplaceable
<1>4. /\ PoolTyped(P) /\ InPool(P) = kept \cup {v}
      /\ \A w \in kept : P[w].replica = variant[w].replica
      /\ P[v].replica = [t \in PoolTiers |-> NoPlacement]
      /\ \A w \in InPool(P) : ContentOf[w] # c => P[w] = variant[w]
      /\ Protected(P, c) = NewestOf(rows, order, MaxProtected)
  <2> HIDE DEF order, P
  <2>1. PublishedAs(d, order, BoundProtection(PoolWith(d), order, ContentOf[d.source]))
    BY <1>1, PublishedPool
  <2>2. PublishedAs(d, order, P)
    BY <1>1, <2>1
  <2> QED BY <2>2 DEF PublishedAs
<1> HIDE DEF P, order
<1>5. ~NoPlacement.live /\ ~BusyReplica(NoPlacement)
  BY DEF NoPlacement, BusyReplica, InUseOf
<1>6. \A t \in PoolTiers : ~P[v].replica[t].live /\ ~BusyReplica(P[v].replica[t])
  BY <1>4, <1>5
<1>7. gone \subseteq InPool(variant) /\ \A w \in gone : ContentOf[w] = c
      /\ ~BusyVariant(variant, w) /\ ~ProtectedVariant(variant, w)
  BY <1>3 DEF Replaceable, Bucket
<1>8. IsFiniteSet(InPool(variant)) /\ IsFiniteSet(kept) /\ IsFiniteSet(InPool(P))
  <2>1. IsFiniteSet(InPool(variant)) /\ kept \subseteq InPool(variant)
    BY <1>2 DEF PoolKept
  <2>2. IsFiniteSet(kept)
    BY <2>1, FS_Subset
  <2> HIDE DEF kept
  <2>3. IsFiniteSet(kept \cup {v})
    BY <2>2, FS_AddElement
  <2> QED BY <1>4, <2>1, <2>2, <2>3
<1>9. BusyIsLive(P)
  BY <1>2, <1>4, <1>6 DEF BusyIsLive, PoolKept
<1>10. \A t \in PoolTiers : TierUsage(P, t) <= CapacityOf[t]
  <2>1. \A t \in PoolTiers : Residents(P, t) \subseteq Residents(variant, t)
    BY <1>4, <1>6 DEF Residents, LiveOn
  <2> QED BY <1>2, <2>1, UsageShrinks
<1>11. ASSUME NEW e \in Contents
       PROVE  /\ Cardinality(Bucket(P, e)) <= MaxVariants
              /\ Cardinality(Protected(P, e)) <= MaxProtected
  <2>0. MaxVariants \in Nat /\ MaxProtected \in Nat
    BY PoolConstants
  <2>1. CASE e # c
    <3>1. Bucket(P, e) \subseteq Bucket(variant, e)
      BY <1>4, <2>1 DEF Bucket
    <3>2. Protected(P, e) \subseteq Protected(variant, e)
      BY <1>4, <2>1, <3>1 DEF Protected, ProtectedVariant, Bucket
    <3>3. IsFiniteSet(Bucket(variant, e)) /\ IsFiniteSet(Protected(variant, e))
      BY <1>8, FS_Subset DEF Protected, Bucket
    <3>4. /\ Cardinality(Bucket(variant, e)) <= MaxVariants
          /\ Cardinality(Protected(variant, e)) <= MaxProtected
      BY <1>2 DEF PoolKept, PoolWithin
    <3> QED BY <2>0, <3>1, <3>2, <3>3, <3>4, PartIsSmall
  <2>2. CASE e = c
    <3> DEFINE R == Bucket(variant, c) \ gone
    <3>1. Bucket(P, c) = R \cup {v} /\ v \notin R
      BY <1>1, <1>4 DEF Bucket
    <3>2. IsFiniteSet(R)
      BY <1>8, FS_Subset DEF Bucket
    <3> HIDE DEF R
    <3>3. Cardinality(R \cup {v}) = Cardinality(R) + 1 /\ Cardinality(R) \in Nat
      BY <3>1, <3>2, FS_AddElement, FS_CardinalityType
    <3>4. Cardinality(R) < MaxVariants
      BY <1>3 DEF R
    <3>5. Cardinality(Bucket(P, c)) <= MaxVariants
      BY <2>0, <3>1, <3>3, <3>4
    <3>6. Ranks(order, kept \cup {v})
      <4>1. Ranks(Without(registered, gone), kept)
        BY <1>2, WithoutRanks DEF OrdersRank
      <4> HIDE DEF kept
      <4> QED BY <4>1, NewestRanks DEF order
    <3>7. rows \subseteq kept \cup {v} /\ IsFiniteSet(rows)
      BY <1>4, <1>8, FS_Subset DEF Bucket
    <3> HIDE DEF kept, rows
    <3>8. Cardinality(NewestOf(rows, order, MaxProtected)) <= MaxProtected
      BY <2>0, <3>6, <3>7, FewOfThemNewest
    <3> QED BY <1>4, <2>2, <3>5, <3>8
  <2> QED BY <2>1, <2>2
<1>12. PoolKept(P)
  BY <1>4, <1>8, <1>9, <1>10, <1>11 DEF PoolKept, PoolWithin
<1>13. OrdersRank'
  <2>1. ASSUME NEW o, Ranks(o, InPool(variant))
        PROVE  Ranks(Newest(Without(o, gone), kept, v), kept \cup {v})
    <3>1. Ranks(Without(o, gone), kept)
      BY <2>1, WithoutRanks
    <3> HIDE DEF kept
    <3> QED BY <3>1, NewestRanks
  <2>2. InPool(variant') = kept \cup {v}
    BY <1>4 DEF P
  <2> HIDE DEF kept
  <2> QED BY <1>1, <1>2, <2>1, <2>2 DEF OrdersRank, order
<1>14. DecisionsFit'
  BY <1>1, <1>2 DEF DecisionsFit
<1>15. GraceStep
  <2> SUFFICES ASSUME NEW w \in InPool(variant)
               PROVE  /\ \A t \in PoolTiers : BusyReplica(variant[w].replica[t]) =>
                            w \in InPool(P) /\ t \in LiveOn(P, w)
                      /\ ProtectedVariant(variant, w) =>
                            w \in InPool(P) /\ LiveBacking(variant, w) \subseteq LiveBacking(P, w)
    BY DEF GraceStep, P
  <2>1. CASE w \in gone
    BY <1>7, <2>1 DEF BusyVariant
  <2>2. CASE w \notin gone
    <3>1. w \in InPool(P) /\ P[w].replica = variant[w].replica
      BY <1>4, <2>2
    <3>2. LiveOn(P, w) = LiveOn(variant, w) /\ LiveBacking(P, w) = LiveBacking(variant, w)
      BY <3>1 DEF LiveOn, LiveBacking
    <3>3. \A t \in PoolTiers : BusyReplica(variant[w].replica[t]) => t \in LiveOn(variant, w)
      BY <1>2 DEF PoolKept, BusyIsLive, LiveOn
    <3> QED BY <3>1, <3>2, <3>3
  <2> QED BY <2>1, <2>2
<1>16. VictimStep
  <2> SUFFICES ASSUME NEW w \in InPool(variant), w \notin InPool(P)
               PROVE  \E x \in decisions \ decisions' : x.victim = w /\ x.reason = "mismatch"
    BY DEF VictimStep, P
  <2>1. w \in gone
    BY <1>4
  <2>2. d.victim = w /\ d.reason = "mismatch"
    BY <1>3, <2>1 DEF Replaced
  <2> QED BY <1>1, <2>2
<1> QED BY <1>1, <1>2, <1>12, <1>13, <1>14, <1>15, <1>16 DEF StepKeeps, PoolFits, P

-----------------------------------------------------------------------------
(***************************************************************************)
(* The theorems.                                                           *)
(***************************************************************************)
(* A step that changes nothing keeps the invariant.                        *)
LEMMA PoolStutters == ASSUME PoolFits, UNCHANGED vars PROVE StepKeeps
<1>1. variant' = variant /\ UNCHANGED <<namespace, orders, decisions>>
  BY DEF vars
<1>2. OrdersStillRank /\ DecisionsFit' /\ namespace' \in [Models -> NamespaceStates]
  BY <1>1 DEF PoolFits, OrdersRank, OrdersStillRank, DecisionsFit, orders
<1> QED BY <1>1, <1>2, VariantsUnchanged

(* Every step keeps the invariant and only evicts what it may.             *)
LEMMA PoolSteps == ASSUME PoolFits, [Next]_vars PROVE StepKeeps
<1>1. ASSUME NEW m \in Models, ActivateNamespace(m) PROVE StepKeeps
  BY <1>1, ActivationKeeps
<1>2. ASSUME NEW m \in Models, DeleteNamespace(m) \/ SwitchModel(m) PROVE StepKeeps
  BY <1>2, NamespaceKeeps
<1>3. ASSUME NEW v \in Variants, RegisterArtifact(v) PROVE StepKeeps
  BY <1>3, ArtifactKeeps
<1>4. ASSUME NEW v \in Variants, NEW t \in PoolTiers, NEW wanted \in {"default", "backing", "copy"},
             AttachReplica(v, t, wanted)
      PROVE  StepKeeps
  BY <1>4, AttachKeeps
<1>5. ASSUME NEW v \in Variants, NEW t \in PoolTiers, NEW counter \in Uses,
             Enter(v, t, counter) \/ Leave(v, t, counter)
      PROVE  StepKeeps
  BY <1>5, UseKeeps
<1>6. ASSUME NEW v \in Variants, NEW t \in PoolTiers, BindReplica(v, t) PROVE StepKeeps
  BY <1>6, BindKeeps
<1>7. ASSUME NEW v \in Variants, NEW stage \in Observed, RecordObservation(v, stage) PROVE StepKeeps
  BY <1>7, ObservationKeeps
<1>8. ASSUME NEW c \in Contents, FinishContentLookup(c) PROVE StepKeeps
  BY <1>8, LookupKeeps
<1>9. ASSUME NEW v \in Variants, NEW reason \in MaterializationReasons, Decide(v, reason) PROVE StepKeeps
  BY <1>9, DecisionFits
<1>10. ASSUME NEW d \in decisions, Publish(d) PROVE StepKeeps
  BY <1>10, PublishKeeps
<1>11. ASSUME NEW d \in decisions, PublishStored(d) \/ PublicationRefused(d) PROVE StepKeeps
  BY <1>11, DecisionDropped
<1>12. ASSUME UNCHANGED vars PROVE StepKeeps
  BY <1>12, PoolStutters
<1> QED BY <1>1, <1>2, <1>3, <1>4, <1>5, <1>6, <1>7, <1>8, <1>9, <1>10, <1>11, <1>12, Zenon DEF Next

(* The invariant holds throughout.                                         *)
THEOREM PoolStaysFit == Spec => []PoolFits
<1>1. Init => PoolFits
  BY PoolStarts
<1>2. PoolFits /\ [Next]_vars => PoolFits'
  BY PoolSteps DEF StepKeeps
<1> QED BY <1>1, <1>2, PTL DEF Spec

(* The types: what is stored is well formed, and each order ranks exactly  *)
(* the Variants stored.                                                    *)
THEOREM PoolStaysTyped == Spec => []TypeOK
<1>1. PoolFits => TypeOK
  BY DEF PoolFits, PoolKept, PoolTyped, OrdersRank, DecisionsFit, DecisionRecords, TypeOK
<1> QED BY <1>1, PoolStaysFit, PTL

(* No tier ever holds more bytes than its capacity, for any number of      *)
(* Variants of any sizes (_ensure_capacity, v7_source_pool.py:704-735).    *)
THEOREM CapacityStaysKept == Spec => []CapacityKept
<1>1. PoolFits => CapacityKept
  BY DEF PoolFits, PoolKept, PoolWithin, CapacityKept
<1> QED BY <1>1, PoolStaysFit, PTL

(* No content ever has more Variants, or more protected Variants, than its *)
(* limits (register_variant, v7_source_pool.py:236-252;                    *)
(* _bound_probation_protection, :464-492).                                 *)
THEOREM LimitsStayKept == Spec => []VariantLimits
<1>1. PoolFits => VariantLimits
  BY DEF PoolFits, PoolKept, PoolWithin, Protected, VariantLimits, ContentLimit, ProtectedFew
<1> QED BY <1>1, PoolStaysFit, PTL

(* What is evicted is idle, past its grace and named by an admitted        *)
(* mismatch, or goes with its namespace (v7_source_pool.py:704-798).       *)
THEOREM EvictionsAreJustified == Spec => EvictionsJustified
<1>1. PoolFits /\ [Next]_vars => [GraceStep]_vars /\ [VictimStep]_vars
  BY PoolSteps DEF StepKeeps
<1> QED BY <1>1, PoolStaysFit, PTL DEF Spec, EvictionsJustified, GraceKept, NamedVictim


(***************************************************************************)
(* The v6 pool: what a turn of the loops may take, and what it leaves.     *)
(***************************************************************************)
PooledRecords == [replica : [Locations -> Nat], seen : Nat, work : [ActivityKinds -> Nat]]
PoolStates == UNION {[K -> PooledRecords] : K \in SUBSET PoolKeys}

(* A Source of q is as it was in p, but for replicas nobody used.          *)
AsBefore(p, q, k) ==
    /\ q[k].seen = p[k].seen /\ q[k].work = p[k].work
    /\ \A t \in Locations : q[k].replica[t] = p[k].replica[t] \/ q[k].replica[t] = 0
    /\ AtWork(p, k) => q[k].replica = p[k].replica

(* q is p without some idle Sources past their probation, and without some *)
(* idle replicas.                                                          *)
Shrunk(p, q) ==
    /\ Regd(q) \subseteq Regd(p)
    /\ \A k \in Regd(p) \ Regd(q) : MayGo(p, k)
    /\ \A k \in Regd(q) : AsBefore(p, q, k)

ShrunkPool(p, q) == q \in PoolStates /\ Shrunk(p, q)

(* What the Sources of a pool are.                                         *)
LEMMA PoolFacts ==
    ASSUME NEW p \in PoolStates
    PROVE  /\ Regd(p) \subseteq PoolKeys /\ IsFiniteSet(Regd(p))
           /\ p = [k \in Regd(p) |-> p[k]]
           /\ \A k \in Regd(p) :
                /\ p[k] \in PooledRecords
                /\ p[k].replica \in [Locations -> Nat] /\ p[k].seen \in Nat
                /\ p[k].work \in [ActivityKinds -> Nat]
<1>1. PICK K \in SUBSET PoolKeys : p \in [K -> PooledRecords]
  BY DEF PoolStates
<1>2. Regd(p) = K
  BY <1>1 DEF Regd
<1>3. IsFiniteSet(K)
  BY <1>1, FS_Subset, GlobalPoolShape
<1>4. \A k \in K : p[k] \in PooledRecords
  BY <1>1
<1>5. \A r \in PooledRecords : /\ r.replica \in [Locations -> Nat] /\ r.seen \in Nat
                               /\ r.work \in [ActivityKinds -> Nat]
  BY DEF PooledRecords
<1> QED
  BY <1>1, <1>2, <1>3, <1>4, <1>5

(* A pool without some Sources that may go.                                *)
LEMMA WithoutShrinks ==
    ASSUME NEW p \in PoolStates, NEW K, \A k \in K \cap Regd(p) : MayGo(p, k)
    PROVE  ShrunkPool(p, Without_(p, K))
<1> DEFINE q == Without_(p, K)
<1>1. Regd(q) = Regd(p) \ K /\ \A k \in Regd(q) : q[k] = p[k]
  BY DEF Without_, Regd
<1>2. q \in PoolStates
  <2>1. Regd(p) \ K \in SUBSET PoolKeys
    BY PoolFacts
  <2>2. \A k \in Regd(p) \ K : p[k] \in PooledRecords
    BY PoolFacts
  <2>3. q \in [Regd(p) \ K -> PooledRecords]
    BY <2>2 DEF Without_
  <2> QED
    BY <2>1, <2>3 DEF PoolStates
<1> HIDE DEF q
<1>3. Shrunk(p, q)
  BY <1>1 DEF Shrunk, AsBefore
<1> QED
  BY <1>2, <1>3 DEF ShrunkPool, q

(* A pool without one idle replica.                                        *)
LEMMA DropShrinks ==
    ASSUME NEW p \in PoolStates, NEW k \in Regd(p), ~AtWork(p, k), NEW t \in Locations
    PROVE  ShrunkPool(p, DropReplica(p, k, t))
<1> DEFINE q == DropReplica(p, k, t)
           e == [p[k] EXCEPT !.replica[t] = 0]
<1>0. /\ p[k] \in PooledRecords /\ p[k].replica \in [Locations -> Nat]
      /\ p[k].seen \in Nat /\ p[k].work \in [ActivityKinds -> Nat]
  BY PoolFacts
<1>1. /\ e \in PooledRecords /\ e.seen = p[k].seen /\ e.work = p[k].work
      /\ e.replica = [p[k].replica EXCEPT ![t] = 0]
  BY <1>0 DEF PooledRecords
<1>2. /\ Regd(q) = Regd(p) /\ q[k] = e
      /\ \A j \in Regd(p) \ {k} : q[j] = p[j]
      /\ q = [j \in Regd(p) |-> q[j]]
  BY DEF DropReplica, Regd
<1>3. \A u \in Locations : e.replica[u] = p[k].replica[u] \/ e.replica[u] = 0
  BY <1>0, <1>1
<1> HIDE DEF e, q
<1>4. \A j \in Regd(p) : q[j] \in PooledRecords
  BY <1>1, <1>2, PoolFacts
<1>5. q \in PoolStates
  <2>1. Regd(p) \in SUBSET PoolKeys
    BY PoolFacts
  <2>2. q \in [Regd(p) -> PooledRecords]
    BY <1>2, <1>4
  <2> QED
    BY <2>1, <2>2 DEF PoolStates
<1>6. \A j \in Regd(q) : AsBefore(p, q, j)
  <2>1. AsBefore(p, q, k)
    BY <1>1, <1>2, <1>3 DEF AsBefore
  <2>2. \A j \in Regd(p) \ {k} : AsBefore(p, q, j)
    BY <1>2 DEF AsBefore
  <2> QED
    BY <1>2, <2>1, <2>2
<1>7. Shrunk(p, q)
  BY <1>2, <1>6 DEF Shrunk
<1> QED
  BY <1>5, <1>7 DEF ShrunkPool, q

(* Shrinking goes on.                                                      *)
LEMMA ShrunkTwice ==
    ASSUME NEW p \in PoolStates, NEW q \in PoolStates, NEW r,
           Shrunk(p, q), Shrunk(q, r)
    PROVE  Shrunk(p, r)
<1>1. \A k \in Regd(q) : AtWork(q, k) <=> AtWork(p, k)
  BY DEF Shrunk, AsBefore, AtWork
<1>2. Regd(r) \subseteq Regd(q) /\ Regd(q) \subseteq Regd(p)
  BY DEF Shrunk
<1>3. ASSUME NEW k \in Regd(p) \ Regd(r) PROVE MayGo(p, k)
  <2>1. CASE k \notin Regd(q)
    BY <1>3, <2>1 DEF Shrunk
  <2>2. CASE k \in Regd(q)
    <3>1. MayGo(q, k) /\ AsBefore(p, q, k)
      BY <1>3, <2>2 DEF Shrunk
    <3> QED
      BY <1>1, <2>2, <3>1 DEF MayGo, AsBefore
  <2> QED
    BY <2>1, <2>2
<1>4. ASSUME NEW k \in Regd(r) PROVE AsBefore(p, r, k)
  <2>1. AsBefore(p, q, k) /\ AsBefore(q, r, k) /\ (AtWork(q, k) <=> AtWork(p, k))
    BY <1>1, <1>2 DEF Shrunk
  <2>2. /\ q[k].seen = p[k].seen /\ q[k].work = p[k].work
        /\ r[k].seen = q[k].seen /\ r[k].work = q[k].work
        /\ AtWork(p, k) => q[k].replica = p[k].replica
        /\ AtWork(p, k) => r[k].replica = q[k].replica
    BY <2>1 DEF AsBefore
  <2>3. ASSUME NEW t \in Locations
        PROVE  r[k].replica[t] = p[k].replica[t] \/ r[k].replica[t] = 0
    BY <2>1 DEF AsBefore
  <2> QED
    BY <2>2, <2>3 DEF AsBefore
<1> QED
  BY <1>2, <1>3, <1>4 DEF Shrunk

(* A turn of either loop takes what is idle.                               *)
LEMMA TierTurnShrinks ==
    ASSUME NEW p \in PoolStates, NEW t \in Locations, NEW q \in TierTurn(p, t)
    PROVE  ShrunkPool(p, q)
<1> DEFINE replicas == {k \in Regd(p) : p[k].replica[t] > 0 /\ ~AtWork(p, k)}
           resident == {k \in Regd(p) : KeyHome[k] = t}
           redundant == Redundant(p, resident)
           contents == WholeContents(p, resident)
<1>1. \A K : QuotaFirst(p, K, t) \subseteq K
  BY DEF QuotaFirst
<1>2. \A k \in redundant : MayGo(p, k)
  BY DEF Redundant
<1>3. \A C \in contents : \A k \in C : MayGo(p, k)
  BY DEF WholeContents
<1>4. \/ \E k \in QuotaFirst(p, replicas, t) : q = DropReplica(p, k, t)
      \/ \E k \in QuotaFirst(p, redundant, t) : q = Without_(p, {k})
      \/ \E C \in contents : q = Without_(p, C)
  BY DEF TierTurn
<1>5. CASE \E k \in QuotaFirst(p, replicas, t) : q = DropReplica(p, k, t)
  BY <1>1, <1>5, DropShrinks
<1> HIDE DEF redundant, contents
<1>6. CASE \E k \in QuotaFirst(p, redundant, t) : q = Without_(p, {k})
  <2>1. PICK k \in redundant : q = Without_(p, {k})
    BY <1>1, <1>6
  <2>2. \A j \in {k} \cap Regd(p) : MayGo(p, j)
    BY <1>2, <2>1
  <2> QED
    BY <2>1, <2>2, WithoutShrinks
<1>7. CASE \E C \in contents : q = Without_(p, C)
  BY <1>3, <1>7, WithoutShrinks
<1> QED
  BY <1>4, <1>5, <1>6, <1>7

(* What a turn for canonical bytes takes is idle, past its probation.      *)
LEMMA CanonicalTurnShrinks ==
    ASSUME NEW p \in PoolStates, NEW q \in CanonicalTurn(p)
    PROVE  ShrunkPool(p, q)
<1> DEFINE redundant == Redundant(p, Regd(p))
           contents == WholeContents(p, Regd(p))
<1>2. \A k \in redundant : MayGo(p, k)
  BY DEF Redundant
<1>3. \A C \in contents : \A k \in C : MayGo(p, k)
  BY DEF WholeContents
<1>4. \/ \E k \in redundant : q = Without_(p, {k})
      \/ \E C \in contents : q = Without_(p, C)
  BY DEF CanonicalTurn
<1> HIDE DEF redundant, contents
<1>6. CASE \E k \in redundant : q = Without_(p, {k})
  <2>1. PICK k \in redundant : q = Without_(p, {k})
    BY <1>6
  <2>2. \A j \in {k} \cap Regd(p) : MayGo(p, j)
    BY <1>2, <2>1
  <2> QED
    BY <2>1, <2>2, WithoutShrinks
<1>7. CASE \E C \in contents : q = Without_(p, C)
  BY <1>3, <1>7, WithoutShrinks
<1> QED
  BY <1>4, <1>6, <1>7

(***************************************************************************)
(* The loops, turn by turn.                                                *)
(***************************************************************************)
TierTurns(P, t, required, n, it) ==
    it = [i \in 0..n |-> IF i = 0 THEN P ELSE AfterTierTurn(it[i - 1], t, required)]
CanonicalTurns(P, required, n, it) ==
    it = [i \in 0..n |-> IF i = 0 THEN P ELSE AfterCanonicalTurn(it[i - 1], required)]

(* The turns of either loop are well defined.                              *)
LEMMA TierTurnsExist ==
    ASSUME NEW P, NEW t, NEW required, NEW n \in Nat
    PROVE  \E it : TierTurns(P, t, required, n, it)
<1> DEFINE T == {m \in Nat : ~ \E it : TierTurns(P, t, required, m, it)}
<1>1. T = {}
  <2> SUFFICES ASSUME T # {} PROVE FALSE
    OBVIOUS
  <2>1. PICK m \in T : \A k \in T : m <= k
    <3>1. T \subseteq Nat
      OBVIOUS
    <3> HIDE DEF T
    <3> QED
      BY <3>1, LeastNumber
  <2>2. CASE m = 0
    <3> DEFINE it == [i \in 0..0 |-> P]
    <3>1. it = [i \in 0..0 |-> IF i = 0 THEN P ELSE AfterTierTurn(it[i - 1], t, required)]
      OBVIOUS
    <3> HIDE DEF it
    <3> QED
      BY <2>1, <2>2, <3>1 DEF TierTurns
  <2>3. CASE m # 0
    <3>1. m \in Nat /\ m - 1 \in Nat /\ m - 1 \notin T
      BY <2>1, <2>3
    <3>2. PICK it : TierTurns(P, t, required, m - 1, it)
      BY <3>1
    <3> DEFINE jt == [i \in 0..m |-> IF i = 0 THEN P ELSE AfterTierTurn(it[i - 1], t, required)]
    <3>3. ASSUME NEW i \in 0..m, i # 0 PROVE jt[i - 1] = it[i - 1]
      <4>1. i - 1 \in 0..(m - 1) /\ i - 1 \in 0..m
        BY <3>1, <3>3
      <4>2. it[i - 1] = IF i - 1 = 0 THEN P ELSE AfterTierTurn(it[i - 1 - 1], t, required)
        BY <3>2, <4>1 DEF TierTurns
      <4> QED
        BY <4>1, <4>2
    <3>4. jt = [i \in 0..m |-> IF i = 0 THEN P ELSE AfterTierTurn(jt[i - 1], t, required)]
      BY <3>3
    <3> HIDE DEF jt
    <3>5. TierTurns(P, t, required, m, jt)
      BY <3>4 DEF TierTurns
    <3> QED
      BY <2>1, <3>5
  <2> QED
    BY <2>2, <2>3
<1> QED
  BY <1>1

(* Nor those of the canonical loop.                                        *)
LEMMA CanonicalTurnsExist ==
    ASSUME NEW P, NEW required, NEW n \in Nat
    PROVE  \E it : CanonicalTurns(P, required, n, it)
<1> DEFINE T == {m \in Nat : ~ \E it : CanonicalTurns(P, required, m, it)}
<1>1. T = {}
  <2> SUFFICES ASSUME T # {} PROVE FALSE
    OBVIOUS
  <2>1. PICK m \in T : \A k \in T : m <= k
    <3>1. T \subseteq Nat
      OBVIOUS
    <3> HIDE DEF T
    <3> QED
      BY <3>1, LeastNumber
  <2>2. CASE m = 0
    <3> DEFINE it == [i \in 0..0 |-> P]
    <3>1. it = [i \in 0..0 |-> IF i = 0 THEN P ELSE AfterCanonicalTurn(it[i - 1], required)]
      OBVIOUS
    <3> HIDE DEF it
    <3> QED
      BY <2>1, <2>2, <3>1 DEF CanonicalTurns
  <2>3. CASE m # 0
    <3>1. m \in Nat /\ m - 1 \in Nat /\ m - 1 \notin T
      BY <2>1, <2>3
    <3>2. PICK it : CanonicalTurns(P, required, m - 1, it)
      BY <3>1
    <3> DEFINE jt == [i \in 0..m |-> IF i = 0 THEN P ELSE AfterCanonicalTurn(it[i - 1], required)]
    <3>3. ASSUME NEW i \in 0..m, i # 0 PROVE jt[i - 1] = it[i - 1]
      <4>1. i - 1 \in 0..(m - 1) /\ i - 1 \in 0..m
        BY <3>1, <3>3
      <4>2. it[i - 1] = IF i - 1 = 0 THEN P ELSE AfterCanonicalTurn(it[i - 1 - 1], required)
        BY <3>2, <4>1 DEF CanonicalTurns
      <4> QED
        BY <4>1, <4>2
    <3>4. jt = [i \in 0..m |-> IF i = 0 THEN P ELSE AfterCanonicalTurn(jt[i - 1], required)]
      BY <3>3
    <3> HIDE DEF jt
    <3>5. CanonicalTurns(P, required, m, jt)
      BY <3>4 DEF CanonicalTurns
    <3> QED
      BY <2>1, <3>5
  <2> QED
    BY <2>2, <2>3
<1> QED
  BY <1>1

(* A loop ends, if it does, in a pool that shrank to have room.           *)
LEMMA TierLoopShrinks ==
    ASSUME NEW P, P \subseteq PoolStates, NEW t \in Locations, NEW required,
           NEW q \in TierRoom(P, t, required)
    PROVE  /\ \E p \in P : ShrunkPool(p, q)
           /\ ~TierFull(q, t, required)
<1> DEFINE N == MaxTurns
           From(r) == r \in PoolStates /\ \E p \in P : ShrunkPool(p, r)
<1>0. N \in Nat
  BY GlobalPoolShape, FS_CardinalityType DEF MaxTurns
<1> HIDE DEF N
<1>1. PICK it : TierTurns(P, t, required, N, it) /\ q \in it[N] /\ ~TierFull(q, t, required)
  <2> DEFINE c == CHOOSE f : TierTurns(P, t, required, N, f)
  <2>1. TierTurns(P, t, required, N, c)
    BY <1>0, TierTurnsExist
  <2>2. q \in c[N] /\ ~TierFull(q, t, required)
    BY DEF TierRoom, TierTurns, N
  <2> HIDE DEF c
  <2> QED
    BY <2>1, <2>2
<1>2. \A i \in 0..N : it[i] = IF i = 0 THEN P ELSE AfterTierTurn(it[i - 1], t, required)
  BY <1>1 DEF TierTurns
<1> DEFINE Bad == {i \in 0..N : \E r \in it[i] : ~From(r)}
<1>3. Bad = {}
  <2> SUFFICES ASSUME Bad # {} PROVE FALSE
    OBVIOUS
  <2>1. PICK i \in Bad : \A j \in Bad : i <= j
    <3>1. Bad \subseteq Nat
      BY <1>0
    <3> HIDE DEF Bad
    <3> QED
      BY <3>1, LeastNumber
  <2>2. i # 0
    <3>1. \A p \in P : ShrunkPool(p, p)
      BY DEF ShrunkPool, Shrunk, AsBefore
    <3>2. \A p \in P : From(p)
      BY <3>1 DEF ShrunkPool
    <3> QED
      BY <1>0, <1>2, <2>1, <3>2
  <2>3. i - 1 \in 0..N /\ i - 1 \notin Bad
    BY <1>0, <2>1, <2>2
  <2>4. (\A r \in it[i - 1] : From(r)) /\ it[i] = AfterTierTurn(it[i - 1], t, required)
    BY <1>2, <2>1, <2>2, <2>3
  <2>5. ASSUME NEW r \in it[i] PROVE From(r)
    <3>1. r \in it[i - 1] \/ \E p \in it[i - 1] : r \in TierTurn(p, t)
      BY <2>4, <2>5 DEF AfterTierTurn
    <3>2. ASSUME NEW p \in it[i - 1], r \in TierTurn(p, t) PROVE From(r)
      <4>1. PICK p1 \in P : ShrunkPool(p1, p)
        BY <2>4, <3>2
      <4>2. p \in PoolStates /\ p1 \in PoolStates
        BY <4>1 DEF ShrunkPool
      <4>3. ShrunkPool(p, r)
        BY <3>2, <4>2, TierTurnShrinks
      <4>4. ShrunkPool(p1, r)
        BY <4>1, <4>2, <4>3, ShrunkTwice DEF ShrunkPool
      <4> QED
        BY <4>3, <4>4 DEF ShrunkPool
    <3> QED
      BY <2>4, <3>1, <3>2
  <2> QED
    BY <2>1, <2>5
<1>4. \A r \in it[N] : From(r)
  BY <1>0, <1>3
<1> QED
  BY <1>1, <1>4

(* The canonical loop leaves a pool with room for the bytes asked for.     *)
LEMMA CanonicalLoopShrinks ==
    ASSUME NEW P, P \subseteq PoolStates, NEW required,
           NEW q \in CanonicalRoom(P, required)
    PROVE  /\ \E p \in P : ShrunkPool(p, q)
           /\ ~CanonicalFull(q, required)
<1> DEFINE N == MaxTurns
           From(r) == r \in PoolStates /\ \E p \in P : ShrunkPool(p, r)
<1>0. N \in Nat
  BY GlobalPoolShape, FS_CardinalityType DEF MaxTurns
<1> HIDE DEF N
<1>1. PICK it : CanonicalTurns(P, required, N, it) /\ q \in it[N] /\ ~CanonicalFull(q, required)
  <2> DEFINE c == CHOOSE f : CanonicalTurns(P, required, N, f)
  <2>1. CanonicalTurns(P, required, N, c)
    BY <1>0, CanonicalTurnsExist
  <2>2. q \in c[N] /\ ~CanonicalFull(q, required)
    BY DEF CanonicalRoom, CanonicalTurns, N
  <2> HIDE DEF c
  <2> QED
    BY <2>1, <2>2
<1>2. \A i \in 0..N : it[i] = IF i = 0 THEN P ELSE AfterCanonicalTurn(it[i - 1], required)
  BY <1>1 DEF CanonicalTurns
<1> DEFINE Bad == {i \in 0..N : \E r \in it[i] : ~From(r)}
<1>3. Bad = {}
  <2> SUFFICES ASSUME Bad # {} PROVE FALSE
    OBVIOUS
  <2>1. PICK i \in Bad : \A j \in Bad : i <= j
    <3>1. Bad \subseteq Nat
      BY <1>0
    <3> HIDE DEF Bad
    <3> QED
      BY <3>1, LeastNumber
  <2>2. i # 0
    <3>1. \A p \in P : ShrunkPool(p, p)
      BY DEF ShrunkPool, Shrunk, AsBefore
    <3>2. \A p \in P : From(p)
      BY <3>1 DEF ShrunkPool
    <3> QED
      BY <1>0, <1>2, <2>1, <3>2
  <2>3. i - 1 \in 0..N /\ i - 1 \notin Bad
    BY <1>0, <2>1, <2>2
  <2>4. (\A r \in it[i - 1] : From(r)) /\ it[i] = AfterCanonicalTurn(it[i - 1], required)
    BY <1>2, <2>1, <2>2, <2>3
  <2>5. ASSUME NEW r \in it[i] PROVE From(r)
    <3>1. r \in it[i - 1] \/ \E p \in it[i - 1] : r \in CanonicalTurn(p)
      BY <2>4, <2>5 DEF AfterCanonicalTurn
    <3>2. ASSUME NEW p \in it[i - 1], r \in CanonicalTurn(p) PROVE From(r)
      <4>1. PICK p1 \in P : ShrunkPool(p1, p)
        BY <2>4, <3>2
      <4>2. p \in PoolStates /\ p1 \in PoolStates
        BY <4>1 DEF ShrunkPool
      <4>3. ShrunkPool(p, r)
        BY <3>2, <4>2, CanonicalTurnShrinks
      <4>4. ShrunkPool(p1, r)
        BY <4>1, <4>2, <4>3, ShrunkTwice DEF ShrunkPool
      <4> QED
        BY <4>3, <4>4 DEF ShrunkPool
    <3> QED
      BY <2>4, <3>1, <3>2
  <2> QED
    BY <2>1, <2>5
<1>4. \A r \in it[N] : From(r)
  BY <1>0, <1>3
<1> QED
  BY <1>1, <1>4

(***************************************************************************)
(* What a pool occupies.                                                   *)
(***************************************************************************)
(* A smaller summand gives no larger sum.                                  *)
LEMMA SumNoMore ==
    ASSUME NEW f, NEW g, NEW S, IsFiniteSet(S),
           \A x \in S : f[x] \in Nat /\ g[x] \in Nat /\ f[x] <= g[x]
    PROVE  SumOver(f, S) <= SumOver(g, S)
<1> DEFINE F == {s \in SUBSET S : SumOver(f, s) <= SumOver(g, s)}
<1>0. \A s \in SUBSET S : IsFiniteSet(s)
  BY FS_Subset
<1>1. {} \in F
  BY SumEmpty
<1>2. ASSUME NEW s \in SUBSET S, s # {}, \A x \in s : s \ {x} \in F PROVE s \in F
  <2>1. PICK x \in s : TRUE
    BY <1>2
  <2>2. IsFiniteSet(s) /\ IsFiniteSet(s \ {x}) /\ x \in S
    BY <1>0, <1>2
  <2>3. \A y \in s : f[y] \in Nat /\ g[y] \in Nat
    BY <1>2
  <2>4. /\ SumOver(f, s) = f[x] + SumOver(f, s \ {x})
        /\ SumOver(g, s) = g[x] + SumOver(g, s \ {x})
    BY <2>2, <2>3, SumRemove
  <2>5. SumOver(f, s \ {x}) \in Nat /\ SumOver(g, s \ {x}) \in Nat
    BY <2>2, <2>3, SumNat
  <2>6. SumOver(f, s \ {x}) <= SumOver(g, s \ {x})
    BY <1>2
  <2> QED
    BY <2>2, <2>3, <2>4, <2>5, <2>6
<1> HIDE DEF F
<1>3. \A s \in SUBSET S : s \in F
  BY <1>1, <1>2, SubsetInduction, Zenon
<1> QED
  BY <1>3 DEF F

(* The occupation is a sum in the sense of the lemmas.                     *)
LEMMA CanonicalIsSum ==
    ASSUME NEW p
    PROVE  CanonicalUsed(p) = SumOver(KeyBytes, Regd(p))
BY DEF CanonicalUsed, SumFunctionOnSet, FoldFunctionOnSet, SumOver, MapThenSumSet

(* The bytes of a tier are a sum over the registered Sources.              *)
LEMMA TierIsSum ==
    ASSUME NEW p, NEW t
    PROVE  TierUsed(p, t) = SumOver(BytesAt(p, t), Regd(p))
<1>1. DOMAIN BytesAt(p, t) = Regd(p)
  BY DEF BytesAt
<1> QED
  BY <1>1 DEF TierUsed, SumFunction, SumFunctionOnSet, FoldFunctionOnSet, SumOver, MapThenSumSet

(* What a Source occupies on a tier.                                       *)
LEMMA BytesAreNaturals ==
    ASSUME NEW p \in PoolStates, NEW t \in Locations
    PROVE  \A k \in Regd(p) :
             /\ KeyBytes[k] \in Nat /\ BytesAt(p, t)[k] \in Nat
             /\ p[k].replica[t] \in Nat
             /\ BytesAt(p, t)[k] = (IF KeyHome[k] = t THEN KeyBytes[k] ELSE 0) + p[k].replica[t]
<1> TAKE k \in Regd(p)
<1>1. KeyBytes[k] \in Nat /\ p[k].replica[t] \in Nat
  <2>1. k \in PoolKeys /\ p[k].replica \in [Locations -> Nat]
    BY PoolFacts
  <2> QED
    BY <2>1, GlobalPoolShape
<1>2. BytesAt(p, t)[k] = (IF KeyHome[k] = t THEN KeyBytes[k] ELSE 0) + p[k].replica[t]
  BY DEF BytesAt
<1> QED
  BY <1>1, <1>2

(* What a pool occupies is a natural number.                               *)
LEMMA UsedAreNaturals ==
    ASSUME NEW p \in PoolStates
    PROVE  CanonicalUsed(p) \in Nat /\ \A t \in Locations : TierUsed(p, t) \in Nat
<1>1. IsFiniteSet(Regd(p))
  BY PoolFacts
<1>2. CanonicalUsed(p) \in Nat
  <2>1. \A k \in Regd(p) : KeyBytes[k] \in Nat
    BY PoolFacts, GlobalPoolShape
  <2> QED
    BY <1>1, <2>1, SumNat, CanonicalIsSum
<1>3. ASSUME NEW t \in Locations PROVE TierUsed(p, t) \in Nat
  <2>1. \A k \in Regd(p) : BytesAt(p, t)[k] \in Nat
    BY BytesAreNaturals
  <2> QED
    BY <1>1, <2>1, SumNat, TierIsSum
<1> QED
  BY <1>2, <1>3

(* What a loop leaves occupies no more than before.                        *)
LEMMA ShrunkUsesLess ==
    ASSUME NEW p \in PoolStates, NEW q, ShrunkPool(p, q)
    PROVE  /\ CanonicalUsed(q) <= CanonicalUsed(p)
           /\ \A t \in Locations : TierUsed(q, t) <= TierUsed(p, t)
<1>0. q \in PoolStates /\ Shrunk(p, q) /\ Regd(q) \subseteq Regd(p)
  BY DEF ShrunkPool, Shrunk
<1>1. IsFiniteSet(Regd(p)) /\ IsFiniteSet(Regd(q))
  BY <1>0, PoolFacts
<1>2. CanonicalUsed(q) <= CanonicalUsed(p)
  <2>1. \A k \in Regd(p) : KeyBytes[k] \in Nat
    BY PoolFacts, GlobalPoolShape
  <2>2. /\ SumOver(KeyBytes, Regd(p))
             = SumOver(KeyBytes, Regd(p) \ Regd(q)) + SumOver(KeyBytes, Regd(q))
        /\ SumOver(KeyBytes, Regd(p) \ Regd(q)) \in Nat
        /\ SumOver(KeyBytes, Regd(q)) \in Nat
    BY <1>0, <1>1, <2>1, SumApart
  <2> QED
    BY <2>2, CanonicalIsSum
<1>3. ASSUME NEW t \in Locations PROVE TierUsed(q, t) <= TierUsed(p, t)
  <2>1. \A k \in Regd(p) : BytesAt(p, t)[k] \in Nat
    BY BytesAreNaturals
  <2>2. \A k \in Regd(q) : BytesAt(q, t)[k] \in Nat /\ BytesAt(q, t)[k] <= BytesAt(p, t)[k]
    <3> TAKE k \in Regd(q)
    <3>1. /\ KeyBytes[k] \in Nat /\ p[k].replica[t] \in Nat /\ q[k].replica[t] \in Nat
          /\ BytesAt(p, t)[k] = (IF KeyHome[k] = t THEN KeyBytes[k] ELSE 0) + p[k].replica[t]
          /\ BytesAt(q, t)[k] = (IF KeyHome[k] = t THEN KeyBytes[k] ELSE 0) + q[k].replica[t]
          /\ BytesAt(q, t)[k] \in Nat
      BY <1>0, BytesAreNaturals
    <3>2. q[k].replica[t] <= p[k].replica[t]
      <4>1. q[k].replica[t] = p[k].replica[t] \/ q[k].replica[t] = 0
        BY <1>0 DEF Shrunk, AsBefore
      <4> QED
        BY <3>1, <4>1
    <3> QED
      BY <3>1, <3>2
  <2>3. /\ SumOver(BytesAt(p, t), Regd(p))
             = SumOver(BytesAt(p, t), Regd(p) \ Regd(q)) + SumOver(BytesAt(p, t), Regd(q))
        /\ SumOver(BytesAt(p, t), Regd(p) \ Regd(q)) \in Nat
        /\ SumOver(BytesAt(p, t), Regd(q)) \in Nat
    BY <1>0, <1>1, <2>1, SumApart
  <2>4. /\ SumOver(BytesAt(q, t), Regd(q)) <= SumOver(BytesAt(p, t), Regd(q))
        /\ SumOver(BytesAt(q, t), Regd(q)) \in Nat
    <3>1. \A k \in Regd(q) : /\ BytesAt(q, t)[k] \in Nat /\ BytesAt(p, t)[k] \in Nat
                             /\ BytesAt(q, t)[k] <= BytesAt(p, t)[k]
      BY <1>0, <2>1, <2>2
    <3> QED
      BY <1>1, <3>1, SumNoMore, SumNat
  <2> QED
    BY <2>3, <2>4, TierIsSum
<1> QED
  BY <1>2, <1>3

(* The contents of a pool that shrank are part of what they were.          *)
LEMMA ShrunkBuckets ==
    ASSUME NEW p \in PoolStates, NEW q, ShrunkPool(p, q), NEW k
    PROVE  /\ BucketOf(q, k) \subseteq BucketOf(p, k)
           /\ IsFiniteSet(BucketOf(p, k)) /\ Cardinality(BucketOf(p, k)) \in Nat
           /\ Cardinality(BucketOf(q, k)) \in Nat
           /\ Cardinality(BucketOf(q, k)) <= Cardinality(BucketOf(p, k))
<1>1. BucketOf(q, k) \subseteq BucketOf(p, k)
  BY DEF BucketOf, ShrunkPool, Shrunk
<1>2. IsFiniteSet(BucketOf(p, k))
  <2>1. IsFiniteSet(Regd(p)) /\ BucketOf(p, k) \subseteq Regd(p)
    BY PoolFacts DEF BucketOf
  <2> QED
    BY <2>1, FS_Subset
<1> QED
  BY <1>1, <1>2, FS_Subset, FS_CardinalityType

(***************************************************************************)
(* A Source that is registered.                                            *)
(***************************************************************************)
Joined(p, k) == [j \in Regd(p) \cup {k} |-> IF j = k THEN NewPooled ELSE p[j]]

(* A new Source is registered beside the others, with nothing of its own.  *)
LEMMA JoinedIs ==
    ASSUME NEW p \in PoolStates, NEW k \in PoolKeys, k \notin Regd(p)
    PROVE  /\ Joined(p, k) \in PoolStates
           /\ Regd(Joined(p, k)) = Regd(p) \cup {k}
           /\ Joined(p, k)[k] = NewPooled
           /\ \A j \in Regd(p) : Joined(p, k)[j] = p[j]
<1> DEFINE n == Joined(p, k)
<1>1. NewPooled \in PooledRecords
  BY DEF NewPooled, NoReplicas, PooledRecords
<1>2. /\ Regd(n) = Regd(p) \cup {k} /\ n[k] = NewPooled
      /\ \A j \in Regd(p) : n[j] = p[j]
      /\ n = [j \in Regd(p) \cup {k} |-> n[j]]
  BY DEF Joined, Regd
<1> HIDE DEF n
<1>3. \A j \in Regd(p) \cup {k} : n[j] \in PooledRecords
  BY <1>1, <1>2, PoolFacts
<1>4. Regd(p) \cup {k} \in SUBSET PoolKeys /\ n \in [Regd(p) \cup {k} -> PooledRecords]
  BY <1>2, <1>3, PoolFacts
<1>5. n \in PoolStates
  BY <1>4 DEF PoolStates
<1> QED
  BY <1>2, <1>5 DEF n

(* It occupies its bytes on its tier.                                      *)
LEMMA JoinedUses ==
    ASSUME NEW p \in PoolStates, NEW k \in PoolKeys, k \notin Regd(p), NEW t \in Locations
    PROVE  /\ CanonicalUsed(Joined(p, k)) = CanonicalUsed(p) + KeyBytes[k]
           /\ TierUsed(Joined(p, k), t)
                = TierUsed(p, t) + (IF KeyHome[k] = t THEN KeyBytes[k] ELSE 0)
<1> DEFINE n == Joined(p, k)
           S == Regd(p) \cup {k}
<1>1. /\ n \in PoolStates /\ Regd(n) = S /\ n[k] = NewPooled
      /\ \A j \in Regd(p) : n[j] = p[j]
  BY JoinedIs
<1> HIDE DEF n
<1>2. IsFiniteSet(S) /\ IsFiniteSet(Regd(p)) /\ k \in S /\ S \ {k} = Regd(p)
  BY <1>1, PoolFacts
<1> HIDE DEF S
<1>3. \A j \in S : KeyBytes[j] \in Nat /\ BytesAt(n, t)[j] \in Nat
  BY <1>1, BytesAreNaturals
<1>4. SumOver(KeyBytes, S) = KeyBytes[k] + SumOver(KeyBytes, Regd(p))
  BY <1>2, <1>3, SumRemove
<1>5. SumOver(BytesAt(n, t), S) = BytesAt(n, t)[k] + SumOver(BytesAt(n, t), Regd(p))
  BY <1>2, <1>3, SumRemove
<1>6. \A j \in Regd(p) : BytesAt(n, t)[j] = BytesAt(p, t)[j]
  BY <1>1, <1>2 DEF BytesAt
<1>7. SumOver(BytesAt(n, t), Regd(p)) = SumOver(BytesAt(p, t), Regd(p))
  BY <1>2, <1>6, SumSame
<1>8. BytesAt(n, t)[k] = IF KeyHome[k] = t THEN KeyBytes[k] ELSE 0
  <2>1. NewPooled.replica[t] = 0
    BY DEF NewPooled, NoReplicas
  <2>2. BytesAt(n, t)[k] = (IF KeyHome[k] = t THEN KeyBytes[k] ELSE 0) + n[k].replica[t]
    BY <1>1, <1>2, BytesAreNaturals
  <2>3. KeyBytes[k] \in Nat
    BY <1>2, <1>3
  <2> QED
    BY <1>1, <2>1, <2>2, <2>3
<1>9. CanonicalUsed(p) \in Nat /\ TierUsed(p, t) \in Nat /\ KeyBytes[k] \in Nat
  BY <1>2, <1>3, UsedAreNaturals
<1>10. CanonicalUsed(n) = CanonicalUsed(p) + KeyBytes[k]
  BY <1>1, <1>4, <1>9, CanonicalIsSum, TierIsSum
<1>11. TierUsed(n, t) = TierUsed(p, t) + (IF KeyHome[k] = t THEN KeyBytes[k] ELSE 0)
  BY <1>1, <1>5, <1>7, <1>8, <1>9, CanonicalIsSum, TierIsSum
<1> QED
  BY <1>10, <1>11 DEF n

(***************************************************************************)
(* What the pool keeps.                                                    *)
(***************************************************************************)
PoolFit(p) ==
    /\ CanonicalUsed(p) <= CanonicalCap
    /\ \A t \in Locations : TierUsed(p, t) <= TierCap[t]
    /\ \A k \in Regd(p) : Cardinality(BucketOf(p, k)) <= VariantCap

(* The capacities are natural numbers.                                     *)
LEMMA PoolNumbers ==
    /\ CanonicalCap \in Nat /\ VariantCap \in Nat /\ MinVariants \in Nat
    /\ \A t \in Locations : TierCap[t] \in Nat
    /\ \A k \in PoolKeys : KeyBytes[k] \in Nat /\ KeyHome[k] \in Locations
BY GlobalPoolShape

(* A pool that shrinks still fits.                                         *)
LEMMA ShrunkFits ==
    ASSUME NEW p \in PoolStates, NEW q, ShrunkPool(p, q), PoolFit(p)
    PROVE  PoolFit(q)
<1>0. q \in PoolStates /\ Regd(q) \subseteq Regd(p)
  BY DEF ShrunkPool, Shrunk
<1>1. CanonicalUsed(q) <= CanonicalCap
  <2>1. CanonicalUsed(q) <= CanonicalUsed(p) /\ CanonicalUsed(p) <= CanonicalCap
    BY ShrunkUsesLess DEF PoolFit
  <2>2. CanonicalUsed(q) \in Nat /\ CanonicalUsed(p) \in Nat /\ CanonicalCap \in Nat
    BY <1>0, UsedAreNaturals, PoolNumbers
  <2> QED
    BY <2>1, <2>2
<1>2. ASSUME NEW t \in Locations PROVE TierUsed(q, t) <= TierCap[t]
  <2>1. TierUsed(q, t) <= TierUsed(p, t) /\ TierUsed(p, t) <= TierCap[t]
    BY ShrunkUsesLess DEF PoolFit
  <2>2. TierUsed(q, t) \in Nat /\ TierUsed(p, t) \in Nat /\ TierCap[t] \in Nat
    BY <1>0, UsedAreNaturals, PoolNumbers
  <2> QED
    BY <2>1, <2>2
<1>3. ASSUME NEW k \in Regd(q) PROVE Cardinality(BucketOf(q, k)) <= VariantCap
  <2>1. /\ Cardinality(BucketOf(p, k)) \in Nat /\ Cardinality(BucketOf(q, k)) \in Nat
        /\ Cardinality(BucketOf(q, k)) <= Cardinality(BucketOf(p, k))
    BY ShrunkBuckets
  <2>2. Cardinality(BucketOf(p, k)) <= VariantCap
    BY <1>0 DEF PoolFit
  <2> QED
    BY <2>1, <2>2, PoolNumbers
<1> QED
  BY <1>1, <1>2, <1>3 DEF PoolFit

(* The content of a Source that registers has room for one more.           *)
LEMMA BelowTheCap ==
    ASSUME NEW p \in PoolStates, PoolFit(p), NEW k \in PoolKeys, k \notin Regd(p),
           NEW q \in BelowVariantCap(p, k)
    PROVE  /\ ShrunkPool(p, q)
           /\ Cardinality(BucketOf(q, k)) < VariantCap
<1> DEFINE b == BucketOf(p, k)
<1>0. ShrunkPool(p, p)
  BY DEF ShrunkPool, Shrunk, AsBefore
<1>1. IsFiniteSet(b) /\ Cardinality(b) \in Nat
  BY <1>0, ShrunkBuckets
<1>2. CASE Cardinality(b) < VariantCap
  <2>1. q = p
    BY <1>2 DEF BelowVariantCap
  <2> QED
    BY <1>0, <1>2, <2>1
<1>3. CASE ~(Cardinality(b) < VariantCap)
  <2>1. PICK v \in Redundant(p, b) : q = Without_(p, {v})
    BY <1>3 DEF BelowVariantCap
  <2>2. v \in b /\ MayGo(p, v) /\ v \in Regd(p)
    BY <2>1 DEF Redundant, BucketOf
  <2>3. ShrunkPool(p, q)
    <3>1. \A j \in {v} \cap Regd(p) : MayGo(p, j)
      BY <2>2
    <3> QED
      BY <2>1, <3>1, WithoutShrinks
  <2>4. BucketOf(q, k) = b \ {v}
    <3>1. Regd(q) = Regd(p) \ {v}
      BY <2>1 DEF Without_, Regd
    <3> QED
      BY <3>1 DEF BucketOf
  <2>5. b = BucketOf(p, v)
    BY <2>2 DEF BucketOf
  <2>6. Cardinality(b) <= VariantCap
    BY <2>2, <2>5 DEF PoolFit
  <2> HIDE DEF b
  <2>7. Cardinality(b \ {v}) = Cardinality(b) - 1
    BY <1>1, <2>2, FS_RemoveElement
  <2> QED
    BY <1>1, <2>3, <2>4, <2>6, <2>7, PoolNumbers
<1> QED
  BY <1>2, <1>3

(* What register() makes room with, and leaves.                            *)
RoomFor(p, k) ==
    CanonicalRoom(TierRoom(BelowVariantCap(p, k), KeyHome[k], KeyBytes[k]), KeyBytes[k])

(* What the room for a Source leaves has room for it.                      *)
LEMMA RegisteredFits ==
    ASSUME NEW p \in PoolStates, PoolFit(p), NEW k \in PoolKeys, k \notin Regd(p),
           NEW q \in RoomFor(p, k)
    PROVE  /\ ShrunkPool(p, q) /\ k \notin Regd(q)
           /\ Joined(q, k) \in PoolStates /\ PoolFit(Joined(q, k))
<1> DEFINE B == BelowVariantCap(p, k)
           R == TierRoom(B, KeyHome[k], KeyBytes[k])
<1>1. \A b \in B : ShrunkPool(p, b) /\ Cardinality(BucketOf(b, k)) < VariantCap
  BY BelowTheCap
<1>2. q \in CanonicalRoom(R, KeyBytes[k]) /\ KeyHome[k] \in Locations
  BY PoolNumbers DEF RoomFor
<1> HIDE DEF B
<1>3. B \subseteq PoolStates
  BY <1>1 DEF ShrunkPool
<1>4. \A r \in R : /\ \E b \in B : ShrunkPool(b, r)
                   /\ ~TierFull(r, KeyHome[k], KeyBytes[k])
  BY <1>2, <1>3, TierLoopShrinks
<1> HIDE DEF R
<1>5. R \subseteq PoolStates
  BY <1>4 DEF ShrunkPool
<1>6. (\E r \in R : ShrunkPool(r, q)) /\ ~CanonicalFull(q, KeyBytes[k])
  BY <1>2, <1>5, CanonicalLoopShrinks
<1>7. PICK r \in R : ShrunkPool(r, q)
  BY <1>6
<1>8. PICK b \in B : ShrunkPool(b, r)
  BY <1>4
<1>9. b \in PoolStates /\ r \in PoolStates /\ q \in PoolStates /\ ShrunkPool(p, b)
  BY <1>1, <1>3, <1>5, <1>7 DEF ShrunkPool
<1>10. ShrunkPool(b, q)
  BY <1>7, <1>8, <1>9, ShrunkTwice DEF ShrunkPool
<1>11. ShrunkPool(p, q)
  BY <1>9, <1>10, ShrunkTwice DEF ShrunkPool
<1>12. k \notin Regd(q) /\ Regd(q) \subseteq Regd(p)
  BY <1>11 DEF ShrunkPool, Shrunk
<1>13. PoolFit(q)
  BY <1>11, ShrunkFits
<1> DEFINE n == Joined(q, k)
<1>14. /\ n \in PoolStates /\ Regd(n) = Regd(q) \cup {k}
  BY <1>9, <1>12, JoinedIs
<1>15. CanonicalUsed(n) <= CanonicalCap
  <2>1. CanonicalUsed(n) = CanonicalUsed(q) + KeyBytes[k]
    BY <1>2, <1>9, <1>12, JoinedUses
  <2>2. CanonicalUsed(q) \in Nat /\ KeyBytes[k] \in Nat /\ CanonicalCap \in Nat
    BY <1>2, <1>9, UsedAreNaturals, PoolNumbers
  <2>3. ~(CanonicalUsed(q) + KeyBytes[k] > CanonicalCap)
    BY <1>6 DEF CanonicalFull
  <2> QED
    BY <2>1, <2>2, <2>3
<1>16. ASSUME NEW t \in Locations PROVE TierUsed(n, t) <= TierCap[t]
  <2>1. TierUsed(n, t) = TierUsed(q, t) + (IF KeyHome[k] = t THEN KeyBytes[k] ELSE 0)
    BY <1>9, <1>12, JoinedUses
  <2>2. /\ TierUsed(q, t) \in Nat /\ KeyBytes[k] \in Nat /\ TierCap[t] \in Nat
        /\ TierUsed(r, t) \in Nat /\ TierUsed(q, t) <= TierUsed(r, t)
    BY <1>7, <1>9, UsedAreNaturals, PoolNumbers, ShrunkUsesLess
  <2>3. CASE KeyHome[k] = t
    <3>1. ~(TierUsed(r, t) + KeyBytes[k] > TierCap[t])
      BY <1>4, <2>3 DEF TierFull
    <3> QED
      BY <2>1, <2>2, <2>3, <3>1
  <2>4. CASE KeyHome[k] # t
    <3>1. TierUsed(q, t) <= TierCap[t]
      BY <1>13 DEF PoolFit
    <3> QED
      BY <2>1, <2>2, <2>4, <3>1
  <2> QED
    BY <2>3, <2>4
<1>17. ASSUME NEW j \in Regd(n) PROVE Cardinality(BucketOf(n, j)) <= VariantCap
  <2>1. CASE KeyModel[j] = KeyModel[k] /\ KeyContent[j] = KeyContent[k]
    <3>1. BucketOf(n, j) = BucketOf(q, k) \cup {k} /\ k \notin BucketOf(q, k)
      BY <1>12, <1>14, <2>1 DEF BucketOf
    <3>2. /\ IsFiniteSet(BucketOf(b, k)) /\ Cardinality(BucketOf(b, k)) \in Nat
          /\ BucketOf(q, k) \subseteq BucketOf(b, k)
          /\ Cardinality(BucketOf(q, k)) \in Nat
          /\ Cardinality(BucketOf(q, k)) <= Cardinality(BucketOf(b, k))
      BY <1>9, <1>10, ShrunkBuckets
    <3>3. IsFiniteSet(BucketOf(q, k))
      BY <3>2, FS_Subset
    <3>4. Cardinality(BucketOf(n, j)) = Cardinality(BucketOf(q, k)) + 1
      BY <3>1, <3>3, FS_AddElement
    <3>5. Cardinality(BucketOf(b, k)) < VariantCap /\ VariantCap \in Nat
      BY <1>1, PoolNumbers
    <3> QED
      BY <3>2, <3>4, <3>5
  <2>2. CASE ~(KeyModel[j] = KeyModel[k] /\ KeyContent[j] = KeyContent[k])
    <3>1. BucketOf(n, j) = BucketOf(q, j) /\ j \in Regd(q)
      BY <1>14, <2>2 DEF BucketOf
    <3> QED
      BY <1>13, <3>1 DEF PoolFit
  <2> QED
    BY <2>1, <2>2
<1>18. PoolFit(n)
  <2> HIDE DEF n
  <2> QED
    BY <1>15, <1>16, <1>17 DEF PoolFit
<1> QED
  BY <1>11, <1>12, <1>14, <1>18

(***************************************************************************)
(* A replica that is attached, and a Source that works.                    *)
(***************************************************************************)
Displacing(p, V, t) ==
    [j \in Regd(p) |-> IF j \in V THEN [p[j] EXCEPT !.replica[t] = 0] ELSE p[j]]

(* attach_replica() displaces replicas nobody uses.                        *)
LEMMA DisplacedAreIdle ==
    ASSUME NEW p, NEW k, NEW t, NEW size, NEW V \in Displaced(p, k, t, size)
    PROVE  \A j \in V : j \in Regd(p) /\ j # k /\ ~AtWork(p, j)
<1> DEFINE idle == {j \in Regd(p) \ {k} : p[j].replica[t] > 0 /\ ~AtWork(p, j)}
<1>1. V = {} \/ V \subseteq idle
  BY DEF Displaced
<1> QED
  BY <1>1

(* Idle replicas are displaced, and nothing else changes.                  *)
LEMMA DisplacingShrinks ==
    ASSUME NEW p \in PoolStates, NEW t \in Locations,
           NEW V, \A j \in V : j \in Regd(p) /\ ~AtWork(p, j)
    PROVE  ShrunkPool(p, Displacing(p, V, t)) /\ Regd(Displacing(p, V, t)) = Regd(p)
<1> DEFINE q == Displacing(p, V, t)
           e(j) == [p[j] EXCEPT !.replica[t] = 0]
<1>1. /\ Regd(q) = Regd(p) /\ \A j \in Regd(p) : q[j] = IF j \in V THEN e(j) ELSE p[j]
      /\ q = [j \in Regd(p) |-> q[j]]
  BY DEF Displacing, Regd
<1>2. ASSUME NEW j \in Regd(p)
      PROVE  /\ e(j) \in PooledRecords /\ e(j).seen = p[j].seen /\ e(j).work = p[j].work
             /\ \A u \in Locations : e(j).replica[u] = p[j].replica[u] \/ e(j).replica[u] = 0
  <2>1. /\ p[j] \in PooledRecords /\ p[j].replica \in [Locations -> Nat]
        /\ p[j].seen \in Nat /\ p[j].work \in [ActivityKinds -> Nat]
    BY PoolFacts
  <2>2. /\ e(j) \in PooledRecords /\ e(j).seen = p[j].seen /\ e(j).work = p[j].work
        /\ e(j).replica = [p[j].replica EXCEPT ![t] = 0]
    BY <2>1 DEF PooledRecords
  <2> QED
    BY <2>1, <2>2
<1> HIDE DEF e, q
<1>3. \A j \in Regd(p) : q[j] \in PooledRecords
  BY <1>1, <1>2, PoolFacts
<1>4. q \in PoolStates
  <2>1. Regd(p) \in SUBSET PoolKeys /\ q \in [Regd(p) -> PooledRecords]
    BY <1>1, <1>3, PoolFacts
  <2> QED
    BY <2>1 DEF PoolStates
<1>5. ASSUME NEW j \in Regd(q) PROVE AsBefore(p, q, j)
  <2>1. CASE j \in V
    BY <1>1, <1>2, <2>1 DEF AsBefore
  <2>2. CASE j \notin V
    BY <1>1, <2>2 DEF AsBefore
  <2> QED
    BY <2>1, <2>2
<1> QED
  BY <1>1, <1>4, <1>5 DEF ShrunkPool, Shrunk, q

(* The other occupations stay when only replicas change.                   *)
LEMMA SameReplicasFit ==
    ASSUME NEW p \in PoolStates, PoolFit(p), NEW q, Regd(q) = Regd(p),
           \A k \in Regd(p) : q[k].replica = p[k].replica
    PROVE  PoolFit(q)
<1>1. CanonicalUsed(q) = CanonicalUsed(p)
  BY DEF CanonicalUsed
<1>2. \A t \in Locations : BytesAt(q, t) = BytesAt(p, t)
  BY DEF BytesAt
<1>3. \A t \in Locations : TierUsed(q, t) = TierUsed(p, t)
  BY <1>2 DEF TierUsed
<1>4. \A k : BucketOf(q, k) = BucketOf(p, k)
  BY DEF BucketOf
<1> QED
  BY <1>1, <1>3, <1>4 DEF PoolFit

(* A replica of a Source that fits beside what is on its tier.             *)
Placing(p, k, t, size) == [p EXCEPT ![k].replica[t] = size]

(* A replica is placed on one location of one Source.                      *)
LEMMA PlacingIs ==
    ASSUME NEW p \in PoolStates, NEW k \in Regd(p), NEW t \in Locations, NEW size \in Nat
    PROVE  /\ Placing(p, k, t, size) \in PoolStates
           /\ Regd(Placing(p, k, t, size)) = Regd(p)
           /\ \A j \in Regd(p) \ {k} : Placing(p, k, t, size)[j] = p[j]
           /\ Placing(p, k, t, size)[k].seen = p[k].seen
           /\ Placing(p, k, t, size)[k].work = p[k].work
           /\ Placing(p, k, t, size)[k].replica = [p[k].replica EXCEPT ![t] = size]
<1> DEFINE q == Placing(p, k, t, size)
           e == [p[k] EXCEPT !.replica[t] = size]
<1>0. /\ p[k] \in PooledRecords /\ p[k].replica \in [Locations -> Nat]
      /\ p[k].seen \in Nat /\ p[k].work \in [ActivityKinds -> Nat]
  BY PoolFacts
<1>1. /\ e \in PooledRecords /\ e.seen = p[k].seen /\ e.work = p[k].work
      /\ e.replica = [p[k].replica EXCEPT ![t] = size]
  BY <1>0 DEF PooledRecords
<1>2. /\ Regd(q) = Regd(p) /\ q[k] = e
      /\ \A j \in Regd(p) \ {k} : q[j] = p[j]
      /\ q = [j \in Regd(p) |-> q[j]]
  BY DEF Placing, Regd
<1> HIDE DEF e, q
<1>4. \A j \in Regd(p) : q[j] \in PooledRecords
  BY <1>1, <1>2, PoolFacts
<1>5. q \in PoolStates
  <2>1. Regd(p) \in SUBSET PoolKeys /\ q \in [Regd(p) -> PooledRecords]
    BY <1>2, <1>4, PoolFacts
  <2> QED
    BY <2>1 DEF PoolStates
<1> QED
  BY <1>1, <1>2, <1>5 DEF q

(* It fits where there is room for what it adds.                           *)
LEMMA PlacingFits ==
    ASSUME NEW p \in PoolStates, PoolFit(p), NEW k \in Regd(p), NEW t \in Locations,
           NEW size \in Nat, TierUsed(p, t) - p[k].replica[t] + size <= TierCap[t]
    PROVE  PoolFit(Placing(p, k, t, size))
<1> DEFINE q == Placing(p, k, t, size)
<1>1. /\ q \in PoolStates /\ Regd(q) = Regd(p) /\ \A j \in Regd(p) \ {k} : q[j] = p[j]
      /\ q[k].replica = [p[k].replica EXCEPT ![t] = size]
      /\ p[k].replica \in [Locations -> Nat]
  BY PlacingIs, PoolFacts
<1> HIDE DEF q
<1>2. CanonicalUsed(q) <= CanonicalCap
  BY <1>1 DEF CanonicalUsed, PoolFit
<1>3. \A j : BucketOf(q, j) = BucketOf(p, j)
  BY <1>1 DEF BucketOf
<1>4. ASSUME NEW u \in Locations, u # t PROVE TierUsed(q, u) <= TierCap[u]
  <2>1. \A j \in Regd(p) : q[j].replica[u] = p[j].replica[u]
    BY <1>1, <1>4
  <2>2. BytesAt(q, u) = BytesAt(p, u)
    BY <1>1, <2>1 DEF BytesAt
  <2>3. TierUsed(q, u) = TierUsed(p, u)
    BY <2>2 DEF TierUsed
  <2> QED
    BY <2>3 DEF PoolFit
<1>5. TierUsed(q, t) <= TierCap[t]
  <2>1. IsFiniteSet(Regd(p)) /\ IsFiniteSet(Regd(p) \ {k})
    BY PoolFacts, FS_Subset
  <2>2. /\ \A j \in Regd(p) : BytesAt(p, t)[j] \in Nat /\ BytesAt(q, t)[j] \in Nat
        /\ BytesAt(p, t)[k] = (IF KeyHome[k] = t THEN KeyBytes[k] ELSE 0) + p[k].replica[t]
        /\ BytesAt(q, t)[k] = (IF KeyHome[k] = t THEN KeyBytes[k] ELSE 0) + q[k].replica[t]
        /\ KeyBytes[k] \in Nat /\ p[k].replica[t] \in Nat
    BY <1>1, BytesAreNaturals
  <2>3. /\ SumOver(BytesAt(p, t), Regd(p))
             = BytesAt(p, t)[k] + SumOver(BytesAt(p, t), Regd(p) \ {k})
        /\ SumOver(BytesAt(q, t), Regd(p))
             = BytesAt(q, t)[k] + SumOver(BytesAt(q, t), Regd(p) \ {k})
    BY <2>1, <2>2, SumRemove
  <2>4. \A j \in Regd(p) \ {k} : BytesAt(q, t)[j] = BytesAt(p, t)[j]
    BY <1>1 DEF BytesAt
  <2>5. /\ SumOver(BytesAt(q, t), Regd(p) \ {k}) = SumOver(BytesAt(p, t), Regd(p) \ {k})
        /\ SumOver(BytesAt(p, t), Regd(p) \ {k}) \in Nat
    BY <2>1, <2>2, <2>4, SumSame, SumNat
  <2>6. q[k].replica[t] = size
    BY <1>1
  <2>7. /\ TierUsed(p, t) = SumOver(BytesAt(p, t), Regd(p))
        /\ TierUsed(q, t) = SumOver(BytesAt(q, t), Regd(p))
    BY <1>1, TierIsSum
  <2>8. TierCap[t] \in Nat
    BY PoolNumbers
  <2> QED
    BY <2>2, <2>3, <2>5, <2>6, <2>7, <2>8
<1>6. \A u \in Locations : TierUsed(q, u) <= TierCap[u]
  BY <1>4, <1>5
<1>7. \A j \in Regd(q) : Cardinality(BucketOf(q, j)) <= VariantCap
  BY <1>1, <1>3 DEF PoolFit
<1> QED
  BY <1>2, <1>6, <1>7 DEF PoolFit, q

(* A Source whose work or probation changes.                               *)
Working(p, k, a, n) == [p EXCEPT ![k].work[a] = n]
Noticed(p, k, n) == [p EXCEPT ![k].seen = n]

(* Work on a Source leaves its replicas and the other Sources alone.       *)
LEMMA WorkingIs ==
    ASSUME NEW p \in PoolStates, NEW k \in Regd(p), NEW a \in ActivityKinds, NEW n \in Nat,
           NEW q, q = Working(p, k, a, n)
    PROVE  /\ q \in PoolStates /\ Regd(q) = Regd(p)
           /\ \A j \in Regd(p) \ {k} : q[j] = p[j]
           /\ q[k].replica = p[k].replica
<1> DEFINE e == [p[k] EXCEPT !.work[a] = n]
<1>0. /\ p[k] \in PooledRecords /\ p[k].replica \in [Locations -> Nat]
      /\ p[k].seen \in Nat /\ p[k].work \in [ActivityKinds -> Nat]
  BY PoolFacts
<1>1. /\ e \in PooledRecords /\ e.seen = p[k].seen /\ e.replica = p[k].replica
      /\ e.work = [p[k].work EXCEPT ![a] = n]
  BY <1>0 DEF PooledRecords
<1>2. /\ Regd(q) = Regd(p) /\ q[k] = e
      /\ \A j \in Regd(p) \ {k} : q[j] = p[j]
      /\ q = [j \in Regd(p) |-> q[j]]
  BY DEF Regd, Working
<1> HIDE DEF e
<1>4. \A j \in Regd(p) : q[j] \in PooledRecords
  BY <1>1, <1>2, PoolFacts
<1>5. q \in PoolStates
  <2>1. Regd(p) \in SUBSET PoolKeys /\ q \in [Regd(p) -> PooledRecords]
    BY <1>2, <1>4, PoolFacts
  <2> QED
    BY <2>1 DEF PoolStates
<1> QED
  BY <1>1, <1>2, <1>5

(* So does a comparison that counts it.                                    *)
LEMMA SeenIs ==
    ASSUME NEW p \in PoolStates, NEW k \in Regd(p), NEW n \in Nat,
           NEW q, q = Noticed(p, k, n)
    PROVE  /\ q \in PoolStates /\ Regd(q) = Regd(p)
           /\ \A j \in Regd(p) : q[j].replica = p[j].replica /\ q[j].work = p[j].work
<1> DEFINE e == [p[k] EXCEPT !.seen = n]
<1>0. /\ p[k] \in PooledRecords /\ p[k].replica \in [Locations -> Nat]
      /\ p[k].seen \in Nat /\ p[k].work \in [ActivityKinds -> Nat]
  BY PoolFacts
<1>1. e \in PooledRecords /\ e.work = p[k].work /\ e.replica = p[k].replica
  BY <1>0 DEF PooledRecords
<1>2. /\ Regd(q) = Regd(p) /\ q[k] = e
      /\ \A j \in Regd(p) \ {k} : q[j] = p[j]
      /\ q = [j \in Regd(p) |-> q[j]]
  BY DEF Regd, Noticed
<1> HIDE DEF e
<1>4. \A j \in Regd(p) : q[j] \in PooledRecords
  BY <1>1, <1>2, PoolFacts
<1>5. q \in PoolStates
  <2>1. Regd(p) \in SUBSET PoolKeys /\ q \in [Regd(p) -> PooledRecords]
    BY <1>2, <1>4, PoolFacts
  <2> QED
    BY <2>1 DEF PoolStates
<1> QED
  BY <1>1, <1>2, <1>5

(***************************************************************************)
(* The namespaces, as functions of their states n and a pool p.            *)
(***************************************************************************)
SpaceStates == {"unknown", "active", "draining", "retired", "deleted"}

OneActive(n) == \A x, y \in PoolModels : n[x] = "active" /\ n[y] = "active" => x = y

ModelDrains(n, p, m) ==
    /\ n[m] = "draining" => ModelAtWork(p, m)
    /\ n[m] = "retired" => ~ModelAtWork(p, m)
    /\ n[m] \in {"unknown", "deleted"} => OfModels(p, {m}) = {}

Drains(mode, n, p) ==
    /\ n \in [PoolModels -> SpaceStates]
    /\ \A m \in PoolModels : ModelDrains(n, p, m)
    /\ mode = "single" => OneActive(n)

GlobalInv ==
    /\ servingMode \in {"single", "multi"}
    /\ pooled \in PoolStates /\ PoolFit(pooled)
    /\ Drains(servingMode, space, pooled)

(* At most one model is active when at most one model is counted.          *)
LEMMA OneIsCounted ==
    ASSUME NEW n, OneActive(n)
    PROVE  Cardinality({m \in PoolModels : n[m] = "active"}) <= 1
<1> DEFINE A == {m \in PoolModels : n[m] = "active"}
<1>1. CASE A = {}
  BY <1>1, FS_EmptySet
<1>2. CASE A # {}
  <2>1. PICK x \in A : TRUE
    BY <1>2
  <2>2. A = {x}
    BY <2>1 DEF OneActive
  <2> QED
    BY <2>2, FS_Singleton
<1> QED
  BY <1>1, <1>2

(* The model of a Source.                                                  *)
LEMMA HasModel == ASSUME NEW k \in PoolKeys PROVE KeyModel[k] \in PoolModels
BY DEF PoolModels

(* The work of the models is the same when that of the Sources is.         *)
LEMMA SameWork ==
    ASSUME NEW p, NEW q, NEW m, OfModels(q, {m}) \subseteq OfModels(p, {m}),
           \A k \in OfModels(q, {m}) : AtWork(q, k) <=> AtWork(p, k),
           \A k \in OfModels(p, {m}) \ OfModels(q, {m}) : ~AtWork(p, k)
    PROVE  ModelAtWork(q, m) <=> ModelAtWork(p, m)
BY DEF ModelAtWork, OfModels

(* A pool that shrinks drains no model and wakes none.                     *)
LEMMA ShrunkDrains ==
    ASSUME NEW p, NEW q, ShrunkPool(p, q), NEW n, NEW m, ModelDrains(n, p, m)
    PROVE  ModelDrains(n, q, m)
<1>1. OfModels(q, {m}) \subseteq OfModels(p, {m})
  BY DEF OfModels, ShrunkPool, Shrunk
<1>2. \A k \in OfModels(q, {m}) : AtWork(q, k) <=> AtWork(p, k)
  BY DEF OfModels, ShrunkPool, Shrunk, AsBefore, AtWork
<1>3. \A k \in OfModels(p, {m}) \ OfModels(q, {m}) : ~AtWork(p, k)
  BY DEF OfModels, ShrunkPool, Shrunk, MayGo
<1>4. ModelAtWork(q, m) <=> ModelAtWork(p, m)
  BY <1>1, <1>2, <1>3, SameWork
<1> QED
  BY <1>1, <1>4 DEF ModelDrains

(* The Sources of whole models go.                                         *)
LEMMA PurgedIs ==
    ASSUME NEW p \in PoolStates, NEW M, NEW q, q = Without_(p, OfModels(p, M))
    PROVE  /\ q \in PoolStates
           /\ \A m \in M : OfModels(q, {m}) = {}
           /\ \A m : m \notin M => /\ OfModels(q, {m}) = OfModels(p, {m})
                                   /\ ModelAtWork(q, m) <=> ModelAtWork(p, m)
           /\ \A k \in Regd(p) : k \notin Regd(q) => KeyModel[k] \in M
           /\ \A k \in Regd(q) : q[k] = p[k]
           /\ PoolFit(p) => PoolFit(q)
<1>1. Regd(q) = Regd(p) \ OfModels(p, M) /\ \A k \in Regd(q) : q[k] = p[k]
  BY DEF Without_, Regd
<1>2. /\ \A m \in M : OfModels(q, {m}) = {}
      /\ \A m : m \notin M => OfModels(q, {m}) = OfModels(p, {m})
      /\ \A k \in Regd(p) : k \notin Regd(q) => KeyModel[k] \in M
  BY <1>1 DEF OfModels
<1>3. \A m : m \notin M => (ModelAtWork(q, m) <=> ModelAtWork(p, m))
  <2> TAKE m
  <2> HAVE m \notin M
  <2>1. OfModels(q, {m}) = OfModels(p, {m})
    BY <1>2
  <2>2. \A k \in OfModels(q, {m}) : AtWork(q, k) <=> AtWork(p, k)
    BY <1>1 DEF OfModels, AtWork
  <2> QED
    BY <2>1, <2>2, SameWork
<1>4. q \in PoolStates
  <2>1. Regd(q) \in SUBSET PoolKeys /\ \A k \in Regd(q) : q[k] \in PooledRecords
    BY <1>1, PoolFacts
  <2>2. q = [k \in Regd(q) |-> q[k]]
    BY <1>1 DEF Without_
  <2> QED
    BY <2>1, <2>2 DEF PoolStates
<1>5. ASSUME PoolFit(p) PROVE PoolFit(q)
  <2>1. Regd(q) \subseteq Regd(p) /\ IsFiniteSet(Regd(p)) /\ IsFiniteSet(Regd(q))
    BY <1>1, <1>4, PoolFacts
  <2>2. CanonicalUsed(q) <= CanonicalCap
    <3>1. \A k \in Regd(p) : KeyBytes[k] \in Nat
      BY PoolFacts, GlobalPoolShape
    <3>2. /\ SumOver(KeyBytes, Regd(p))
               = SumOver(KeyBytes, Regd(p) \ Regd(q)) + SumOver(KeyBytes, Regd(q))
          /\ SumOver(KeyBytes, Regd(p) \ Regd(q)) \in Nat
          /\ SumOver(KeyBytes, Regd(q)) \in Nat
      BY <2>1, <3>1, SumApart
    <3>3. CanonicalUsed(p) <= CanonicalCap /\ CanonicalCap \in Nat
      BY <1>5, PoolNumbers DEF PoolFit
    <3> QED
      BY <3>2, <3>3, CanonicalIsSum
  <2>3. ASSUME NEW t \in Locations PROVE TierUsed(q, t) <= TierCap[t]
    <3>1. \A k \in Regd(p) : BytesAt(p, t)[k] \in Nat
      BY BytesAreNaturals
    <3>2. /\ SumOver(BytesAt(p, t), Regd(p))
               = SumOver(BytesAt(p, t), Regd(p) \ Regd(q)) + SumOver(BytesAt(p, t), Regd(q))
          /\ SumOver(BytesAt(p, t), Regd(p) \ Regd(q)) \in Nat
          /\ SumOver(BytesAt(p, t), Regd(q)) \in Nat
      BY <2>1, <3>1, SumApart
    <3>3. \A k \in Regd(q) : BytesAt(q, t)[k] = BytesAt(p, t)[k]
      BY <1>1, <2>1 DEF BytesAt
    <3>4. SumOver(BytesAt(q, t), Regd(q)) = SumOver(BytesAt(p, t), Regd(q))
      BY <2>1, <3>3, SumSame
    <3>5. TierUsed(p, t) <= TierCap[t] /\ TierCap[t] \in Nat
      BY <1>5, PoolNumbers DEF PoolFit
    <3> QED
      BY <3>2, <3>4, <3>5, TierIsSum
  <2>4. ASSUME NEW k \in Regd(q) PROVE Cardinality(BucketOf(q, k)) <= VariantCap
    <3>1. BucketOf(q, k) \subseteq BucketOf(p, k) /\ BucketOf(p, k) \subseteq Regd(p)
      BY <2>1 DEF BucketOf
    <3>2. IsFiniteSet(BucketOf(p, k))
      BY <2>1, <3>1, FS_Subset
    <3>3. /\ Cardinality(BucketOf(q, k)) <= Cardinality(BucketOf(p, k))
          /\ IsFiniteSet(BucketOf(q, k))
      BY <3>1, <3>2, FS_Subset
    <3>4. Cardinality(BucketOf(q, k)) \in Nat /\ Cardinality(BucketOf(p, k)) \in Nat
      BY <3>2, <3>3, FS_CardinalityType
    <3>5. Cardinality(BucketOf(p, k)) <= VariantCap
      BY <1>5, <2>1 DEF PoolFit
    <3> QED
      BY <3>3, <3>4, <3>5, PoolNumbers
  <2> QED
    BY <2>2, <2>3, <2>4 DEF PoolFit
<1> QED
  BY <1>1, <1>2, <1>3, <1>4, <1>5

(* begin_model_unload(): an active model drains while it works, and is     *)
(* retired when it does not.                                               *)
LEMMA UnloadedIs ==
    ASSUME NEW n \in [PoolModels -> SpaceStates], NEW p, NEW m \in PoolModels,
           NEW w, w = Unloaded(n, p, m)
    PROVE  /\ w \in [PoolModels -> SpaceStates]
           /\ \A x \in PoolModels \ {m} : w[x] = n[x]
           /\ w[m] = IF n[m] \in {"active", "draining"}
                     THEN IF ModelAtWork(p, m) THEN "draining" ELSE "retired"
                     ELSE n[m]
BY DEF Unloaded, SpaceStates

(* activate_model(): only the model named changes.                         *)
LEMMA ActivatedIs ==
    ASSUME NEW n \in [PoolModels -> SpaceStates], NEW m \in PoolModels,
           NEW w, w = Activated(n, m)
    PROVE  /\ w \in [PoolModels -> SpaceStates]
           /\ \A x \in PoolModels \ {m} : w[x] = n[x]
           /\ w[m] = "active" => \/ servingMode # "single"
                                 \/ n[m] = "active"
                                 \/ \A x \in PoolModels \ {m} : n[x] # "active"
           /\ w[m] # n[m] => n[m] \in {"unknown", "deleted", "retired"} /\ w[m] \in {"active", "retired"}
           /\ w[m] = "retired" => n[m] \in {"unknown", "deleted", "retired"}
<1> DEFINE r == NamespaceKnown(n, m)
<1>1. /\ r \in [PoolModels -> SpaceStates]
      /\ \A x \in PoolModels \ {m} : r[x] = n[x]
      /\ r[m] = IF n[m] \in {"unknown", "deleted"} THEN "retired" ELSE n[m]
  BY DEF NamespaceKnown, SpaceStates
<1>2. \/ w = r
      \/ /\ w = [r EXCEPT ![m] = "active"] /\ r[m] # "draining"
         /\ \/ servingMode # "single"
            \/ \A x \in PoolModels \ {m} : r[x] # "active"
  BY DEF Activated
<1> HIDE DEF r
<1>3. CASE w = r
  BY <1>1, <1>3 DEF SpaceStates
<1>4. CASE /\ w = [r EXCEPT ![m] = "active"] /\ r[m] # "draining"
           /\ \/ servingMode # "single"
              \/ \A x \in PoolModels \ {m} : r[x] # "active"
  <2>1. /\ w \in [PoolModels -> SpaceStates] /\ w[m] = "active"
        /\ \A x \in PoolModels \ {m} : w[x] = n[x]
    BY <1>1, <1>4 DEF SpaceStates
  <2>2. n[m] \in {"unknown", "deleted", "retired", "active"}
    BY <1>1, <1>4 DEF SpaceStates
  <2> QED
    BY <1>1, <1>4, <2>1, <2>2
<1> QED
  BY <1>2, <1>3, <1>4

(***************************************************************************)
(* The steps.                                                              *)
(***************************************************************************)
LEMMA GlobalStarts == GlobalPoolInit => GlobalInv
<1> SUFFICES ASSUME GlobalPoolInit PROVE GlobalInv
  OBVIOUS
<1>1. Regd(pooled) = {} /\ pooled \in PoolStates
  <2>1. pooled \in [{} -> PooledRecords] /\ Regd(pooled) = {}
    BY DEF GlobalPoolInit, Regd
  <2>2. {} \in SUBSET PoolKeys
    OBVIOUS
  <2> QED
    BY <2>1, <2>2 DEF PoolStates
<1>2. CanonicalUsed(pooled) = 0 /\ \A t \in Locations : TierUsed(pooled, t) = 0
  BY <1>1, SumEmpty, CanonicalIsSum, TierIsSum
<1>3. PoolFit(pooled)
  BY <1>1, <1>2, PoolNumbers DEF PoolFit
<1>4. \A m \in PoolModels : space[m] = "unknown" /\ OfModels(pooled, {m}) = {}
  BY <1>1 DEF GlobalPoolInit, OfModels
<1>5. Drains(servingMode, space, pooled)
  BY <1>4 DEF Drains, ModelDrains, OneActive, SpaceStates, GlobalPoolInit
<1> QED
  BY <1>1, <1>3, <1>5 DEF GlobalInv, GlobalPoolInit

(* What the properties are from one state to the next, on pools.           *)
Loses(p, q, n) ==
    \A k \in Regd(p) :
      /\ k \notin Regd(q) =>
           /\ ~AtWork(p, k)
           /\ n[KeyModel[k]] = "deleted" \/ p[k].seen >= ProbationLookups
      /\ k \in Regd(q) /\ AtWork(p, k) =>
           \A t \in Locations : p[k].replica[t] > 0 => q[k].replica[t] > 0

StaysSound == GlobalInv' /\ Loses(pooled, pooled', space')

(* What the loops leave loses idle Sources only.                           *)
LEMMA ShrunkLoses ==
    ASSUME NEW p, NEW q, Shrunk(p, q), NEW n
    PROVE  Loses(p, q, n)
BY DEF Shrunk, Loses, MayGo, AsBefore

(* register.                                                               *)
LEMMA RegisterKeeps ==
    ASSUME GlobalInv, NEW k \in PoolKeys, RegisterPooled(k)
    PROVE  StaysSound
<1>1. /\ space[KeyModel[k]] = "active" /\ k \notin Regd(pooled)
      /\ servingMode' = servingMode /\ space' = space
  BY DEF RegisterPooled
<1>2. PICK q \in RoomFor(pooled, k) : pooled' = Joined(q, k)
  BY DEF RegisterPooled, RoomFor, Joined
<1>3. pooled \in PoolStates /\ PoolFit(pooled) /\ Drains(servingMode, space, pooled)
  BY DEF GlobalInv
<1>4. /\ ShrunkPool(pooled, q) /\ k \notin Regd(q)
      /\ pooled' \in PoolStates /\ PoolFit(pooled')
  BY <1>1, <1>2, <1>3, RegisteredFits
<1>5. /\ Regd(pooled') = Regd(q) \cup {k} /\ pooled'[k] = NewPooled
      /\ \A j \in Regd(q) : pooled'[j] = q[j]
  BY <1>2, <1>4, JoinedIs DEF ShrunkPool
<1>6. ~AtWork(pooled', k)
  BY <1>5 DEF AtWork, NewPooled
<1>7. ASSUME NEW m \in PoolModels PROVE ModelDrains(space, pooled', m)
  <2>1. ModelDrains(space, q, m)
    BY <1>3, <1>4, ShrunkDrains DEF Drains
  <2>2. CASE m = KeyModel[k]
    BY <1>1, <2>2 DEF ModelDrains
  <2>3. CASE m # KeyModel[k]
    <3>1. OfModels(pooled', {m}) = OfModels(q, {m})
      BY <1>5, <2>3 DEF OfModels
    <3>2. \A j \in OfModels(pooled', {m}) : AtWork(pooled', j) <=> AtWork(q, j)
      BY <1>5, <3>1 DEF OfModels, AtWork
    <3>3. ModelAtWork(pooled', m) <=> ModelAtWork(q, m)
      BY <3>1, <3>2, SameWork
    <3> QED
      BY <2>1, <3>1, <3>3 DEF ModelDrains
  <2> QED
    BY <2>2, <2>3
<1>8. GlobalInv'
  BY <1>1, <1>3, <1>4, <1>7 DEF GlobalInv, Drains
<1>9. Loses(pooled, pooled', space')
  <2>1. Loses(pooled, q, space')
    BY <1>4, ShrunkLoses DEF ShrunkPool
  <2>2. \A j \in Regd(pooled) : (j \in Regd(pooled') <=> j \in Regd(q))
    BY <1>1, <1>5
  <2> QED
    BY <1>5, <2>1, <2>2 DEF Loses
<1> QED
  BY <1>8, <1>9 DEF StaysSound

(* attach_replica.                                                         *)
LEMMA AttachReplicaKeeps ==
    ASSUME GlobalInv, NEW k \in PoolKeys, NEW t \in Locations, NEW size \in ReplicaSizes,
           AttachReplicaTo(k, t, size)
    PROVE  StaysSound
<1>1. /\ k \in Regd(pooled) /\ servingMode' = servingMode /\ space' = space
      /\ size \in Nat \ {0}
  BY GlobalPoolShape DEF AttachReplicaTo
<1>2. PICK V \in Displaced(pooled, k, t, size) :
        LET p == Displacing(pooled, V, t)
            fits == TierUsed(p, t) - p[k].replica[t] + size <= TierCap[t]
        IN  pooled' = IF fits THEN Placing(p, k, t, size) ELSE p
  BY DEF AttachReplicaTo, Displacing, Placing
<1> DEFINE p == Displacing(pooled, V, t)
<1>3. pooled \in PoolStates /\ PoolFit(pooled) /\ Drains(servingMode, space, pooled)
  BY DEF GlobalInv
<1>4. \A j \in V : j \in Regd(pooled) /\ j # k /\ ~AtWork(pooled, j)
  BY DisplacedAreIdle
<1>5. ShrunkPool(pooled, p) /\ Regd(p) = Regd(pooled)
  BY <1>3, <1>4, DisplacingShrinks
<1>6. \/ pooled' = p
      \/ /\ TierUsed(p, t) - p[k].replica[t] + size <= TierCap[t]
         /\ pooled' = Placing(p, k, t, size)
  BY <1>2
<1> HIDE DEF p
<1>7. p \in PoolStates /\ PoolFit(p) /\ Loses(pooled, p, space')
  BY <1>3, <1>5, ShrunkFits, ShrunkLoses DEF ShrunkPool
<1>8. \A m \in PoolModels : ModelDrains(space, p, m)
  BY <1>3, <1>5, ShrunkDrains DEF Drains
<1>9. CASE pooled' = p
  BY <1>1, <1>3, <1>7, <1>8, <1>9 DEF StaysSound, GlobalInv, Drains
<1>10. CASE /\ TierUsed(p, t) - p[k].replica[t] + size <= TierCap[t]
            /\ pooled' = Placing(p, k, t, size)
  <2>1. /\ pooled' \in PoolStates /\ Regd(pooled') = Regd(p)
        /\ \A j \in Regd(p) \ {k} : pooled'[j] = p[j]
        /\ pooled'[k].work = p[k].work
        /\ pooled'[k].replica = [p[k].replica EXCEPT ![t] = size]
        /\ p[k].replica \in [Locations -> Nat]
    BY <1>1, <1>5, <1>7, <1>10, PlacingIs, PoolFacts
  <2>2. PoolFit(pooled')
    BY <1>1, <1>5, <1>7, <1>10, PlacingFits
  <2>3. ASSUME NEW m \in PoolModels PROVE ModelDrains(space, pooled', m)
    <3>1. OfModels(pooled', {m}) = OfModels(p, {m})
      BY <2>1 DEF OfModels
    <3>2. \A j \in Regd(p) : pooled'[j].work = p[j].work
      BY <2>1
    <3>3. \A j \in OfModels(pooled', {m}) : AtWork(pooled', j) <=> AtWork(p, j)
      BY <2>1, <3>2 DEF OfModels, AtWork
    <3>4. ModelAtWork(pooled', m) <=> ModelAtWork(p, m)
      BY <3>1, <3>3, SameWork
    <3> QED
      BY <1>8, <3>1, <3>4 DEF ModelDrains
  <2>4. GlobalInv'
    BY <1>1, <1>3, <2>1, <2>2, <2>3 DEF GlobalInv, Drains
  <2>5. ASSUME NEW j \in Regd(p), NEW u \in Locations, p[j].replica[u] > 0
        PROVE  pooled'[j].replica[u] > 0
    <3>1. CASE j # k
      BY <2>1, <2>5, <3>1
    <3>2. CASE j = k
      <4>1. pooled'[k].replica[u] = IF u = t THEN size ELSE p[k].replica[u]
        BY <2>1
      <4> QED
        BY <1>1, <2>5, <3>2, <4>1
    <3> QED
      BY <3>1, <3>2
  <2>6. Loses(pooled, pooled', space')
    BY <1>7, <2>1, <2>5 DEF Loses
  <2> QED
    BY <2>4, <2>6 DEF StaysSound
<1> QED
  BY <1>6, <1>9, <1>10

(* A comparison of the probation.                                          *)
LEMMA ComparisonKeeps ==
    ASSUME GlobalInv, NEW k \in PoolKeys, RecordComparison(k)
    PROVE  StaysSound
<1> DEFINE c == pooled[k].seen + 1
<1>1. /\ k \in Regd(pooled) /\ servingMode' = servingMode /\ space' = space
      /\ pooled' = Noticed(pooled, k, c)
  BY DEF RecordComparison, Noticed
<1>2. pooled \in PoolStates /\ PoolFit(pooled) /\ Drains(servingMode, space, pooled)
  BY DEF GlobalInv
<1>3. c \in Nat
  <2>1. pooled[k].seen \in Nat
    BY <1>1, <1>2, PoolFacts
  <2> QED
    BY <2>1
<1> HIDE DEF c
<1>4. /\ pooled' \in PoolStates /\ Regd(pooled') = Regd(pooled)
      /\ \A j \in Regd(pooled) : /\ pooled'[j].replica = pooled[j].replica
                                 /\ pooled'[j].work = pooled[j].work
  BY <1>1, <1>2, <1>3, SeenIs
<1>5. PoolFit(pooled')
  BY <1>2, <1>4, SameReplicasFit
<1>6. ASSUME NEW m \in PoolModels PROVE ModelDrains(space, pooled', m)
  <2>1. OfModels(pooled', {m}) = OfModels(pooled, {m})
    BY <1>4 DEF OfModels
  <2>2. \A j \in OfModels(pooled', {m}) : AtWork(pooled', j) <=> AtWork(pooled, j)
    BY <1>4 DEF OfModels, AtWork
  <2>3. ModelAtWork(pooled', m) <=> ModelAtWork(pooled, m)
    BY <2>1, <2>2, SameWork
  <2> QED
    BY <1>2, <2>1, <2>3 DEF ModelDrains, Drains
<1>7. GlobalInv'
  BY <1>1, <1>2, <1>4, <1>5, <1>6 DEF GlobalInv, Drains
<1>8. Loses(pooled, pooled', space')
  BY <1>4 DEF Loses
<1> QED
  BY <1>7, <1>8 DEF StaysSound

(* The work of one Source changes.                                         *)
LEMMA WorkChanges ==
    ASSUME GlobalInv, NEW k \in Regd(pooled), NEW a \in ActivityKinds, NEW n \in Nat,
           NEW q, q = Working(pooled, k, a, n)
    PROVE  /\ q \in PoolStates /\ PoolFit(q) /\ Regd(q) = Regd(pooled)
           /\ \A m : OfModels(q, {m}) = OfModels(pooled, {m})
           /\ \A m : m # KeyModel[k] => (ModelAtWork(q, m) <=> ModelAtWork(pooled, m))
           /\ \A w : Loses(pooled, q, w)
<1>1. pooled \in PoolStates /\ PoolFit(pooled)
  BY DEF GlobalInv
<1>2. /\ q \in PoolStates /\ Regd(q) = Regd(pooled)
      /\ \A j \in Regd(pooled) \ {k} : q[j] = pooled[j]
      /\ q[k].replica = pooled[k].replica
  BY <1>1, WorkingIs
<1>3. \A j \in Regd(pooled) : q[j].replica = pooled[j].replica
  BY <1>2
<1>4. PoolFit(q)
  BY <1>1, <1>2, <1>3, SameReplicasFit
<1>5. \A m : OfModels(q, {m}) = OfModels(pooled, {m})
  BY <1>2 DEF OfModels
<1>6. \A m : m # KeyModel[k] => (ModelAtWork(q, m) <=> ModelAtWork(pooled, m))
  <2> TAKE m
  <2> HAVE m # KeyModel[k]
  <2>1. \A j \in OfModels(q, {m}) : AtWork(q, j) <=> AtWork(pooled, j)
    BY <1>2 DEF OfModels, AtWork
  <2> QED
    BY <1>5, <2>1, SameWork
<1>7. \A w : Loses(pooled, q, w)
  BY <1>2, <1>3 DEF Loses
<1> QED
  BY <1>2, <1>4, <1>5, <1>6, <1>7

(* Work that starts finds its namespace active.                            *)
LEMMA StartKeeps ==
    ASSUME GlobalInv, NEW k \in PoolKeys, NEW a \in ActivityKinds, StartWork(k, a)
    PROVE  StaysSound
<1> DEFINE c == pooled[k].work[a] + 1
           m0 == KeyModel[k]
<1>1. /\ k \in Regd(pooled) /\ servingMode' = servingMode /\ space' = space
      /\ pooled' = Working(pooled, k, a, c) /\ space[m0] = "active"
  BY DEF StartWork, Working
<1>2. c \in Nat
  <2>1. pooled[k].work \in [ActivityKinds -> Nat]
    BY <1>1, PoolFacts DEF GlobalInv
  <2> QED
    BY <2>1
<1> HIDE DEF c
<1>3. /\ pooled' \in PoolStates /\ PoolFit(pooled')
      /\ \A m : OfModels(pooled', {m}) = OfModels(pooled, {m})
      /\ \A m : m # m0 => (ModelAtWork(pooled', m) <=> ModelAtWork(pooled, m))
      /\ \A w : Loses(pooled, pooled', w)
  BY <1>1, <1>2, WorkChanges
<1>4. ASSUME NEW m \in PoolModels PROVE ModelDrains(space, pooled', m)
  <2>1. ModelDrains(space, pooled, m)
    BY DEF GlobalInv, Drains
  <2>2. CASE m = m0
    BY <1>1, <2>2 DEF ModelDrains
  <2>3. CASE m # m0
    BY <1>3, <2>1, <2>3 DEF ModelDrains
  <2> QED
    BY <2>2, <2>3
<1>5. GlobalInv'
  BY <1>1, <1>3, <1>4 DEF GlobalInv, Drains
<1> QED
  BY <1>3, <1>5 DEF StaysSound

(* Work that ends may let its draining namespace retire.                   *)
LEMMA FinishKeeps ==
    ASSUME GlobalInv, NEW k \in PoolKeys, NEW a \in ActivityKinds, FinishWork(k, a)
    PROVE  StaysSound
<1> DEFINE c == pooled[k].work[a] - 1
           m0 == KeyModel[k]
<1>1. /\ k \in Regd(pooled) /\ servingMode' = servingMode /\ pooled[k].work[a] > 0
      /\ pooled' = Working(pooled, k, a, c)
      /\ space' = AfterWork(space, pooled', m0)
  BY DEF FinishWork, Working
<1>2. c \in Nat /\ AtWork(pooled, k)
  <2>1. pooled[k].work \in [ActivityKinds -> Nat]
    BY <1>1, PoolFacts DEF GlobalInv
  <2> QED
    BY <1>1, <2>1 DEF AtWork
<1> HIDE DEF c
<1>3. /\ pooled' \in PoolStates /\ PoolFit(pooled')
      /\ \A m : OfModels(pooled', {m}) = OfModels(pooled, {m})
      /\ \A m : m # m0 => (ModelAtWork(pooled', m) <=> ModelAtWork(pooled, m))
      /\ \A w : Loses(pooled, pooled', w)
  BY <1>1, <1>2, WorkChanges
<1>4. /\ m0 \in PoolModels /\ space \in [PoolModels -> SpaceStates]
      /\ servingMode = "single" => OneActive(space)
  BY HasModel DEF GlobalInv, Drains
<1>5. /\ space' \in [PoolModels -> SpaceStates]
      /\ \A x \in PoolModels \ {m0} : space'[x] = space[x]
      /\ space'[m0] = IF space[m0] = "draining"
                      THEN IF ModelAtWork(pooled', m0) THEN "draining" ELSE "retired"
                      ELSE space[m0]
  <2>1. CASE space[m0] = "draining"
    <3>1. space' = Unloaded(space, pooled', m0)
      BY <1>1, <2>1 DEF AfterWork
    <3> QED
      BY <1>4, <2>1, <3>1, UnloadedIs
  <2>2. CASE space[m0] # "draining"
    BY <1>1, <1>4, <2>2 DEF AfterWork
  <2> QED
    BY <2>1, <2>2
<1>6. ASSUME NEW m \in PoolModels PROVE ModelDrains(space', pooled', m)
  <2>1. ModelDrains(space, pooled, m)
    BY DEF GlobalInv, Drains
  <2>2. CASE m = m0
    <3>1. ModelAtWork(pooled, m0) /\ OfModels(pooled, {m0}) # {}
      BY <1>1, <1>2 DEF ModelAtWork, OfModels
    <3>2. space[m0] \in {"active", "draining"}
      BY <1>4, <2>1, <2>2, <3>1 DEF ModelDrains, SpaceStates
    <3> QED
      BY <1>5, <2>2, <3>2 DEF ModelDrains
  <2>3. CASE m # m0
    <3>1. space'[m] = space[m]
      BY <1>5, <2>3
    <3> QED
      BY <1>3, <2>1, <2>3, <3>1 DEF ModelDrains
  <2> QED
    BY <2>2, <2>3
<1>7. servingMode = "single" => OneActive(space')
  <2>1. \A x \in PoolModels : space'[x] = "active" => space[x] = "active"
    BY <1>5
  <2> QED
    BY <1>4, <2>1 DEF OneActive
<1>8. GlobalInv'
  BY <1>1, <1>3, <1>5, <1>6, <1>7 DEF GlobalInv, Drains
<1> QED
  BY <1>3, <1>8 DEF StaysSound

(* The names of the models change, and the pool does not.                  *)
LEMMA OnlyNames ==
    ASSUME GlobalInv, servingMode' = servingMode, pooled' = pooled,
           space' \in [PoolModels -> SpaceStates],
           \A m \in PoolModels : ModelDrains(space', pooled, m),
           servingMode = "single" => OneActive(space')
    PROVE  StaysSound
<1>1. GlobalInv'
  BY DEF GlobalInv, Drains
<1>2. Loses(pooled, pooled', space')
  BY DEF Loses
<1> QED
  BY <1>1, <1>2 DEF StaysSound

(* register_namespace and activate_model.                                  *)
LEMMA SpaceKeeps ==
    ASSUME GlobalInv, NEW m \in PoolModels, RegisterNamespace(m) \/ ActivateModel(m)
    PROVE  StaysSound
<1>0. /\ space \in [PoolModels -> SpaceStates]
      /\ \A x \in PoolModels : ModelDrains(space, pooled, x)
      /\ servingMode = "single" => OneActive(space)
  BY DEF GlobalInv, Drains
<1>1. servingMode' = servingMode /\ pooled' = pooled
  BY DEF RegisterNamespace, ActivateModel
<1>2. /\ space' \in [PoolModels -> SpaceStates]
      /\ \A x \in PoolModels \ {m} : space'[x] = space[x]
      /\ space'[m] = "active" => \/ servingMode # "single" \/ space[m] = "active"
                                 \/ \A x \in PoolModels \ {m} : space[x] # "active"
      /\ space'[m] # space[m] => /\ space[m] \in {"unknown", "deleted", "retired"}
                                 /\ space'[m] \in {"active", "retired"}
      /\ space'[m] = "retired" => space[m] \in {"unknown", "deleted", "retired"}
  <2>1. CASE RegisterNamespace(m)
    <3>1. space' = NamespaceKnown(space, m)
      BY <2>1 DEF RegisterNamespace
    <3>2. \/ space' = space
          \/ space[m] \in {"unknown", "deleted"} /\ space' = [space EXCEPT ![m] = "retired"]
      BY <3>1 DEF NamespaceKnown
    <3> QED
      BY <1>0, <3>2 DEF SpaceStates
  <2>2. CASE ActivateModel(m)
    BY <1>0, <2>2, ActivatedIs DEF ActivateModel
  <2> QED
    BY <2>1, <2>2
<1>3. ASSUME NEW x \in PoolModels PROVE ModelDrains(space', pooled, x)
  <2>1. ModelDrains(space, pooled, x)
    BY <1>0
  <2>2. CASE space'[x] = space[x]
    BY <2>1, <2>2 DEF ModelDrains
  <2>3. CASE space'[x] # space[x]
    <3>1. x = m /\ space[m] \in {"unknown", "deleted", "retired"} /\ space'[m] \in {"active", "retired"}
      BY <1>2, <2>3
    <3>2. ~ModelAtWork(pooled, m)
      BY <2>1, <3>1 DEF ModelDrains, ModelAtWork, OfModels
    <3> QED
      BY <3>1, <3>2 DEF ModelDrains
  <2> QED
    BY <2>2, <2>3
<1>4. servingMode = "single" => OneActive(space')
  BY <1>0, <1>2 DEF OneActive
<1> QED
  BY <1>1, <1>2, <1>3, <1>4, OnlyNames

(* A namespace with work drains, one without is retired.                   *)
LEMMA UnloadKeeps ==
    ASSUME GlobalInv, NEW m \in PoolModels, NEW w, w = Unloaded(space, pooled, m)
    PROVE  /\ w \in [PoolModels -> SpaceStates]
           /\ \A x \in PoolModels : ModelDrains(w, pooled, x)
           /\ \A x \in PoolModels : w[x] = "active" => space[x] = "active"
           /\ servingMode = "single" => OneActive(w)
<1>0. /\ space \in [PoolModels -> SpaceStates]
      /\ \A x \in PoolModels : ModelDrains(space, pooled, x)
      /\ servingMode = "single" => OneActive(space)
  BY DEF GlobalInv, Drains
<1>1. /\ w \in [PoolModels -> SpaceStates]
      /\ \A x \in PoolModels \ {m} : w[x] = space[x]
      /\ w[m] = IF space[m] \in {"active", "draining"}
                THEN IF ModelAtWork(pooled, m) THEN "draining" ELSE "retired"
                ELSE space[m]
  BY <1>0, UnloadedIs
<1>2. ASSUME NEW x \in PoolModels PROVE ModelDrains(w, pooled, x)
  <2>1. ModelDrains(space, pooled, x)
    BY <1>0
  <2>2. CASE x # m \/ space[m] \notin {"active", "draining"}
    <3>1. w[x] = space[x]
      BY <1>1, <2>2
    <3> QED
      BY <2>1, <3>1 DEF ModelDrains
  <2>3. CASE x = m /\ space[m] \in {"active", "draining"}
    BY <1>1, <2>3 DEF ModelDrains
  <2> QED
    BY <2>2, <2>3
<1>3. \A x \in PoolModels : w[x] = "active" => space[x] = "active"
  BY <1>1
<1> QED
  BY <1>0, <1>1, <1>2, <1>3 DEF OneActive

(* begin_model_unload.                                                     *)
LEMMA BeginUnloadKeeps ==
    ASSUME GlobalInv, NEW m \in PoolModels, BeginModelUnload(m)
    PROVE  StaysSound
<1>1. servingMode' = servingMode /\ pooled' = pooled /\ space' = Unloaded(space, pooled, m)
  BY DEF BeginModelUnload
<1> QED
  BY <1>1, UnloadKeeps, OnlyNames

(* purge_model drops the Sources of a model nobody uses.                   *)
LEMMA PurgeModelKeeps ==
    ASSUME GlobalInv, NEW m \in PoolModels, PurgeModel(m)
    PROVE  StaysSound
<1> DEFINE w == Unloaded(space, pooled, m)
<1>0. servingMode' = servingMode /\ pooled \in PoolStates /\ PoolFit(pooled)
  BY DEF PurgeModel, GlobalInv
<1>1. /\ w \in [PoolModels -> SpaceStates]
      /\ \A x \in PoolModels : ModelDrains(w, pooled, x)
      /\ servingMode = "single" => OneActive(w)
  BY UnloadKeeps
<1>2. \/ w[m] # "retired" /\ space' = w /\ pooled' = pooled
      \/ /\ w[m] = "retired" /\ space' = [w EXCEPT ![m] = "deleted"]
         /\ pooled' = Without_(pooled, OfModels(pooled, {m}))
  BY DEF PurgeModel
<1> HIDE DEF w
<1>3. CASE w[m] # "retired" /\ space' = w /\ pooled' = pooled
  BY <1>0, <1>1, <1>3, OnlyNames
<1>4. CASE /\ w[m] = "retired" /\ space' = [w EXCEPT ![m] = "deleted"]
           /\ pooled' = Without_(pooled, OfModels(pooled, {m}))
  <2>1. /\ pooled' \in PoolStates /\ PoolFit(pooled')
        /\ OfModels(pooled', {m}) = {}
        /\ \A x : x # m => /\ OfModels(pooled', {x}) = OfModels(pooled, {x})
                           /\ ModelAtWork(pooled', x) <=> ModelAtWork(pooled, x)
        /\ \A k \in Regd(pooled) : k \notin Regd(pooled') => KeyModel[k] = m
        /\ \A k \in Regd(pooled') : pooled'[k] = pooled[k]
    <3> DEFINE M == {m}
    <3>1. (\A x : x \in M <=> x = m) /\ pooled' = Without_(pooled, OfModels(pooled, M))
      BY <1>4
    <3> HIDE DEF M
    <3>2. /\ pooled' \in PoolStates
          /\ \A x \in M : OfModels(pooled', {x}) = {}
          /\ \A x : x \notin M => /\ OfModels(pooled', {x}) = OfModels(pooled, {x})
                                  /\ ModelAtWork(pooled', x) <=> ModelAtWork(pooled, x)
          /\ \A k \in Regd(pooled) : k \notin Regd(pooled') => KeyModel[k] \in M
          /\ \A k \in Regd(pooled') : pooled'[k] = pooled[k]
          /\ PoolFit(pooled')
      BY <1>0, <3>1, PurgedIs
    <3> QED
      BY <3>1, <3>2
  <2>2. /\ space' \in [PoolModels -> SpaceStates] /\ space'[m] = "deleted"
        /\ \A x \in PoolModels \ {m} : space'[x] = w[x]
    BY <1>1, <1>4 DEF SpaceStates
  <2>3. ~ModelAtWork(pooled, m)
    BY <1>1, <1>4 DEF ModelDrains
  <2>4. ASSUME NEW x \in PoolModels PROVE ModelDrains(space', pooled', x)
    <3>1. CASE x = m
      BY <2>1, <2>2, <3>1 DEF ModelDrains
    <3>2. CASE x # m
      <4>1. space'[x] = w[x] /\ ModelDrains(w, pooled, x)
        BY <1>1, <2>2, <3>2
      <4> QED
        BY <2>1, <3>2, <4>1 DEF ModelDrains
    <3> QED
      BY <3>1, <3>2
  <2>5. servingMode = "single" => OneActive(space')
    BY <1>1, <2>2 DEF OneActive
  <2>6. GlobalInv'
    BY <1>0, <2>1, <2>2, <2>4, <2>5 DEF GlobalInv, Drains
  <2>7. \A k \in Regd(pooled) : k \notin Regd(pooled') =>
           ~AtWork(pooled, k) /\ space'[KeyModel[k]] = "deleted"
    BY <2>1, <2>2, <2>3 DEF ModelAtWork
  <2>8. Loses(pooled, pooled', space')
    BY <2>1, <2>7 DEF Loses
  <2> QED
    BY <2>6, <2>8 DEF StaysSound
<1> QED
  BY <1>2, <1>3, <1>4

(* Models that do not work are purged one after the other.                 *)
LEMMA PurgedMany ==
    ASSUME GlobalInv, NEW M \in SUBSET PoolModels,
           \A x \in M : ~ModelAtWork(pooled, x),
           NEW n, n = [x \in PoolModels |-> IF x \in M THEN "deleted" ELSE space[x]],
           NEW q, q = Without_(pooled, OfModels(pooled, M))
    PROVE  /\ q \in PoolStates /\ PoolFit(q)
           /\ n \in [PoolModels -> SpaceStates]
           /\ \A x \in PoolModels : ModelDrains(n, q, x)
           /\ \A x \in PoolModels : x \notin M => (ModelAtWork(q, x) <=> ModelAtWork(pooled, x))
           /\ servingMode = "single" => OneActive(n)
           /\ \A w : (\A x \in M : w[x] = "deleted") => Loses(pooled, q, w)
<1>0. /\ pooled \in PoolStates /\ PoolFit(pooled) /\ space \in [PoolModels -> SpaceStates]
      /\ \A x \in PoolModels : ModelDrains(space, pooled, x)
      /\ servingMode = "single" => OneActive(space)
  BY DEF GlobalInv, Drains
<1>1. /\ q \in PoolStates /\ PoolFit(q)
      /\ \A x \in M : OfModels(q, {x}) = {}
      /\ \A x : x \notin M => /\ OfModels(q, {x}) = OfModels(pooled, {x})
                              /\ ModelAtWork(q, x) <=> ModelAtWork(pooled, x)
      /\ \A k \in Regd(pooled) : k \notin Regd(q) => KeyModel[k] \in M
      /\ \A k \in Regd(q) : q[k] = pooled[k]
  BY <1>0, PurgedIs
<1>2. /\ n \in [PoolModels -> SpaceStates]
      /\ \A x \in M : n[x] = "deleted"
      /\ \A x \in PoolModels : x \notin M => n[x] = space[x]
  BY <1>0 DEF SpaceStates
<1>3. ASSUME NEW x \in PoolModels PROVE ModelDrains(n, q, x)
  <2>1. CASE x \in M
    BY <1>1, <1>2, <2>1 DEF ModelDrains
  <2>2. CASE x \notin M
    <3>1. n[x] = space[x] /\ ModelDrains(space, pooled, x)
      BY <1>0, <1>2, <2>2
    <3> QED
      BY <1>1, <2>2, <3>1 DEF ModelDrains
  <2> QED
    BY <2>1, <2>2
<1>4. servingMode = "single" => OneActive(n)
  BY <1>0, <1>2 DEF OneActive
<1>5. ASSUME NEW w, \A x \in M : w[x] = "deleted" PROVE Loses(pooled, q, w)
  <2>1. \A k \in Regd(pooled) : k \notin Regd(q) => ~AtWork(pooled, k) /\ w[KeyModel[k]] = "deleted"
    BY <1>1, <1>5 DEF ModelAtWork
  <2> QED
    BY <1>1, <2>1 DEF Loses
<1> QED
  BY <1>1, <1>2, <1>3, <1>4, <1>5

(* switch_single_model.                                                    *)
LEMMA SwitchKeeps ==
    ASSUME GlobalInv, NEW m \in PoolModels, SwitchSingleModel(m)
    PROVE  StaysSound
<1> DEFINE others == {x \in PoolModels \ {m} : space[x] \notin {"unknown", "deleted"}}
           busy == {x \in others : ModelAtWork(pooled, x)}
           Emptied(M) == [x \in PoolModels |-> IF x \in M THEN "deleted" ELSE space[x]]
<1>0. /\ servingMode = "single" /\ servingMode' = servingMode
      /\ space \in [PoolModels -> SpaceStates]
  BY DEF SwitchSingleModel, GlobalInv, Drains
<1>1. \/ /\ busy = {} /\ space' = Activated(Emptied(others), m)
         /\ pooled' = Without_(pooled, OfModels(pooled, others))
      \/ \E b \in busy, M \in SUBSET (others \ busy) :
           /\ space' = Unloaded(Emptied(M), pooled, b)
           /\ pooled' = Without_(pooled, OfModels(pooled, M))
  BY DEF SwitchSingleModel
<1>2. CASE /\ busy = {} /\ space' = Activated(Emptied(others), m)
           /\ pooled' = Without_(pooled, OfModels(pooled, others))
  <2> DEFINE n == Emptied(others)
  <2>1. others \in SUBSET PoolModels /\ \A x \in others : ~ModelAtWork(pooled, x)
    BY <1>2
  <2>2. /\ \A x \in others : n[x] = "deleted"
        /\ \A x \in PoolModels \ {m} : n[x] \in {"unknown", "deleted"}
        /\ n[m] = space[m]
    OBVIOUS
  <2>3. n = [x \in PoolModels |-> IF x \in others THEN "deleted" ELSE space[x]]
    OBVIOUS
  <2> HIDE DEF n, others
  <2>4. /\ pooled' \in PoolStates /\ PoolFit(pooled')
        /\ n \in [PoolModels -> SpaceStates]
        /\ \A x \in PoolModels : ModelDrains(n, pooled', x)
        /\ \A w : (\A x \in others : w[x] = "deleted") => Loses(pooled, pooled', w)
    BY <1>2, <2>1, <2>3, PurgedMany
  <2>5. space' = Activated(n, m)
    BY <1>2 DEF n
  <2>6. /\ space' \in [PoolModels -> SpaceStates]
        /\ \A x \in PoolModels \ {m} : space'[x] = n[x]
        /\ space'[m] # n[m] => /\ n[m] \in {"unknown", "deleted", "retired"}
                               /\ space'[m] \in {"active", "retired"}
    BY <2>4, <2>5, ActivatedIs
  <2>7. ASSUME NEW x \in PoolModels PROVE ModelDrains(space', pooled', x)
    <3>1. ModelDrains(n, pooled', x)
      BY <2>4
    <3>2. CASE space'[x] = n[x]
      BY <3>1, <3>2 DEF ModelDrains
    <3>3. CASE space'[x] # n[x]
      <4>1. /\ x = m /\ n[x] \in {"unknown", "deleted", "retired"}
            /\ space'[x] \in {"active", "retired"}
        BY <2>6, <3>3
      <4>2. ~ModelAtWork(pooled', x)
        BY <3>1, <4>1 DEF ModelDrains, ModelAtWork, OfModels
      <4> QED
        BY <4>1, <4>2 DEF ModelDrains
    <3> QED
      BY <3>2, <3>3
  <2>8. OneActive(space')
    BY <2>2, <2>6 DEF OneActive
  <2>9. \A x \in others : space'[x] = "deleted"
    <3>1. \A x \in others : x \in PoolModels \ {m}
      BY DEF others
    <3> QED
      BY <2>2, <2>6, <3>1
  <2>10. GlobalInv'
    BY <1>0, <2>4, <2>6, <2>7, <2>8 DEF GlobalInv, Drains
  <2> QED
    BY <2>4, <2>9, <2>10 DEF StaysSound
<1>3. CASE \E b \in busy, M \in SUBSET (others \ busy) :
             /\ space' = Unloaded(Emptied(M), pooled, b)
             /\ pooled' = Without_(pooled, OfModels(pooled, M))
  <2>1. PICK b \in busy, M \in SUBSET (others \ busy) :
             /\ space' = Unloaded(Emptied(M), pooled, b)
             /\ pooled' = Without_(pooled, OfModels(pooled, M))
    BY <1>3
  <2> DEFINE n == Emptied(M)
  <2>2. /\ M \in SUBSET PoolModels /\ \A x \in M : ~ModelAtWork(pooled, x)
        /\ b \in PoolModels /\ b \notin M /\ ModelAtWork(pooled, b)
    OBVIOUS
  <2>3. /\ n = [x \in PoolModels |-> IF x \in M THEN "deleted" ELSE space[x]]
        /\ \A x \in M : n[x] = "deleted"
    BY <2>2
  <2> HIDE DEF n, others, busy
  <2>4. /\ pooled' \in PoolStates /\ PoolFit(pooled')
        /\ n \in [PoolModels -> SpaceStates]
        /\ \A x \in PoolModels : ModelDrains(n, pooled', x)
        /\ ModelAtWork(pooled', b)
        /\ OneActive(n)
        /\ \A w : (\A x \in M : w[x] = "deleted") => Loses(pooled, pooled', w)
    BY <1>0, <2>1, <2>2, <2>3, PurgedMany
  <2>5. space' = Unloaded(n, pooled, b)
    BY <2>1 DEF n
  <2>6. /\ space' \in [PoolModels -> SpaceStates]
        /\ \A x \in PoolModels \ {b} : space'[x] = n[x]
        /\ space'[b] = IF n[b] \in {"active", "draining"} THEN "draining" ELSE n[b]
    BY <2>2, <2>4, <2>5, UnloadedIs
  <2>7. ASSUME NEW x \in PoolModels PROVE ModelDrains(space', pooled', x)
    <3>1. ModelDrains(n, pooled', x)
      BY <2>4
    <3>2. CASE x = b
      BY <2>4, <2>6, <3>1, <3>2 DEF ModelDrains
    <3>3. CASE x # b
      BY <2>6, <3>1, <3>3 DEF ModelDrains
    <3> QED
      BY <3>2, <3>3
  <2>8. OneActive(space')
    <3>1. \A x \in PoolModels : space'[x] = "active" => n[x] = "active"
      BY <2>6
    <3> QED
      BY <2>4, <3>1 DEF OneActive
  <2>9. \A x \in M : space'[x] = "deleted"
    BY <2>2, <2>3, <2>6
  <2>10. GlobalInv'
    BY <1>0, <2>4, <2>6, <2>7, <2>8 DEF GlobalInv, Drains
  <2> QED
    BY <2>4, <2>9, <2>10 DEF StaysSound
<1> QED
  BY <1>1, <1>2, <1>3

(* No step breaks the invariant or loses a Source that is in use.          *)
LEMMA GlobalStep ==
    ASSUME GlobalInv, [GlobalPoolNext]_globalVars
    PROVE  StaysSound
<1>1. CASE UNCHANGED globalVars
  <2>1. /\ servingMode' = servingMode /\ pooled' = pooled /\ space' = space
    BY <1>1 DEF globalVars
  <2> QED
    BY <2>1, OnlyNames DEF GlobalInv, Drains
<1>2. CASE SourceStep
  <2>1. PICK k \in PoolKeys :
          \/ RegisterPooled(k)
          \/ \E t \in Locations, size \in ReplicaSizes : AttachReplicaTo(k, t, size)
          \/ RecordComparison(k)
          \/ \E a \in ActivityKinds : StartWork(k, a) \/ FinishWork(k, a)
    BY <1>2 DEF SourceStep
  <2> QED
    BY <2>1, RegisterKeeps, AttachReplicaKeeps, ComparisonKeeps, StartKeeps, FinishKeeps
<1>3. CASE NamespaceStep
  BY <1>3, SpaceKeeps, BeginUnloadKeeps, PurgeModelKeeps, SwitchKeeps DEF NamespaceStep
<1> QED
  BY <1>1, <1>2, <1>3 DEF GlobalPoolNext

(* The invariant says what the properties say.                             *)
LEMMA GlobalSays == ASSUME GlobalInv PROVE GlobalPoolHolds
<1>1. PoolsFit
  BY DEF GlobalInv, PoolFit, PoolsFit
<1>2. DrainsToTheEnd
  <2>1. servingMode = "single" => Cardinality({m \in PoolModels : space[m] = "active"}) <= 1
    BY OneIsCounted DEF GlobalInv, Drains
  <2> QED
    BY <2>1 DEF GlobalInv, Drains, ModelDrains, DrainsToTheEnd
<1> QED
  BY <1>1, <1>2 DEF GlobalPoolHolds

(* The v6 pool (global_source_pool.py): no tier, no canonical pool and no  *)
(* content ever exceeds its limit, and every namespace drains to the end,  *)
(* for any Sources of any models and sizes in either serving mode.         *)
THEOREM GlobalPoolSound == GlobalPoolSpec => []GlobalPoolHolds
<1>1. GlobalPoolInit => GlobalInv
  BY GlobalStarts
<1>2. GlobalInv /\ [GlobalPoolNext]_globalVars => GlobalInv'
  BY GlobalStep DEF StaysSound
<1>3. GlobalInv => GlobalPoolHolds
  BY GlobalSays
<1> QED
  BY <1>1, <1>2, <1>3, PTL DEF GlobalPoolSpec

(* What the v6 pool loses is idle, and past its probation unless its model *)
(* is purged.                                                              *)
THEOREM LossesStayIdle == GlobalPoolSpec => OnlyIdleIsLost
<1>1. GlobalPoolInit => GlobalInv
  BY GlobalStarts
<1>2. GlobalInv /\ [GlobalPoolNext]_globalVars => GlobalInv'
  BY GlobalStep DEF StaysSound
<1>3. GlobalInv /\ [GlobalPoolNext]_globalVars => [LossesAreIdle]_globalVars
  BY GlobalStep DEF StaysSound, Loses, LossesAreIdle
<1> QED
  BY <1>1, <1>2, <1>3, PTL DEF GlobalPoolSpec, OnlyIdleIsLost

(***************************************************************************)
(* The bound of the loops.                                                 *)
(***************************************************************************)
Replicated(p, t) == {k \in Regd(p) : p[k].replica[t] > 0}
LeftToTake(p, t) == Cardinality(Regd(p)) + Cardinality(Replicated(p, t))

(* There is at most twice as much to take as there are Sources.            *)
LEMMA LeftIsBounded ==
    ASSUME NEW p \in PoolStates, NEW t \in Locations
    PROVE  /\ LeftToTake(p, t) \in Nat /\ LeftToTake(p, t) <= MaxTurns
           /\ LeftToTake(p, t) = 0 => Regd(p) = {}
           /\ IsFiniteSet(Regd(p)) /\ IsFiniteSet(Replicated(p, t))
           /\ Cardinality(Regd(p)) \in Nat /\ Cardinality(Replicated(p, t)) \in Nat
<1>1. Regd(p) \subseteq PoolKeys /\ Replicated(p, t) \subseteq PoolKeys /\ IsFiniteSet(PoolKeys)
  BY PoolFacts, GlobalPoolShape DEF Replicated
<1>2. /\ IsFiniteSet(Regd(p)) /\ IsFiniteSet(Replicated(p, t))
      /\ Cardinality(Regd(p)) <= Cardinality(PoolKeys)
      /\ Cardinality(Replicated(p, t)) <= Cardinality(PoolKeys)
  BY <1>1, FS_Subset
<1>3. /\ Cardinality(Regd(p)) \in Nat /\ Cardinality(Replicated(p, t)) \in Nat
      /\ Cardinality(PoolKeys) \in Nat
  BY <1>1, <1>2, FS_CardinalityType
<1>4. Cardinality(Regd(p)) = 0 => Regd(p) = {}
  BY <1>2, FS_EmptySet
<1> QED
  BY <1>2, <1>3, <1>4 DEF LeftToTake, MaxTurns

(* A pool that loses a Source or a replica has less left.                  *)
LEMMA LessLeft ==
    ASSUME NEW p \in PoolStates, NEW t \in Locations, NEW q, ShrunkPool(p, q),
           Regd(q) # Regd(p) \/ Replicated(q, t) # Replicated(p, t)
    PROVE  LeftToTake(q, t) < LeftToTake(p, t)
<1>1. q \in PoolStates /\ Regd(q) \subseteq Regd(p)
  BY DEF ShrunkPool, Shrunk
<1>2. Replicated(q, t) \subseteq Replicated(p, t)
  <2>1. ASSUME NEW k \in Replicated(q, t)
        PROVE  k \in Replicated(p, t)
    <3>1. k \in Regd(q) /\ k \in Regd(p) /\ q[k].replica[t] > 0
      BY <1>1 DEF Replicated
    <3>2. q[k].replica[t] = p[k].replica[t] \/ q[k].replica[t] = 0
      BY <3>1 DEF ShrunkPool, Shrunk, AsBefore
    <3> QED
      BY <3>1, <3>2 DEF Replicated
  <2> QED
    BY <2>1
<1>3. /\ IsFiniteSet(Regd(p)) /\ IsFiniteSet(Replicated(p, t))
      /\ Cardinality(Regd(p)) \in Nat /\ Cardinality(Replicated(p, t)) \in Nat
      /\ Cardinality(Regd(q)) \in Nat /\ Cardinality(Replicated(q, t)) \in Nat
  BY <1>1, LeftIsBounded
<1>4. /\ Cardinality(Regd(q)) <= Cardinality(Regd(p))
      /\ Cardinality(Regd(q)) = Cardinality(Regd(p)) => Regd(q) = Regd(p)
  BY <1>1, <1>3, FS_Subset
<1>5. /\ Cardinality(Replicated(q, t)) <= Cardinality(Replicated(p, t))
      /\ Cardinality(Replicated(q, t)) = Cardinality(Replicated(p, t))
           => Replicated(q, t) = Replicated(p, t)
  BY <1>2, <1>3, FS_Subset
<1> QED
  BY <1>3, <1>4, <1>5 DEF LeftToTake

(* Every turn of either loop takes something.                              *)
LEMMA TurnsTake ==
    ASSUME NEW p \in PoolStates, NEW t \in Locations, NEW q,
           q \in TierTurn(p, t) \/ q \in CanonicalTurn(p)
    PROVE  /\ ShrunkPool(p, q) /\ Regd(p) # {}
           /\ LeftToTake(q, t) < LeftToTake(p, t)
<1>0. ShrunkPool(p, q)
  BY TierTurnShrinks, CanonicalTurnShrinks
<1>1. \A K, u : QuotaFirst(p, K, u) \subseteq K
  BY DEF QuotaFirst
<1>2. \A K : Redundant(p, K) \subseteq K
  BY DEF Redundant
<1>3. ASSUME NEW K, K \subseteq Regd(p), NEW C \in WholeContents(p, K)
      PROVE  C # {} /\ C \subseteq Regd(p)
  BY <1>3 DEF WholeContents, BucketOf
<1>4. \/ \E k \in Regd(p) : p[k].replica[t] > 0 /\ q = DropReplica(p, k, t)
      \/ \E K \in SUBSET Regd(p) : K # {} /\ q = Without_(p, K)
  <2>1. CASE q \in TierTurn(p, t)
    <3> DEFINE replicas == {k \in Regd(p) : p[k].replica[t] > 0 /\ ~AtWork(p, k)}
               resident == {k \in Regd(p) : KeyHome[k] = t}
               redundant == Redundant(p, resident)
               contents == WholeContents(p, resident)
    <3>1. \/ \E k \in QuotaFirst(p, replicas, t) : q = DropReplica(p, k, t)
          \/ \E k \in QuotaFirst(p, redundant, t) : q = Without_(p, {k})
          \/ \E C \in contents : q = Without_(p, C)
      BY <2>1 DEF TierTurn
    <3>2. QuotaFirst(p, replicas, t) \subseteq replicas
      BY <1>1
    <3>3. QuotaFirst(p, redundant, t) \subseteq Regd(p)
      BY <1>1, <1>2
    <3>4. \A C \in contents : C # {} /\ C \subseteq Regd(p)
      BY <1>3
    <3> HIDE DEF redundant, contents
    <3> QED
      BY <3>1, <3>2, <3>3, <3>4
  <2>2. CASE q \in CanonicalTurn(p)
    <3> DEFINE redundant == Redundant(p, Regd(p))
               contents == WholeContents(p, Regd(p))
    <3>1. \/ \E k \in redundant : q = Without_(p, {k})
          \/ \E C \in contents : q = Without_(p, C)
      BY <2>2 DEF CanonicalTurn
    <3>2. redundant \subseteq Regd(p)
      BY <1>2
    <3>3. \A C \in contents : C # {} /\ C \subseteq Regd(p)
      BY <1>3
    <3> HIDE DEF redundant, contents
    <3> QED
      BY <3>1, <3>2, <3>3
  <2> QED
    BY <2>1, <2>2
<1>5. CASE \E k \in Regd(p) : p[k].replica[t] > 0 /\ q = DropReplica(p, k, t)
  <2>1. PICK k \in Regd(p) : p[k].replica[t] > 0 /\ q = DropReplica(p, k, t)
    BY <1>5
  <2>2. p[k] \in PooledRecords /\ p[k].replica \in [Locations -> Nat]
    BY PoolFacts
  <2>3. q[k].replica[t] = 0
    BY <2>1, <2>2 DEF DropReplica, PooledRecords, Regd
  <2>4. k \in Replicated(p, t) /\ k \notin Replicated(q, t)
    BY <2>1, <2>3 DEF Replicated
  <2> QED
    BY <1>0, <2>4, LessLeft
<1>6. CASE \E K \in SUBSET Regd(p) : K # {} /\ q = Without_(p, K)
  <2>1. PICK K \in SUBSET Regd(p) : K # {} /\ q = Without_(p, K)
    BY <1>6
  <2>2. Regd(q) = Regd(p) \ K
    BY <2>1 DEF Without_, Regd
  <2>3. Regd(q) # Regd(p) /\ Regd(p) # {}
    BY <2>1, <2>2
  <2> QED
    BY <1>0, <2>3, LessLeft
<1> QED
  BY <1>4, <1>5, <1>6

(* MaxTurns is enough: a pool still without room after as many turns has   *)
(* nothing left to take, which is where the code raises MemoryError.       *)
LEMMA TierLoopEnds ==
    ASSUME NEW P, P \subseteq PoolStates, NEW t \in Locations, NEW required,
           NEW it, TierTurns(P, t, required, MaxTurns, it),
           NEW q \in it[MaxTurns], TierFull(q, t, required)
    PROVE  TierTurn(q, t) = {}
<1> DEFINE N == MaxTurns
           Late(i, r) == /\ r \in PoolStates
                         /\ TierFull(r, t, required) => LeftToTake(r, t) <= N - i
<1>0. N \in Nat
  BY GlobalPoolShape, FS_CardinalityType DEF MaxTurns
<1>1. \A r \in PoolStates : LeftToTake(r, t) \in Nat /\ LeftToTake(r, t) <= N
  BY LeftIsBounded
<1>2. \A i \in 0..N : it[i] = IF i = 0 THEN P ELSE AfterTierTurn(it[i - 1], t, required)
  BY DEF TierTurns
<1> HIDE DEF N
<1> DEFINE Bad == {i \in 0..N : \E r \in it[i] : ~Late(i, r)}
<1>3. Bad = {}
  <2> SUFFICES ASSUME Bad # {} PROVE FALSE
    OBVIOUS
  <2>1. PICK i \in Bad : \A j \in Bad : i <= j
    <3>1. Bad \subseteq Nat
      BY <1>0
    <3> HIDE DEF Bad
    <3> QED
      BY <3>1, LeastNumber
  <2>2. i # 0
    <3>1. \A r \in P : Late(0, r)
      BY <1>0, <1>1
    <3> QED
      BY <1>0, <1>2, <2>1, <3>1
  <2>3. i \in Nat /\ i - 1 \in 0..N /\ i - 1 \notin Bad
    BY <1>0, <2>1, <2>2
  <2>4. (\A r \in it[i - 1] : Late(i - 1, r)) /\ it[i] = AfterTierTurn(it[i - 1], t, required)
    BY <1>2, <2>1, <2>2, <2>3
  <2>5. ASSUME NEW r \in it[i] PROVE Late(i, r)
    <3>1. \/ r \in it[i - 1] /\ ~TierFull(r, t, required)
          \/ \E p \in it[i - 1] : TierFull(p, t, required) /\ r \in TierTurn(p, t)
      BY <2>4, <2>5 DEF AfterTierTurn
    <3>2. CASE r \in it[i - 1] /\ ~TierFull(r, t, required)
      BY <2>4, <3>2
    <3>3. ASSUME NEW p \in it[i - 1], TierFull(p, t, required), r \in TierTurn(p, t)
          PROVE  Late(i, r)
      <4>1. p \in PoolStates /\ LeftToTake(p, t) <= N - (i - 1)
        BY <2>4, <3>3
      <4>2. r \in PoolStates /\ LeftToTake(r, t) < LeftToTake(p, t)
        BY <3>3, <4>1, TurnsTake DEF ShrunkPool
      <4>3. LeftToTake(r, t) \in Nat /\ LeftToTake(p, t) \in Nat
        BY <1>1, <4>1, <4>2
      <4> QED
        BY <1>0, <2>3, <4>1, <4>2, <4>3
    <3> QED
      BY <3>1, <3>2, <3>3
  <2> QED
    BY <2>1, <2>5
<1>4. Late(N, q)
  <2>1. q \in it[N] /\ N \in 0..N
    BY <1>0 DEF N
  <2> QED
    BY <1>3, <2>1
<1>5. q \in PoolStates /\ LeftToTake(q, t) = 0
  BY <1>0, <1>1, <1>4
<1> QED
  BY <1>5, LeftIsBounded, TurnsTake

(* Nor does the loop over the canonical bytes go on any longer.            *)
LEMMA CanonicalLoopEnds ==
    ASSUME Locations # {}, NEW P, P \subseteq PoolStates, NEW required,
           NEW it, CanonicalTurns(P, required, MaxTurns, it),
           NEW q \in it[MaxTurns], CanonicalFull(q, required)
    PROVE  CanonicalTurn(q) = {}
<1>a. PICK t \in Locations : TRUE
  OBVIOUS
<1> DEFINE N == MaxTurns
           Late(i, r) == /\ r \in PoolStates
                         /\ CanonicalFull(r, required) => LeftToTake(r, t) <= N - i
<1>0. N \in Nat
  BY GlobalPoolShape, FS_CardinalityType DEF MaxTurns
<1>1. \A r \in PoolStates : LeftToTake(r, t) \in Nat /\ LeftToTake(r, t) <= N
  BY LeftIsBounded
<1>2. \A i \in 0..N : it[i] = IF i = 0 THEN P ELSE AfterCanonicalTurn(it[i - 1], required)
  BY DEF CanonicalTurns
<1> HIDE DEF N
<1> DEFINE Bad == {i \in 0..N : \E r \in it[i] : ~Late(i, r)}
<1>3. Bad = {}
  <2> SUFFICES ASSUME Bad # {} PROVE FALSE
    OBVIOUS
  <2>1. PICK i \in Bad : \A j \in Bad : i <= j
    <3>1. Bad \subseteq Nat
      BY <1>0
    <3> HIDE DEF Bad
    <3> QED
      BY <3>1, LeastNumber
  <2>2. i # 0
    <3>1. \A r \in P : Late(0, r)
      BY <1>0, <1>1
    <3> QED
      BY <1>0, <1>2, <2>1, <3>1
  <2>3. i \in Nat /\ i - 1 \in 0..N /\ i - 1 \notin Bad
    BY <1>0, <2>1, <2>2
  <2>4. (\A r \in it[i - 1] : Late(i - 1, r)) /\ it[i] = AfterCanonicalTurn(it[i - 1], required)
    BY <1>2, <2>1, <2>2, <2>3
  <2>5. ASSUME NEW r \in it[i] PROVE Late(i, r)
    <3>1. \/ r \in it[i - 1] /\ ~CanonicalFull(r, required)
          \/ \E p \in it[i - 1] : CanonicalFull(p, required) /\ r \in CanonicalTurn(p)
      BY <2>4, <2>5 DEF AfterCanonicalTurn
    <3>2. CASE r \in it[i - 1] /\ ~CanonicalFull(r, required)
      BY <2>4, <3>2
    <3>3. ASSUME NEW p \in it[i - 1], CanonicalFull(p, required), r \in CanonicalTurn(p)
          PROVE  Late(i, r)
      <4>1. p \in PoolStates /\ LeftToTake(p, t) <= N - (i - 1)
        BY <2>4, <3>3
      <4>2. r \in PoolStates /\ LeftToTake(r, t) < LeftToTake(p, t)
        BY <3>3, <4>1, TurnsTake DEF ShrunkPool
      <4>3. LeftToTake(r, t) \in Nat /\ LeftToTake(p, t) \in Nat
        BY <1>1, <4>1, <4>2
      <4> QED
        BY <1>0, <2>3, <4>1, <4>2, <4>3
    <3> QED
      BY <3>1, <3>2, <3>3
  <2> QED
    BY <2>1, <2>5
<1>4. Late(N, q)
  <2>1. q \in it[N] /\ N \in 0..N
    BY <1>0 DEF N
  <2> QED
    BY <1>3, <2>1
<1>5. q \in PoolStates /\ LeftToTake(q, t) = 0
  BY <1>0, <1>1, <1>4
<1> QED
  BY <1>5, LeftIsBounded, TurnsTake

(***************************************************************************)
(* The tiered backing policy.                                              *)
(***************************************************************************)

(* Induction along the turns of a loop.                                    *)
LEMMA TurnsStay ==
    ASSUME NEW n \in Nat, NEW it, NEW K, it[0] \subseteq K[0],
           \A i \in 1..n : it[i - 1] \subseteq K[i - 1] => it[i] \subseteq K[i]
    PROVE  \A i \in 0..n : it[i] \subseteq K[i]
<1> DEFINE Bad == {i \in 0..n : ~(it[i] \subseteq K[i])}
<1> SUFFICES ASSUME Bad # {} PROVE FALSE
  OBVIOUS
<1>1. PICK i \in Bad : \A j \in Bad : i <= j
  <2>1. Bad \subseteq Nat
    OBVIOUS
  <2> HIDE DEF Bad
  <2> QED
    BY <2>1, LeastNumber
<1>2. i # 0
  BY <1>1
<1>3. i \in 1..n /\ i - 1 \in 0..n /\ i - 1 \notin Bad
  BY <1>1, <1>2
<1> QED
  BY <1>1, <1>3

Iterates(S, step, P, n, it) ==
    /\ it \in [0..n -> S]
    /\ it = [i \in 0..n |-> IF i = 0 THEN P ELSE step[it[i - 1]]]

(* A loop whose turn maps sets of S to sets of S has its turns.            *)
LEMMA TurnsExist ==
    ASSUME NEW S, NEW step \in [S -> S], NEW P \in S, NEW n \in Nat
    PROVE  \E it : Iterates(S, step, P, n, it)
<1> DEFINE T == {m \in Nat : ~ \E it : Iterates(S, step, P, m, it)}
<1>1. T = {}
  <2> SUFFICES ASSUME T # {} PROVE FALSE
    OBVIOUS
  <2>1. PICK m \in T : \A k \in T : m <= k
    <3>1. T \subseteq Nat
      OBVIOUS
    <3> HIDE DEF T
    <3> QED
      BY <3>1, LeastNumber
  <2>2. CASE m = 0
    <3> DEFINE it == [i \in 0..0 |-> P]
    <3>1. it = [i \in 0..0 |-> IF i = 0 THEN P ELSE step[it[i - 1]]] /\ it \in [0..0 -> S]
      OBVIOUS
    <3> HIDE DEF it
    <3> QED
      BY <2>1, <2>2, <3>1 DEF Iterates
  <2>3. CASE m # 0
    <3>1. m \in Nat /\ m - 1 \in Nat /\ m - 1 \notin T
      BY <2>1, <2>3
    <3>2. PICK it : Iterates(S, step, P, m - 1, it)
      BY <3>1
    <3> DEFINE jt == [i \in 0..m |-> IF i = 0 THEN P ELSE step[it[i - 1]]]
    <3>3. ASSUME NEW i \in 0..m, i # 0 PROVE jt[i - 1] = it[i - 1] /\ it[i - 1] \in S
      <4>1. i - 1 \in 0..(m - 1) /\ i - 1 \in 0..m
        BY <3>1, <3>3
      <4>2. it[i - 1] = IF i - 1 = 0 THEN P ELSE step[it[i - 1 - 1]]
        BY <3>2, <4>1 DEF Iterates
      <4> QED
        BY <3>2, <4>1, <4>2 DEF Iterates
    <3>4. jt = [i \in 0..m |-> IF i = 0 THEN P ELSE step[jt[i - 1]]]
      BY <3>3
    <3>5. jt \in [0..m -> S]
      BY <3>3
    <3> HIDE DEF jt
    <3>6. Iterates(S, step, P, m, jt)
      BY <3>4, <3>5 DEF Iterates
    <3> QED
      BY <2>1, <3>6
  <2> QED
    BY <2>2, <2>3
<1> QED
  BY <1>1

(***************************************************************************)
(* What the entries on a tier occupy.                                      *)
(***************************************************************************)
BytesOnTier(S) == SumOver(BackingBytes, S)

(* The usage of a tier is the sum over the entries it holds.               *)
LEMMA BackingIsSum ==
    ASSUME NEW b, NEW t
    PROVE  BackingUsage(b, t) = BytesOnTier(OnTier(b, t))
BY DEF BackingUsage, BytesOnTier, SumOver

(* Fewer entries occupy no more bytes, and one more entry its bytes more.  *)
LEMMA BytesGrow ==
    ASSUME BackingNumbers(Sources), NEW S, S \subseteq Sources
    PROVE  /\ BytesOnTier(S) \in Nat
           /\ \A T \in SUBSET S : BytesOnTier(T) <= BytesOnTier(S)
           /\ \A s \in Sources : BytesOnTier(S \cup {s}) <= BytesOnTier(S) + BackingBytes[s]
<1>1. IsFiniteSet(Sources) /\ \A s \in Sources : BackingBytes[s] \in Nat
  BY DEF BackingNumbers
<1>2. IsFiniteSet(S) /\ \A s \in S : BackingBytes[s] \in Nat
  BY <1>1, FS_Subset
<1>3. BytesOnTier(S) \in Nat
  BY <1>2, SumNat DEF BytesOnTier
<1>4. ASSUME NEW T \in SUBSET S PROVE BytesOnTier(T) <= BytesOnTier(S)
  <2>1. /\ SumOver(BackingBytes, S) = SumOver(BackingBytes, S \ T) + SumOver(BackingBytes, T)
        /\ SumOver(BackingBytes, S \ T) \in Nat /\ SumOver(BackingBytes, T) \in Nat
    BY <1>2, SumApart
  <2> QED
    BY <2>1 DEF BytesOnTier
<1>5. ASSUME NEW s \in Sources
      PROVE  BytesOnTier(S \cup {s}) <= BytesOnTier(S) + BackingBytes[s]
  <2>1. CASE s \in S
    <3> DEFINE U == S \cup {s}
    <3>1. U = S
      BY <2>1
    <3> HIDE DEF U
    <3>2. BytesOnTier(U) = BytesOnTier(S)
      BY <3>1
    <3> QED
      BY <1>1, <1>3, <3>2 DEF U
  <2>2. CASE s \notin S
    <3> DEFINE U == S \cup {s}
    <3>1. U \ {s} = S /\ s \in U /\ U \subseteq Sources
      BY <2>2
    <3> HIDE DEF U
    <3>2. IsFiniteSet(U) /\ \A x \in U : BackingBytes[x] \in Nat
      BY <1>1, <3>1, FS_Subset
    <3>3. SumOver(BackingBytes, U) = BackingBytes[s] + SumOver(BackingBytes, S)
      BY <3>1, <3>2, SumRemove
    <3>4. BytesOnTier(U) = BackingBytes[s] + BytesOnTier(S)
      BY <3>3 DEF BytesOnTier
    <3> QED
      BY <1>1, <1>3, <3>4 DEF U
  <2> QED
    BY <2>1, <2>2
<1> QED
  BY <1>3, <1>4, <1>5

(* A tier whose entries are among those it had occupies no more.           *)
LEMMA LessOnTier ==
    ASSUME BackingNumbers(Sources), NEW b, NEW c, NEW t, OnTier(c, t) \subseteq OnTier(b, t)
    PROVE  BackingUsage(c, t) <= BackingUsage(b, t) /\ BackingUsage(b, t) \in Nat
           /\ BackingUsage(c, t) \in Nat
<1>1. OnTier(b, t) \subseteq Sources /\ OnTier(c, t) \subseteq Sources
  BY DEF OnTier
<1> QED
  BY <1>1, BackingIsSum, BytesGrow

(* One entry more occupies its bytes more.                                 *)
LEMMA OneMoreOnTier ==
    ASSUME BackingNumbers(Sources), NEW b, NEW c, NEW t, NEW s \in Sources,
           OnTier(c, t) \subseteq OnTier(b, t) \cup {s}
    PROVE  BackingUsage(c, t) <= BackingUsage(b, t) + BackingBytes[s]
<1> DEFINE B == OnTier(b, t)
           C == OnTier(c, t)
<1>1. B \subseteq Sources /\ C \subseteq Sources /\ C \in SUBSET (B \cup {s})
  BY DEF OnTier
<1>2. BackingUsage(b, t) = BytesOnTier(B) /\ BackingUsage(c, t) = BytesOnTier(C)
  BY BackingIsSum
<1> HIDE DEF B, C
<1>3. /\ BytesOnTier(B \cup {s}) <= BytesOnTier(B) + BackingBytes[s]
      /\ BytesOnTier(B) \in Nat
  BY <1>1, BytesGrow
<1>4. /\ BytesOnTier(C) <= BytesOnTier(B \cup {s})
      /\ BytesOnTier(B \cup {s}) \in Nat /\ BytesOnTier(C) \in Nat
  <2>1. B \cup {s} \subseteq Sources
    BY <1>1
  <2> QED
    BY <1>1, <2>1, BytesGrow
<1>5. BackingBytes[s] \in Nat
  BY DEF BackingNumbers
<1> QED
  BY <1>2, <1>3, <1>4, <1>5

(***************************************************************************)
(* Victims.                                                                *)
(***************************************************************************)
(* What making room does to an entry, if anything: it is idle and not      *)
(* protected, and is dropped, or demoted from CPU memory.                  *)
GaveWay(b, c, protected, s) ==
    /\ b.entry[s].tier \in BackingTiers /\ ~b.entry[s].busy /\ s \notin protected
    /\ \/ c.entry[s] = NoEntry
       \/ b.entry[s].tier = "cpu" /\ c.entry[s] = [b.entry[s] EXCEPT !.tier = "ssd"]

SameEntry(b, c, s) == c.entry[s] = b.entry[s]

(* Of two candidates of a tier the older one gives way first.              *)
OldestFirst(b, c, protected) ==
    \A t \in BackingTiers : \A s, k \in Candidates(b, t, protected) :
        ~SameEntry(b, c, s) /\ Older(b, k, s) => ~SameEntry(b, c, k)

Relieves(b, c, protected) ==
    /\ c \in BackingStates /\ c.clock = b.clock
    /\ \A s \in Sources : SameEntry(b, c, s) \/ GaveWay(b, c, protected, s)
    /\ OldestFirst(b, c, protected)

CpuKept(b, c) == \A s \in Sources : b.entry[s].tier = "cpu" => SameEntry(b, c, s)

(* No two entries are each older than the other.                           *)
LEMMA OlderOneWay ==
    ASSUME BackingNumbers(Sources), NEW b \in BackingStates, NEW s \in Sources, NEW t \in Sources,
           Older(b, s, t)
    PROVE  ~Older(b, t, s)
<1>1. b.entry[s] \in Entries /\ b.entry[t] \in Entries
  BY DEF BackingStates
<1>2. b.entry[s].lastUse \in Nat /\ b.entry[t].lastUse \in Nat
  BY <1>1 DEF Entries
<1>3. BackingRank[s] \in Int /\ BackingRank[t] \in Int
  BY DEF BackingNumbers
<1> QED
  BY <1>2, <1>3 DEF Older

(* The types of an entry and its two other forms.                          *)
LEMMA EntryTyped ==
    ASSUME NEW b \in BackingStates, NEW s \in Sources
    PROVE  /\ NoEntry \in Entries /\ NoEntry.tier = Nowhere
           /\ b.entry[s] \in Entries
           /\ [b.entry[s] EXCEPT !.tier = "ssd"] \in Entries
           /\ [b.entry[s] EXCEPT !.tier = "cpu"] \in Entries
           /\ [b.entry[s] EXCEPT !.tier = "ssd"].tier = "ssd"
           /\ b.entry[s].tier \in BackingTiers \cup {Nowhere}
           /\ b.entry[s].busy \in BOOLEAN
           /\ Nowhere \notin BackingTiers
<1>1. b.entry[s] \in Entries
  BY DEF BackingStates
<1> QED
  BY <1>1 DEF Entries, NoEntry, BackingTiers, Nowhere

(* Making no room changes nothing.                                         *)
LEMMA NothingGaveWay ==
    ASSUME NEW b \in BackingStates, NEW protected
    PROVE  Relieves(b, b, protected)
BY DEF Relieves, SameEntry, OldestFirst

(* What dropping one entry does.                                           *)
LEMMA DropOne ==
    ASSUME NEW b \in BackingStates, NEW v \in Sources
    PROVE  LET c == Dropped(b, {v})
           IN  /\ c \in BackingStates /\ c.clock = b.clock
               /\ c.entry[v] = NoEntry
               /\ \A s \in Sources : s # v => SameEntry(b, c, s)
               /\ \A t \in BackingTiers : OnTier(c, t) = OnTier(b, t) \ {v}
<1> DEFINE e == [s \in Sources |-> IF s \in {v} THEN NoEntry ELSE b.entry[s]]
           c == Dropped(b, {v})
<1>1. b = [entry |-> b.entry, clock |-> b.clock] /\ b.clock \in Nat
  BY DEF BackingStates
<1>2. c = [entry |-> e, clock |-> b.clock]
  BY <1>1 DEF Dropped
<1>3. \A s \in Sources : e[s] = IF s = v THEN NoEntry ELSE b.entry[s]
  OBVIOUS
<1>4. e \in [Sources -> Entries]
  BY <1>3, EntryTyped
<1> HIDE DEF e, c
<1>5. c \in BackingStates /\ c.clock = b.clock /\ c.entry = e
  BY <1>1, <1>2, <1>4 DEF BackingStates
<1>6. ASSUME NEW t \in BackingTiers PROVE OnTier(c, t) = OnTier(b, t) \ {v}
  <2>1. NoEntry.tier # t
    BY EntryTyped
  <2> QED
    BY <1>3, <1>5, <2>1 DEF OnTier
<1> QED
  BY <1>3, <1>5, <1>6 DEF SameEntry, c

MovesTo(b, c, v, tier) ==
    /\ c \in BackingStates /\ c.clock = b.clock
    /\ c.entry[v] = [b.entry[v] EXCEPT !.tier = tier]
    /\ c.entry[v].tier = tier
    /\ \A s \in Sources : s # v => SameEntry(b, c, s)
    /\ OnTier(c, tier) = OnTier(b, tier) \cup {v}
    /\ \A t \in BackingTiers : t # tier => OnTier(c, t) = OnTier(b, t) \ {v}

(* What moving one entry to another tier does.                             *)
LEMMA MoveOne ==
    ASSUME NEW b \in BackingStates, NEW v \in Sources, NEW tier \in BackingTiers
    PROVE  MovesTo(b, Moved(b, v, tier), v, tier)
<1> DEFINE x == [b.entry[v] EXCEPT !.tier = tier]
           e == [b.entry EXCEPT ![v] = x]
           c == Moved(b, v, tier)
<1>1. b = [entry |-> b.entry, clock |-> b.clock] /\ b.clock \in Nat
      /\ b.entry \in [Sources -> Entries] /\ b.entry[v] \in Entries
  BY DEF BackingStates
<1>2. x \in Entries /\ x.tier = tier
  BY <1>1 DEF Entries
<1>3. c = [entry |-> e, clock |-> b.clock]
  BY <1>1 DEF Moved
<1> HIDE DEF x
<1>4. e \in [Sources -> Entries] /\ \A s \in Sources : e[s] = IF s = v THEN x ELSE b.entry[s]
  BY <1>1, <1>2
<1> HIDE DEF e, c
<1>5. c \in BackingStates /\ c.clock = b.clock /\ c.entry = e
  BY <1>1, <1>3, <1>4 DEF BackingStates
<1>6. /\ OnTier(c, tier) = OnTier(b, tier) \cup {v}
      /\ \A t \in BackingTiers : t # tier => OnTier(c, t) = OnTier(b, t) \ {v}
  BY <1>2, <1>4, <1>5 DEF OnTier
<1> QED
  BY <1>2, <1>4, <1>5, <1>6 DEF MovesTo, SameEntry, c, x

(* The least recent candidate.                                             *)
LEMMA LeastRecentIs ==
    ASSUME NEW b, NEW t, NEW protected, NEW v \in LeastRecent(b, t, protected)
    PROVE  /\ v \in Candidates(b, t, protected) /\ v \in Sources
           /\ b.entry[v].tier = t /\ ~b.entry[v].busy /\ v \notin protected
           /\ \A k \in Candidates(b, t, protected) \ {v} : Older(b, v, k)
BY DEF LeastRecent, Candidates, OnTier

(* An entry that gave way from c gave way from b, if c was reached from b  *)
(* by making room.                                                         *)
LEMMA VictimGaveWay ==
    ASSUME NEW b \in BackingStates, NEW c, NEW d, NEW protected, Relieves(b, c, protected),
           NEW p2, protected \subseteq p2, NEW v \in Sources, GaveWay(c, d, p2, v)
    PROVE  GaveWay(b, d, protected, v)
<1>1. SameEntry(b, c, v) \/ GaveWay(b, c, protected, v)
  BY DEF Relieves
<1>2. CASE SameEntry(b, c, v)
  BY <1>2 DEF SameEntry, GaveWay
<1>3. CASE GaveWay(b, c, protected, v) /\ ~SameEntry(b, c, v)
  <2>1. c.entry[v] # NoEntry
    BY EntryTyped DEF GaveWay
  <2>2. b.entry[v].tier = "cpu" /\ c.entry[v] = [b.entry[v] EXCEPT !.tier = "ssd"]
    BY <1>3, <2>1 DEF GaveWay
  <2>3. c.entry[v].tier = "ssd"
    BY <2>2, EntryTyped
  <2>4. d.entry[v] = NoEntry
    BY <2>3 DEF GaveWay
  <2> QED
    BY <1>3, <2>4 DEF GaveWay
<1> QED
  BY <1>1, <1>2, <1>3

(* What gave way has changed its tier.                                     *)
LEMMA GaveWayDiffers ==
    ASSUME NEW b \in BackingStates, NEW c, NEW protected, NEW s \in Sources,
           GaveWay(b, c, protected, s)
    PROVE  /\ ~SameEntry(b, c, s)
           /\ \/ c.entry[s].tier = Nowhere
              \/ b.entry[s].tier = "cpu" /\ c.entry[s].tier = "ssd"
<1>1. b.entry[s].tier \in BackingTiers
  BY DEF GaveWay
<1>2. CASE c.entry[s] = NoEntry
  <2>1. c.entry[s].tier = Nowhere
    BY <1>2, EntryTyped
  <2>2. b.entry[s].tier # Nowhere
    BY <1>1, EntryTyped
  <2> QED
    BY <2>1, <2>2 DEF SameEntry
<1>3. CASE b.entry[s].tier = "cpu" /\ c.entry[s] = [b.entry[s] EXCEPT !.tier = "ssd"]
  <2>1. c.entry[s].tier = "ssd"
    BY <1>3, EntryTyped
  <2> QED
    BY <1>3, <2>1 DEF SameEntry
<1> QED
  BY <1>2, <1>3 DEF GaveWay

(* One more victim, the least recent of its tier, leaves room made.        *)
LEMMA OneMoreVictim ==
    ASSUME BackingNumbers(Sources), NEW b \in BackingStates, NEW c, NEW d \in BackingStates,
           NEW protected, NEW p2, Relieves(b, c, protected), protected \subseteq p2,
           NEW t \in BackingTiers, \A s \in p2 \ protected : c.entry[s].tier # t,
           NEW v \in LeastRecent(c, t, p2),
           d.clock = c.clock, GaveWay(c, d, p2, v),
           \A s \in Sources : s # v => SameEntry(c, d, s)
    PROVE  Relieves(b, d, protected)
<1>1. c \in BackingStates /\ c.clock = b.clock
  BY DEF Relieves
<1>2. /\ v \in Sources /\ c.entry[v].tier = t
      /\ \A k \in Candidates(c, t, p2) \ {v} : Older(c, v, k)
  BY LeastRecentIs
<1>3. GaveWay(b, d, protected, v)
  BY <1>2, VictimGaveWay
<1>4. \A s \in Sources : SameEntry(b, d, s) \/ GaveWay(b, d, protected, s)
  <2>1. ASSUME NEW s \in Sources, s # v
        PROVE  SameEntry(b, d, s) \/ GaveWay(b, d, protected, s)
    <3>1. SameEntry(c, d, s)
      BY <2>1
    <3>2. SameEntry(b, c, s) \/ GaveWay(b, c, protected, s)
      BY DEF Relieves
    <3> QED
      BY <3>1, <3>2 DEF SameEntry, GaveWay
  <2> QED
    BY <1>3, <2>1
<1>5. ~SameEntry(b, d, v)
  BY <1>2, <1>3, GaveWayDiffers
<1>6. ASSUME NEW u \in BackingTiers, NEW s \in Candidates(b, u, protected),
             NEW k \in Candidates(b, u, protected),
             ~SameEntry(b, d, s), Older(b, k, s), SameEntry(b, d, k)
      PROVE  FALSE
  <2>1. s \in Sources /\ k \in Sources /\ b.entry[s].tier = u /\ b.entry[k].tier = u
        /\ ~b.entry[k].busy /\ k \notin protected
    BY <1>6 DEF Candidates, OnTier
  <2>2. k # v
    BY <1>5, <1>6
  <2>3. SameEntry(c, d, k) /\ SameEntry(b, c, k)
    BY <1>6, <2>1, <2>2 DEF SameEntry
  <2>4. SameEntry(b, c, s)
    BY <1>6, <2>3 DEF Relieves, OldestFirst
  <2>5. s = v
    BY <1>6, <2>1, <2>4 DEF SameEntry
  <2>6. u = t
    BY <1>2, <2>1, <2>4, <2>5 DEF SameEntry
  <2>7. k \in Candidates(c, t, p2)
    BY <2>1, <2>3, <2>6 DEF Candidates, OnTier, SameEntry
  <2>8. Older(c, v, k)
    BY <1>2, <2>2, <2>7
  <2>9. Older(b, s, k)
    BY <2>3, <2>4, <2>5, <2>8 DEF Older, SameEntry
  <2> QED
    BY <1>6, <2>1, <2>9, OlderOneWay
<1> QED
  BY <1>1, <1>4, <1>6 DEF Relieves, OldestFirst

(***************************************************************************)
(* Room on SSD.                                                            *)
(***************************************************************************)
SsdTurns(c, bytes, protected, n, it) ==
    it = [i \in 0..n |-> IF i = 0 THEN {c} ELSE AfterSsdTurn(it[i - 1], bytes, protected)]

(* A turn of the SSD loop drops the least recent idle entry on SSD.        *)
LEMMA SsdTurnIs ==
    ASSUME BackingNumbers(Sources), NEW b \in BackingStates, NEW c, NEW protected,
           Relieves(b, c, protected), NEW p2, protected \subseteq p2,
           \A s \in p2 \ protected : c.entry[s].tier = "cpu",
           NEW d \in SsdTurn(c, p2)
    PROVE  /\ Relieves(b, d, protected) /\ CpuKept(c, d)
           /\ OnTier(d, "cpu") = OnTier(c, "cpu")
           /\ \E v \in OnTier(c, "ssd") : OnTier(d, "ssd") = OnTier(c, "ssd") \ {v}
<1>1. c \in BackingStates
  BY DEF Relieves
<1>2. PICK v \in LeastRecent(c, "ssd", p2) : d = Dropped(c, {v})
  BY DEF SsdTurn
<1>3. /\ v \in Sources /\ c.entry[v].tier = "ssd" /\ ~c.entry[v].busy /\ v \notin p2
  BY LeastRecentIs
<1>4. "ssd" \in BackingTiers /\ "cpu" \in BackingTiers
  BY DEF BackingTiers
<1>5. /\ d \in BackingStates /\ d.clock = c.clock /\ d.entry[v] = NoEntry
      /\ \A s \in Sources : s # v => SameEntry(c, d, s)
      /\ \A t \in BackingTiers : OnTier(d, t) = OnTier(c, t) \ {v}
  BY <1>1, <1>2, <1>3, DropOne
<1>6. GaveWay(c, d, p2, v)
  BY <1>3, <1>4, <1>5 DEF GaveWay
<1>7. Relieves(b, d, protected)
  BY <1>4, <1>5, <1>6, OneMoreVictim
<1>8. CpuKept(c, d)
  BY <1>3, <1>5 DEF CpuKept
<1>9. OnTier(d, "cpu") = OnTier(c, "cpu") /\ v \in OnTier(c, "ssd")
  BY <1>3, <1>4, <1>5 DEF OnTier
<1> QED
  BY <1>4, <1>5, <1>7, <1>8, <1>9

(* The SSD loop has its turns.                                             *)
LEMMA SsdTurnsExist ==
    ASSUME NEW c \in BackingStates, NEW bytes, NEW protected, NEW n \in Nat
    PROVE  \E it : SsdTurns(c, bytes, protected, n, it)
<1> DEFINE S == SUBSET BackingStates
           step == [B \in S |-> AfterSsdTurn(B, bytes, protected)]
           P == {c}
<1>1. ASSUME NEW B \in S PROVE AfterSsdTurn(B, bytes, protected) \in S
  <2>1. ASSUME NEW x \in B, NEW y \in SsdTurn(x, protected) PROVE y \in BackingStates
    <3>1. PICK v \in LeastRecent(x, "ssd", protected) : y = Dropped(x, {v})
      BY DEF SsdTurn
    <3>2. x \in BackingStates /\ v \in Sources
      BY <1>1, LeastRecentIs
    <3> QED
      BY <3>1, <3>2, DropOne
  <2> QED
    BY <1>1, <2>1 DEF AfterSsdTurn
<1>2. step \in [S -> S] /\ P \in S
  BY <1>1
<1>3. \A B \in S : step[B] = AfterSsdTurn(B, bytes, protected)
  OBVIOUS
<1> HIDE DEF step, S, P
<1>4. PICK it : Iterates(S, step, P, n, it)
  BY <1>2, TurnsExist
<1>5. ASSUME NEW i \in 0..n, i # 0 PROVE it[i - 1] \in S
  <2>1. i - 1 \in 0..n
    BY <1>5
  <2> QED
    BY <1>4, <2>1 DEF Iterates
<1>6. it = [i \in 0..n |-> IF i = 0 THEN {c} ELSE AfterSsdTurn(it[i - 1], bytes, protected)]
  BY <1>3, <1>4, <1>5 DEF P, Iterates
<1> QED
  BY <1>6 DEF SsdTurns

(* The turns of the loop that room on SSD is the end of.                   *)
LEMMA RoomOnSsdIs ==
    ASSUME NEW c \in BackingStates, NEW bytes, NEW protected, LoopTurns(c) \in Nat
    PROVE  \E it : /\ SsdTurns(c, bytes, protected, LoopTurns(c), it)
                   /\ RoomOnSsd(c, bytes, protected)
                        = {d \in it[LoopTurns(c)] : ~BackingFull(d, "ssd", bytes)}
<1> DEFINE N == LoopTurns(c)
           f == CHOOSE it : SsdTurns(c, bytes, protected, N, it)
<1>1. SsdTurns(c, bytes, protected, N, f)
  BY SsdTurnsExist
<1>2. RoomOnSsd(c, bytes, protected) = {d \in f[N] : ~BackingFull(d, "ssd", bytes)}
  BY DEF RoomOnSsd, SsdTurns
<1> QED
  BY <1>1, <1>2

(* There are as many turns as Sources.                                     *)
LEMMA TurnsAreSources ==
    ASSUME BackingNumbers(Sources), NEW c \in BackingStates
    PROVE  LoopTurns(c) = Cardinality(Sources) /\ LoopTurns(c) \in Nat
<1>1. DOMAIN c.entry = Sources
  BY DEF BackingStates
<1> QED
  BY <1>1, FS_CardinalityType DEF LoopTurns, BackingNumbers

(* Making room on SSD relieves only the SSD, and leaves the room asked for.*)
LEMMA SsdRelieved ==
    ASSUME BackingNumbers(Sources), NEW b \in BackingStates, NEW c, NEW protected,
           Relieves(b, c, protected), NEW p2, protected \subseteq p2,
           \A s \in p2 \ protected : s \in Sources /\ c.entry[s].tier = "cpu",
           NEW bytes, NEW d \in RoomOnSsd(c, bytes, p2)
    PROVE  /\ Relieves(b, d, protected) /\ CpuKept(c, d)
           /\ OnTier(d, "cpu") = OnTier(c, "cpu")
           /\ OnTier(d, "ssd") \subseteq OnTier(c, "ssd")
           /\ ~BackingFull(d, "ssd", bytes)
<1> DEFINE N == LoopTurns(c)
           Legal(r) == /\ Relieves(b, r, protected) /\ CpuKept(c, r)
                      /\ OnTier(r, "cpu") = OnTier(c, "cpu")
                      /\ OnTier(r, "ssd") \subseteq OnTier(c, "ssd")
           K == [i \in 0..N |-> {r \in BackingStates : Legal(r)}]
<1>1. c \in BackingStates /\ N \in Nat
  BY TurnsAreSources DEF Relieves
<1>2. PICK it : /\ SsdTurns(c, bytes, p2, N, it)
                /\ RoomOnSsd(c, bytes, p2) = {r \in it[N] : ~BackingFull(r, "ssd", bytes)}
  BY <1>1, RoomOnSsdIs
<1> HIDE DEF N
<1>3. \A i \in 0..N : it[i] = IF i = 0 THEN {c} ELSE AfterSsdTurn(it[i - 1], bytes, p2)
  BY <1>2 DEF SsdTurns
<1>4. Legal(c)
  BY DEF CpuKept, SameEntry
<1>5. ASSUME NEW r \in BackingStates, Legal(r), NEW q \in SsdTurn(r, p2)
      PROVE  q \in BackingStates /\ Legal(q)
  <2>1. \A s \in p2 \ protected : r.entry[s].tier = "cpu"
    BY <1>5 DEF CpuKept, SameEntry
  <2>2. /\ Relieves(b, q, protected) /\ CpuKept(r, q)
        /\ OnTier(q, "cpu") = OnTier(r, "cpu")
        /\ OnTier(q, "ssd") \subseteq OnTier(r, "ssd")
    BY <1>5, <2>1, SsdTurnIs
  <2>3. CpuKept(c, q)
    BY <1>5, <2>2 DEF CpuKept, SameEntry
  <2> QED
    BY <1>5, <2>2, <2>3 DEF Relieves
<1> HIDE DEF Legal
<1>6. it[0] \subseteq K[0]
  BY <1>1, <1>3, <1>4
<1>7. ASSUME NEW i \in 1..N, it[i - 1] \subseteq K[i - 1] PROVE it[i] \subseteq K[i]
  <2>1. i \in 0..N /\ i # 0 /\ i - 1 \in 0..N
    BY <1>1
  <2>2. it[i] = AfterSsdTurn(it[i - 1], bytes, p2)
    BY <1>3, <2>1
  <2>3. \A r \in it[i - 1] : r \in BackingStates /\ Legal(r)
    BY <1>7, <2>1
  <2>4. ASSUME NEW q \in it[i] PROVE q \in BackingStates /\ Legal(q)
    <3>1. q \in it[i - 1] \/ \E r \in it[i - 1] : q \in SsdTurn(r, p2)
      BY <2>2, <2>4 DEF AfterSsdTurn
    <3> QED
      BY <1>5, <2>3, <3>1
  <2> QED
    BY <2>1, <2>4
<1>8. \A i \in 0..N : it[i] \subseteq K[i]
  <2> HIDE DEF K
  <2> QED
    BY <1>1, <1>6, <1>7, TurnsStay
<1>9. Legal(d) /\ ~BackingFull(d, "ssd", bytes)
  BY <1>1, <1>2, <1>8
<1> QED
  BY <1>9 DEF Legal

(***************************************************************************)
(* Room in CPU memory.                                                     *)
(***************************************************************************)
SsdFits(b) == BackingUsage(b, "ssd") <= BackingCapacity["ssd"]

(* Where the CPU entries are the same, so is the least recent of them.     *)
LEMMA SameLeastRecent ==
    ASSUME NEW c, NEW r, CpuKept(c, r), OnTier(r, "cpu") = OnTier(c, "cpu"),
           NEW protected, NEW v \in LeastRecent(c, "cpu", protected)
    PROVE  v \in LeastRecent(r, "cpu", protected)
<1>1. \A s \in OnTier(c, "cpu") : SameEntry(c, r, s)
  BY DEF CpuKept, OnTier
<1>2. Candidates(r, "cpu", protected) = Candidates(c, "cpu", protected)
  BY <1>1 DEF Candidates, SameEntry
<1>3. \A s, t \in OnTier(c, "cpu") : Older(r, s, t) <=> Older(c, s, t)
  BY <1>1 DEF Older, SameEntry
<1>4. Candidates(c, "cpu", protected) \subseteq OnTier(c, "cpu")
  BY DEF Candidates
<1> QED
  BY <1>2, <1>3, <1>4 DEF LeastRecent

(* A turn of the CPU loop demotes or drops the least recent idle entry.    *)
LEMMA CpuTurnIs ==
    ASSUME BackingNumbers(Sources), NEW b \in BackingStates, NEW c, NEW protected,
           Relieves(b, c, protected), NEW d \in CpuTurn(c, protected)
    PROVE  /\ Relieves(b, d, protected)
           /\ \E v \in OnTier(c, "cpu") : OnTier(d, "cpu") = OnTier(c, "cpu") \ {v}
           /\ SsdFits(c) => SsdFits(d)
<1>0. "cpu" \in BackingTiers /\ "ssd" \in BackingTiers /\ "cpu" # "ssd"
  BY DEF BackingTiers
<1>1. c \in BackingStates
  BY DEF Relieves
<1>2. PICK v \in LeastRecent(c, "cpu", protected) : d \in Demoted(c, v, protected)
  BY DEF CpuTurn
<1>3. v \in Sources /\ c.entry[v].tier = "cpu" /\ ~c.entry[v].busy /\ v \notin protected
  BY <1>2, LeastRecentIs
<1>4. v \in OnTier(c, "cpu")
  BY <1>3 DEF OnTier
<1>5. BackingBytes[v] \in Nat /\ BackingCapacity["ssd"] \in Nat
  BY <1>0, <1>3 DEF BackingNumbers
<1>6. CASE BackingBytes[v] <= BackingCapacity["ssd"]
  <2> DEFINE p2 == {v} \cup protected
  <2>1. PICK r \in RoomOnSsd(c, BackingBytes[v], p2) : d = Moved(r, v, "ssd")
    BY <1>2, <1>6 DEF Demoted
  <2>2. protected \subseteq p2 /\ \A s \in p2 \ protected : s \in Sources /\ c.entry[s].tier = "cpu"
    BY <1>3
  <2> HIDE DEF p2
  <2>3. /\ Relieves(b, r, protected) /\ CpuKept(c, r)
        /\ OnTier(r, "cpu") = OnTier(c, "cpu")
        /\ ~BackingFull(r, "ssd", BackingBytes[v])
    BY <2>1, <2>2, SsdRelieved
  <2>4. r \in BackingStates
    BY <2>3 DEF Relieves
  <2>5. /\ d \in BackingStates /\ d.clock = r.clock
        /\ d.entry[v] = [r.entry[v] EXCEPT !.tier = "ssd"]
        /\ \A s \in Sources : s # v => SameEntry(r, d, s)
        /\ OnTier(d, "ssd") = OnTier(r, "ssd") \cup {v}
        /\ OnTier(d, "cpu") = OnTier(r, "cpu") \ {v}
    BY <1>0, <1>3, <2>1, <2>4, MoveOne DEF MovesTo
  <2>6. v \in LeastRecent(r, "cpu", protected)
    BY <1>2, <2>3, SameLeastRecent
  <2>7. r.entry[v].tier = "cpu" /\ ~r.entry[v].busy
    BY <2>6, LeastRecentIs
  <2>8. GaveWay(r, d, protected, v)
    BY <1>0, <1>3, <2>5, <2>7 DEF GaveWay
  <2>9. Relieves(b, d, protected)
    BY <1>0, <2>3, <2>5, <2>6, <2>8, OneMoreVictim
  <2>10. SsdFits(d)
    <3>1. BackingUsage(d, "ssd") <= BackingUsage(r, "ssd") + BackingBytes[v]
      BY <1>3, <2>5, OneMoreOnTier
    <3>2. BackingUsage(d, "ssd") \in Nat /\ BackingUsage(r, "ssd") \in Nat
      BY LessOnTier
    <3> QED
      BY <1>5, <2>3, <3>1, <3>2 DEF BackingFull, SsdFits
  <2> QED
    BY <1>4, <2>3, <2>5, <2>9, <2>10
<1>7. CASE ~(BackingBytes[v] <= BackingCapacity["ssd"])
  <2>1. d = Dropped(c, {v})
    BY <1>2, <1>7 DEF Demoted
  <2>2. /\ d \in BackingStates /\ d.clock = c.clock /\ d.entry[v] = NoEntry
        /\ \A s \in Sources : s # v => SameEntry(c, d, s)
        /\ \A t \in BackingTiers : OnTier(d, t) = OnTier(c, t) \ {v}
    BY <1>1, <1>3, <2>1, DropOne
  <2>3. GaveWay(c, d, protected, v)
    BY <1>0, <1>3, <2>2 DEF GaveWay
  <2>4. Relieves(b, d, protected)
    BY <1>0, <1>2, <2>2, <2>3, OneMoreVictim
  <2>5. SsdFits(c) => SsdFits(d)
    <3>1. OnTier(d, "ssd") \subseteq OnTier(c, "ssd")
      BY <1>0, <2>2
    <3>2. /\ BackingUsage(d, "ssd") <= BackingUsage(c, "ssd")
          /\ BackingUsage(d, "ssd") \in Nat /\ BackingUsage(c, "ssd") \in Nat
      BY <3>1, LessOnTier
    <3> QED
      BY <1>5, <3>2 DEF SsdFits
  <2> QED
    BY <1>0, <1>4, <2>2, <2>4, <2>5
<1> QED
  BY <1>6, <1>7

CpuTurns(c, bytes, protected, n, it) ==
    it = [i \in 0..n |-> IF i = 0 THEN {c} ELSE AfterCpuTurn(it[i - 1], bytes, protected)]

(* The CPU loop has its turns.                                             *)
LEMMA CpuTurnsExist ==
    ASSUME BackingNumbers(Sources), NEW c \in BackingStates, NEW bytes, NEW protected, NEW n \in Nat
    PROVE  \E it : CpuTurns(c, bytes, protected, n, it)
<1> DEFINE S == SUBSET BackingStates
           step == [B \in S |-> AfterCpuTurn(B, bytes, protected)]
           P == {c}
<1>1. ASSUME NEW B \in S PROVE AfterCpuTurn(B, bytes, protected) \in S
  <2>1. ASSUME NEW x \in B, NEW y \in CpuTurn(x, protected) PROVE y \in BackingStates
    <3>1. x \in BackingStates
      BY <1>1
    <3>2. Relieves(x, x, protected)
      BY <3>1, NothingGaveWay
    <3>3. Relieves(x, y, protected)
      BY <2>1, <3>1, <3>2, CpuTurnIs
    <3> QED
      BY <3>3 DEF Relieves
  <2> QED
    BY <1>1, <2>1 DEF AfterCpuTurn
<1>2. step \in [S -> S] /\ P \in S
  BY <1>1
<1>3. \A B \in S : step[B] = AfterCpuTurn(B, bytes, protected)
  OBVIOUS
<1> HIDE DEF step, S, P
<1>4. PICK it : Iterates(S, step, P, n, it)
  BY <1>2, TurnsExist
<1>5. ASSUME NEW i \in 0..n, i # 0 PROVE it[i - 1] \in S
  <2>1. i - 1 \in 0..n
    BY <1>5
  <2> QED
    BY <1>4, <2>1 DEF Iterates
<1>6. it = [i \in 0..n |-> IF i = 0 THEN {c} ELSE AfterCpuTurn(it[i - 1], bytes, protected)]
  BY <1>3, <1>4, <1>5 DEF P, Iterates
<1> QED
  BY <1>6 DEF CpuTurns

(* The turns of the loop that room in CPU memory is the end of.            *)
LEMMA RoomOnCpuIs ==
    ASSUME BackingNumbers(Sources), NEW c \in BackingStates, NEW bytes, NEW protected
    PROVE  \E it : /\ CpuTurns(c, bytes, protected, LoopTurns(c), it)
                   /\ RoomOnCpu(c, bytes, protected)
                        = {d \in it[LoopTurns(c)] : ~BackingFull(d, "cpu", bytes)}
<1> DEFINE N == LoopTurns(c)
           f == CHOOSE it : CpuTurns(c, bytes, protected, N, it)
<1>1. CpuTurns(c, bytes, protected, N, f)
  BY CpuTurnsExist, TurnsAreSources
<1>2. RoomOnCpu(c, bytes, protected) = {d \in f[N] : ~BackingFull(d, "cpu", bytes)}
  BY DEF RoomOnCpu, CpuTurns
<1> QED
  BY <1>1, <1>2

(* Making room in CPU memory leaves the room asked for, and no more on SSD *)
(* than fits.                                                              *)
LEMMA CpuRelieved ==
    ASSUME BackingNumbers(Sources), NEW b \in BackingStates, NEW protected,
           NEW bytes, NEW d \in RoomOnCpu(b, bytes, protected)
    PROVE  /\ Relieves(b, d, protected)
           /\ SsdFits(b) => SsdFits(d)
           /\ ~BackingFull(d, "cpu", bytes)
<1> DEFINE N == LoopTurns(b)
           Legal(r) == Relieves(b, r, protected) /\ (SsdFits(b) => SsdFits(r))
           K == [i \in 0..N |-> {r \in BackingStates : Legal(r)}]
<1>1. N \in Nat
  BY TurnsAreSources
<1>2. PICK it : /\ CpuTurns(b, bytes, protected, N, it)
                /\ RoomOnCpu(b, bytes, protected) = {r \in it[N] : ~BackingFull(r, "cpu", bytes)}
  BY RoomOnCpuIs
<1> HIDE DEF N
<1>3. \A i \in 0..N : it[i] = IF i = 0 THEN {b} ELSE AfterCpuTurn(it[i - 1], bytes, protected)
  BY <1>2 DEF CpuTurns
<1>4. Legal(b)
  BY NothingGaveWay
<1>5. ASSUME NEW r \in BackingStates, Legal(r), NEW q \in CpuTurn(r, protected)
      PROVE  q \in BackingStates /\ Legal(q)
  <2>1. Relieves(b, q, protected) /\ (SsdFits(r) => SsdFits(q))
    BY <1>5, CpuTurnIs
  <2> QED
    BY <1>5, <2>1 DEF Relieves
<1> HIDE DEF Legal
<1>6. it[0] \subseteq K[0]
  BY <1>1, <1>3, <1>4
<1>7. ASSUME NEW i \in 1..N, it[i - 1] \subseteq K[i - 1] PROVE it[i] \subseteq K[i]
  <2>1. i \in 0..N /\ i # 0 /\ i - 1 \in 0..N
    BY <1>1
  <2>2. it[i] = AfterCpuTurn(it[i - 1], bytes, protected)
    BY <1>3, <2>1
  <2>3. \A r \in it[i - 1] : r \in BackingStates /\ Legal(r)
    BY <1>7, <2>1
  <2>4. ASSUME NEW q \in it[i] PROVE q \in BackingStates /\ Legal(q)
    <3>1. q \in it[i - 1] \/ \E r \in it[i - 1] : q \in CpuTurn(r, protected)
      BY <2>2, <2>4 DEF AfterCpuTurn
    <3> QED
      BY <1>5, <2>3, <3>1
  <2> QED
    BY <2>1, <2>4
<1>8. \A i \in 0..N : it[i] \subseteq K[i]
  <2> HIDE DEF K
  <2> QED
    BY <1>1, <1>6, <1>7, TurnsStay
<1>9. Legal(d) /\ ~BackingFull(d, "cpu", bytes)
  BY <1>1, <1>2, <1>8
<1> QED
  BY <1>9 DEF Legal

(***************************************************************************)
(* register and access.                                                    *)
(***************************************************************************)
BackingFits(b) == \A t \in BackingTiers : BackingUsage(b, t) <= BackingCapacity[t]

(* _make_room leaves the room asked for on its tier, overfills none, and   *)
(* takes what it takes from idle and unprotected entries, older ones first.*)
LEMMA RoomIsMade ==
    ASSUME BackingNumbers(Sources), NEW b \in BackingStates, NEW tier \in BackingTiers,
           NEW s \in Sources, NEW protected,
           NEW c \in MakeRoom(b, tier, BackingBytes[s], protected)
    PROVE  /\ Relieves(b, c, protected)
           /\ BackingFits(b) => BackingFits(c)
           /\ ~BackingFull(c, tier, BackingBytes[s])
<1>1. /\ BackingBytes[s] \in Nat
      /\ \A t \in BackingTiers : BackingCapacity[t] \in Nat /\ BackingUsage(c, t) \in Nat
  BY LessOnTier DEF BackingNumbers
<1>2. BackingTiers = {"cpu", "ssd"} /\ "cpu" # "ssd"
  BY DEF BackingTiers
<1>3. CASE tier = "cpu"
  <2>1. /\ Relieves(b, c, protected) /\ (SsdFits(b) => SsdFits(c))
        /\ ~BackingFull(c, "cpu", BackingBytes[s])
    BY <1>3, CpuRelieved DEF MakeRoom
  <2>2. BackingUsage(c, "cpu") <= BackingCapacity["cpu"]
    BY <1>1, <1>2, <2>1 DEF BackingFull
  <2> QED
    BY <1>2, <1>3, <2>1, <2>2 DEF BackingFits, SsdFits
<1>4. CASE tier = "ssd"
  <2>1. c \in RoomOnSsd(b, BackingBytes[s], protected)
    BY <1>2, <1>4 DEF MakeRoom
  <2>2. Relieves(b, b, protected)
    BY NothingGaveWay
  <2>3. /\ Relieves(b, c, protected) /\ OnTier(c, "cpu") = OnTier(b, "cpu")
        /\ ~BackingFull(c, "ssd", BackingBytes[s])
    BY <2>1, <2>2, SsdRelieved
  <2>4. BackingUsage(c, "ssd") <= BackingCapacity["ssd"]
    BY <1>1, <1>2, <2>3 DEF BackingFull
  <2>5. BackingUsage(c, "cpu") = BackingUsage(b, "cpu")
    BY <2>3, BackingIsSum
  <2> QED
    BY <1>2, <1>4, <2>3, <2>4, <2>5 DEF BackingFits
<1> QED
  BY <1>2, <1>3, <1>4

(* An entry placed on a tier with room for it overfills none.              *)
LEMMA PlacedFits ==
    ASSUME BackingNumbers(Sources), NEW c, NEW d, NEW tier \in BackingTiers, NEW s \in Sources,
           BackingFits(c), ~BackingFull(c, tier, BackingBytes[s]),
           OnTier(d, tier) \subseteq OnTier(c, tier) \cup {s},
           \A t \in BackingTiers : t # tier => OnTier(d, t) \subseteq OnTier(c, t)
    PROVE  BackingFits(d)
<1>1. ASSUME NEW t \in BackingTiers, t # tier PROVE BackingUsage(d, t) <= BackingCapacity[t]
  <2>1. /\ BackingUsage(d, t) <= BackingUsage(c, t)
        /\ BackingUsage(d, t) \in Nat /\ BackingUsage(c, t) \in Nat
    BY <1>1, LessOnTier
  <2>2. BackingUsage(c, t) <= BackingCapacity[t] /\ BackingCapacity[t] \in Nat
    BY DEF BackingFits, BackingNumbers
  <2> QED
    BY <2>1, <2>2
<1>2. BackingUsage(d, tier) <= BackingCapacity[tier]
  <2>1. BackingUsage(d, tier) <= BackingUsage(c, tier) + BackingBytes[s]
    BY OneMoreOnTier
  <2>2. /\ BackingUsage(d, tier) \in Nat /\ BackingUsage(c, tier) \in Nat
        /\ BackingBytes[s] \in Nat /\ BackingCapacity[tier] \in Nat
    BY LessOnTier DEF BackingNumbers
  <2> QED
    BY <2>1, <2>2 DEF BackingFull
<1> QED
  BY <1>1, <1>2 DEF BackingFits

(* A request use writes an epoch and moves nothing.                        *)
LEMMA UseIs ==
    ASSUME NEW b \in BackingStates, NEW s \in Sources
    PROVE  LET u == RecordRequestUse(b, s)
           IN  /\ u \in BackingStates
               /\ u.entry[s].tier = b.entry[s].tier /\ u.entry[s].busy = b.entry[s].busy
               /\ u.entry[s].lastUse = b.clock + 1
               /\ \A k \in Sources : k # s => SameEntry(b, u, k)
               /\ \A t : OnTier(u, t) = OnTier(b, t)
<1> DEFINE x == [b.entry[s] EXCEPT !.lastUse = b.clock + 1]
           e == [b.entry EXCEPT ![s] = x]
           u == RecordRequestUse(b, s)
<1>1. b = [entry |-> b.entry, clock |-> b.clock] /\ b.clock \in Nat
      /\ b.entry \in [Sources -> Entries] /\ b.entry[s] \in Entries
  BY DEF BackingStates
<1>2. /\ x \in Entries /\ x.tier = b.entry[s].tier /\ x.busy = b.entry[s].busy
      /\ x.lastUse = b.clock + 1
  BY <1>1 DEF Entries
<1>3. u = [entry |-> e, clock |-> b.clock + 1]
  <2>1. u = [b EXCEPT !.clock = b.clock + 1, !.entry = e]
    BY DEF RecordRequestUse
  <2> HIDE DEF u, e
  <2> QED
    BY <1>1, <2>1
<1> HIDE DEF x
<1>4. e \in [Sources -> Entries] /\ \A k \in Sources : e[k] = IF k = s THEN x ELSE b.entry[k]
  BY <1>1, <1>2
<1> HIDE DEF e, u
<1>5. u \in BackingStates /\ u.entry = e
  BY <1>1, <1>3, <1>4 DEF BackingStates
<1> QED
  BY <1>2, <1>4, <1>5 DEF SameEntry, OnTier, u

(* What access() may make of the entries: a use, and for an entry on SSD   *)
(* room in CPU memory and its promotion.                                   *)
Promotes(b, s, u, r, c) ==
    /\ u = RecordRequestUse(b, s) /\ b.entry[s].tier # "cpu"
    /\ Relieves(u, r, {s}) /\ c = Moved(r, s, "cpu")

(* What access() leaves is typed and overfills no tier.                    *)
LEMMA AccessIs ==
    ASSUME BackingNumbers(Sources), NEW b \in BackingStates, NEW s \in Sources,
           NEW c \in AccessBacking(b, s)
    PROVE  /\ c \in BackingStates
           /\ BackingFits(b) => BackingFits(c)
           /\ c = RecordRequestUse(b, s) \/ \E u, r : Promotes(b, s, u, r, c)
<1> DEFINE u == RecordRequestUse(b, s)
<1>0. "cpu" \in BackingTiers
  BY DEF BackingTiers
<1>1. u \in BackingStates /\ \A t : OnTier(u, t) = OnTier(b, t)
  BY UseIs
<1>2. BackingFits(b) => BackingFits(u)
  <2>1. \A t \in BackingTiers : BackingUsage(u, t) = BackingUsage(b, t)
    BY <1>1, BackingIsSum
  <2> QED
    BY <2>1 DEF BackingFits
<1>3. CASE c = u
  BY <1>1, <1>2, <1>3
<1>4. ASSUME NEW r \in MakeRoom(u, "cpu", BackingBytes[s], {s}), c = Moved(r, s, "cpu"),
             b.entry[s].tier # "cpu"
      PROVE  /\ c \in BackingStates /\ (BackingFits(u) => BackingFits(c))
             /\ Promotes(b, s, u, r, c)
  <2> HIDE DEF u
  <2>1. /\ Relieves(u, r, {s}) /\ (BackingFits(u) => BackingFits(r))
        /\ ~BackingFull(r, "cpu", BackingBytes[s])
    BY <1>0, <1>1, <1>4, RoomIsMade
  <2>2. r \in BackingStates
    BY <2>1 DEF Relieves
  <2>3. /\ c \in BackingStates
        /\ OnTier(c, "cpu") = OnTier(r, "cpu") \cup {s}
        /\ \A t \in BackingTiers : t # "cpu" => OnTier(c, t) = OnTier(r, t) \ {s}
    <3>1. MovesTo(r, c, s, "cpu")
      BY <1>0, <1>4, <2>2, MoveOne
    <3> QED
      BY <3>1 DEF MovesTo
  <2>4. ASSUME BackingFits(u) PROVE BackingFits(c)
    <3>1. /\ OnTier(c, "cpu") \subseteq OnTier(r, "cpu") \cup {s}
          /\ \A t \in BackingTiers : t # "cpu" => OnTier(c, t) \subseteq OnTier(r, t)
      BY <2>3
    <3> QED
      BY <1>0, <2>1, <2>4, <3>1, PlacedFits
  <2> QED
    BY <1>4, <2>1, <2>3, <2>4 DEF Promotes, u
<1>5. \/ c = u
      \/ /\ b.entry[s].tier # "cpu"
         /\ \E r \in MakeRoom(u, "cpu", BackingBytes[s], {s}) : c = Moved(r, s, "cpu")
  BY DEF AccessBacking
<1> HIDE DEF u
<1>6. CASE c # u
  <2>1. PICK r \in MakeRoom(u, "cpu", BackingBytes[s], {s}) : c = Moved(r, s, "cpu")
    BY <1>5, <1>6
  <2>2. b.entry[s].tier # "cpu"
    BY <1>5, <1>6
  <2>3. c \in BackingStates /\ (BackingFits(u) => BackingFits(c)) /\ Promotes(b, s, u, r, c)
    BY <1>4, <2>1, <2>2
  <2> QED
    BY <1>2, <2>3
<1>7. CASE c = u
  BY <1>1, <1>2, <1>7 DEF u
<1> QED
  BY <1>6, <1>7

(* What register() may make of the entries: room, and the new one.         *)
Enters(b, s, r, c) ==
    /\ b.entry[s].tier = Nowhere /\ c.entry[s].tier \in BackingTiers
    /\ Relieves(b, r, {s})
    /\ \A k \in Sources : k # s => SameEntry(r, c, k)

(* What register() leaves is typed and overfills no tier.                  *)
LEMMA RegisterIs ==
    ASSUME BackingNumbers(Sources), NEW b \in BackingStates, NEW s \in Sources,
           NEW inUse \in BOOLEAN, NEW q \in Replicas \cup {NoReplica},
           NEW c \in RegisterBacking(b, s, inUse, q)
    PROVE  /\ c \in BackingStates
           /\ BackingFits(b) => BackingFits(c)
           /\ \E r : Enters(b, s, r, c)
<1> DEFINE tier == TargetTier(s, inUse)
           x == NewEntry(b, s, inUse, q)
<1>0. tier \in BackingTiers
  BY DEF TargetTier, BackingTiers
<1>1. b.clock \in Nat
  BY DEF BackingStates
<1>2. x \in Entries /\ x.tier = tier
  BY <1>0, <1>1 DEF NewEntry, Entries
<1>3. PICK r \in MakeRoom(b, tier, BackingBytes[s], {s}) :
        c = [r EXCEPT !.entry[s] = x, !.clock = IF inUse THEN @ + 1 ELSE @]
  BY DEF RegisterBacking
<1>4. b.entry[s].tier = Nowhere
  BY DEF RegisterBacking, Kept
<1> HIDE DEF tier, x
<1>5. /\ Relieves(b, r, {s}) /\ (BackingFits(b) => BackingFits(r))
      /\ ~BackingFull(r, tier, BackingBytes[s])
  BY <1>0, <1>3, RoomIsMade
<1>6. r \in BackingStates
  BY <1>5 DEF Relieves
<1>7. r = [entry |-> r.entry, clock |-> r.clock] /\ r.clock \in Nat
      /\ r.entry \in [Sources -> Entries]
  BY <1>6 DEF BackingStates
<1> DEFINE e == [r.entry EXCEPT ![s] = x]
           k == IF inUse THEN r.clock + 1 ELSE r.clock
<1>8. c = [entry |-> e, clock |-> k] /\ k \in Nat
  <2>1. c = [r EXCEPT !.entry = e, !.clock = k]
    BY <1>3
  <2>2. k \in Nat
    BY <1>7
  <2> HIDE DEF e, k
  <2> QED
    BY <1>7, <2>1, <2>2
<1> HIDE DEF k
<1>9. e \in [Sources -> Entries] /\ \A t \in Sources : e[t] = IF t = s THEN x ELSE r.entry[t]
  BY <1>2, <1>7
<1> HIDE DEF e
<1>10. c \in BackingStates /\ c.entry = e
  BY <1>8, <1>9 DEF BackingStates
<1>11. /\ OnTier(c, tier) \subseteq OnTier(r, tier) \cup {s}
       /\ \A t \in BackingTiers : t # tier => OnTier(c, t) \subseteq OnTier(r, t)
  BY <1>2, <1>9, <1>10 DEF OnTier
<1>12. BackingFits(b) => BackingFits(c)
  BY <1>0, <1>5, <1>11, PlacedFits
<1>13. Enters(b, s, r, c)
  BY <1>0, <1>2, <1>4, <1>5, <1>9, <1>10 DEF Enters, SameEntry
<1> QED
  BY <1>10, <1>12, <1>13

(* As LosesLeastRecent, for any two states.                                *)
LosesEntry(b, c, s, t) ==
    /\ b.entry[s].tier = t
    /\ \/ c.entry[s].tier = Nowhere
       \/ t = "cpu" /\ c.entry[s].tier = "ssd"
LosesFirst(b, c, s, t) ==
    /\ ~b.entry[s].busy
    /\ \A k \in OnTier(b, t) :
          Older(b, k, s) => \/ LosesEntry(b, c, k, t)
                            \/ b.entry[k].busy
                            \/ c.entry[k].tier = "cpu" /\ t = "ssd"
LosesOldest(b, c) ==
    \A s \in Sources, t \in BackingTiers : LosesEntry(b, c, s, t) => LosesFirst(b, c, s, t)

SameBut(b, c, s) == \A k \in Sources : k # s => SameEntry(b, c, k)

(* Whoever gives way for a Source s0 is idle, and on its tier whoever is   *)
(* older gave way too or is busy, unless it is s0.                         *)
LEMMA LosersAreOldest ==
    ASSUME BackingNumbers(Sources), NEW s0 \in Sources, NEW b \in BackingStates,
           NEW u \in BackingStates, NEW r, NEW c, Relieves(u, r, {s0}),
           SameBut(b, u, s0), SameBut(r, c, s0),
           NEW s \in Sources, s # s0, NEW t \in BackingTiers, LosesEntry(b, c, s, t),
           b.entry[s0].tier = t => t = "ssd" /\ c.entry[s0].tier = "cpu"
    PROVE  LosesFirst(b, c, s, t)
<1>1. u.entry[s] = b.entry[s] /\ c.entry[s] = r.entry[s]
  BY DEF SameEntry, SameBut
<1>2. ~SameEntry(u, r, s)
  BY <1>1, EntryTyped DEF SameEntry, LosesEntry, BackingTiers, Nowhere
<1>3. GaveWay(u, r, {s0}, s)
  BY <1>2 DEF Relieves
<1>4. s \in Candidates(u, t, {s0}) /\ ~b.entry[s].busy
  BY <1>1, <1>3 DEF GaveWay, Candidates, OnTier, LosesEntry
<1>5. ASSUME NEW k \in OnTier(b, t), Older(b, k, s), k # s0, ~b.entry[k].busy
      PROVE  LosesEntry(b, c, k, t)
  <2>1. k \in Sources /\ b.entry[k].tier = t
    BY DEF OnTier
  <2>2. u.entry[k] = b.entry[k] /\ c.entry[k] = r.entry[k]
    BY <1>5, <2>1 DEF SameEntry, SameBut
  <2>3. k \in Candidates(u, t, {s0})
    BY <1>5, <2>1, <2>2 DEF Candidates, OnTier
  <2>4. Older(u, k, s)
    BY <1>1, <1>5, <2>2 DEF Older
  <2>5. ~SameEntry(u, r, k)
    BY <1>2, <1>4, <2>3, <2>4 DEF Relieves, OldestFirst
  <2>6. GaveWay(u, r, {s0}, k)
    BY <2>1, <2>5 DEF Relieves
  <2> QED
    BY <2>1, <2>2, <2>6, GaveWayDiffers DEF LosesEntry
<1>6. s0 \in OnTier(b, t) => t = "ssd" /\ c.entry[s0].tier = "cpu"
  BY DEF OnTier
<1> QED
  BY <1>4, <1>5, <1>6 DEF LosesFirst

(* So does register().                                                     *)
LEMMA RegisterLoses ==
    ASSUME BackingNumbers(Sources), NEW s0 \in Sources, NEW b \in BackingStates,
           NEW r, NEW c, Enters(b, s0, r, c)
    PROVE  LosesOldest(b, c)
<1>1. /\ Relieves(b, r, {s0}) /\ SameBut(r, c, s0) /\ SameBut(b, b, s0)
      /\ b.entry[s0].tier \notin BackingTiers
  BY EntryTyped DEF Enters, SameBut, SameEntry
<1>2. ASSUME NEW s \in Sources, NEW t \in BackingTiers, LosesEntry(b, c, s, t)
      PROVE  LosesFirst(b, c, s, t)
  <2>1. s # s0 /\ b.entry[s0].tier # t
    BY <1>1, <1>2 DEF LosesEntry
  <2> QED
    BY <1>1, <1>2, <2>1, LosersAreOldest
<1> QED
  BY <1>2 DEF LosesOldest

(* And access().                                                           *)
LEMMA AccessLoses ==
    ASSUME BackingNumbers(Sources), NEW s0 \in Sources, NEW b \in BackingStates,
           NEW u, NEW r, NEW c, Promotes(b, s0, u, r, c)
    PROVE  LosesOldest(b, c)
<1>1. u \in BackingStates /\ SameBut(b, u, s0)
  BY UseIs DEF Promotes, SameBut
<1>2. Relieves(u, r, {s0}) /\ r \in BackingStates /\ c = Moved(r, s0, "cpu")
      /\ b.entry[s0].tier # "cpu"
  BY DEF Promotes, Relieves
<1>3. SameBut(r, c, s0) /\ c.entry[s0].tier = "cpu"
  <2>1. MovesTo(r, c, s0, "cpu")
    BY <1>2, MoveOne DEF BackingTiers
  <2> QED
    BY <2>1 DEF MovesTo, SameBut
<1>4. ASSUME NEW s \in Sources, NEW t \in BackingTiers, LosesEntry(b, c, s, t)
      PROVE  LosesFirst(b, c, s, t)
  <2>1. s # s0
    BY <1>3, <1>4 DEF LosesEntry, Nowhere
  <2>2. b.entry[s0].tier = t => t = "ssd" /\ c.entry[s0].tier = "cpu"
    BY <1>2, <1>3 DEF BackingTiers
  <2> QED
    BY <1>1, <1>2, <1>3, <1>4, <2>1, <2>2, LosersAreOldest
<1> QED
  BY <1>4 DEF LosesOldest

(* That is what the property says of a step.                               *)
LEMMA OldestLost ==
    ASSUME LosesOldest(policy, policy')
    PROVE  LosesLeastRecent
<1>1. \A s \in Sources, t \in BackingTiers : Lost(s, t) <=> LosesEntry(policy, policy', s, t)
  BY DEF Lost, LosesEntry
<1>2. ASSUME NEW s \in Sources, NEW t \in BackingTiers, LosesFirst(policy, policy', s, t),
             NEW k \in OnTier(policy, t), Older(policy, k, s)
      PROVE  \/ Lost(k, t)
             \/ policy.entry[k].busy
             \/ policy'.entry[k].tier = "cpu" /\ t = "ssd"
  BY <1>1, <1>2 DEF LosesFirst, OnTier
<1>3. ASSUME NEW s \in Sources, NEW t \in BackingTiers, LosesFirst(policy, policy', s, t)
      PROVE  ~policy.entry[s].busy
  BY <1>3 DEF LosesFirst
<1> QED
  BY <1>1, <1>2, <1>3 DEF LosesLeastRecent, LosesOldest

(***************************************************************************)
(* The policy by itself.                                                   *)
(***************************************************************************)
PolicyInv == policy \in BackingStates /\ BackingFits(policy)

(* Nothing is stored at first.                                             *)
LEMMA PolicyStarts ==
    ASSUME BackingNumbers(Sources), PolicyInit
    PROVE  PolicyInv
<1>1. policy = [entry |-> [s \in Sources |-> NoEntry], clock |-> 0]
  BY DEF PolicyInit, NewBacking
<1>2. NoEntry \in Entries /\ NoEntry.tier = Nowhere /\ Nowhere \notin BackingTiers
  BY DEF Entries, NoEntry, BackingTiers, Nowhere
<1>3. policy \in BackingStates
  BY <1>1, <1>2 DEF BackingStates
<1>4. ASSUME NEW t \in BackingTiers PROVE BackingUsage(policy, t) <= BackingCapacity[t]
  <2>1. OnTier(policy, t) = {}
    BY <1>1, <1>2 DEF OnTier
  <2>2. BackingUsage(policy, t) = 0
    BY <2>1, BackingIsSum, SumEmpty DEF BytesOnTier
  <2> QED
    BY <2>2 DEF BackingNumbers
<1> QED
  BY <1>3, <1>4 DEF PolicyInv, BackingFits

(* A busy flag moves nothing.                                              *)
LEMMA BusyIs ==
    ASSUME NEW b \in BackingStates, NEW s \in Sources, NEW busy \in BOOLEAN
    PROVE  LET u == [b EXCEPT !.entry[s].busy = busy]
           IN  /\ u \in BackingStates
               /\ \A k \in Sources : u.entry[k].tier = b.entry[k].tier
               /\ \A t : OnTier(u, t) = OnTier(b, t)
<1> DEFINE x == [b.entry[s] EXCEPT !.busy = busy]
           e == [b.entry EXCEPT ![s] = x]
           u == [b EXCEPT !.entry[s].busy = busy]
<1>1. b = [entry |-> b.entry, clock |-> b.clock] /\ b.clock \in Nat
      /\ b.entry \in [Sources -> Entries] /\ b.entry[s] \in Entries
  BY DEF BackingStates
<1>2. x \in Entries /\ x.tier = b.entry[s].tier
  BY <1>1 DEF Entries
<1>3. u = [entry |-> e, clock |-> b.clock]
  BY <1>1
<1> HIDE DEF x
<1>4. e \in [Sources -> Entries] /\ \A k \in Sources : e[k] = IF k = s THEN x ELSE b.entry[k]
  BY <1>1, <1>2
<1> HIDE DEF e, u
<1>5. u \in BackingStates /\ u.entry = e
  BY <1>1, <1>3, <1>4 DEF BackingStates
<1> QED
  BY <1>2, <1>4, <1>5 DEF OnTier, u

(* A step of the policy that changes no tier loses nothing.                *)
LEMMA NothingLost ==
    ASSUME \A s \in Sources : policy'.entry[s].tier = policy.entry[s].tier
    PROVE  LosesLeastRecent
<1>1. ASSUME NEW s \in Sources, NEW t \in BackingTiers, Lost(s, t) PROVE FALSE
  BY <1>1 DEF Lost, BackingTiers, Nowhere
<1> QED
  BY <1>1 DEF LosesLeastRecent

(* Every step of the policy keeps the capacities and displaces only the    *)
(* least recent of the idle.                                               *)
LEMMA PolicyStep ==
    ASSUME BackingNumbers(Sources), PolicyInv, PolicyNext
    PROVE  PolicyInv' /\ LosesLeastRecent
<1>0. policy \in BackingStates /\ BackingFits(policy) /\ "cpu" \in BackingTiers
  BY DEF PolicyInv, BackingTiers
<1>1. ASSUME NEW s \in Sources, NEW inUse \in BOOLEAN, PolicyRegister(s, inUse)
      PROVE  PolicyInv' /\ LosesLeastRecent
  <2>1. policy' \in RegisterBacking(policy, s, inUse, NoReplica)
    BY <1>1 DEF PolicyRegister
  <2>2. policy' \in BackingStates /\ BackingFits(policy')
    BY <1>0, <2>1, RegisterIs
  <2>3. PICK r : Enters(policy, s, r, policy')
    BY <1>0, <2>1, RegisterIs
  <2> QED
    BY <1>0, <2>2, <2>3, RegisterLoses, OldestLost DEF PolicyInv
<1>2. ASSUME NEW s \in Sources, PolicyUse(s) PROVE PolicyInv' /\ LosesLeastRecent
  <2>1. policy' = RecordRequestUse(policy, s)
    BY <1>2 DEF PolicyUse
  <2>2. /\ policy' \in BackingStates
        /\ \A k \in Sources : policy'.entry[k].tier = policy.entry[k].tier
        /\ \A t : OnTier(policy', t) = OnTier(policy, t)
    BY <1>0, <2>1, UseIs DEF SameEntry
  <2>3. \A t \in BackingTiers : BackingUsage(policy', t) = BackingUsage(policy, t)
    BY <2>2, BackingIsSum
  <2> QED
    BY <1>0, <2>2, <2>3, NothingLost DEF PolicyInv, BackingFits
<1>3. ASSUME NEW s \in Sources, PolicyAccess(s) PROVE PolicyInv' /\ LosesLeastRecent
  <2>1. policy' \in AccessBacking(policy, s)
    BY <1>3 DEF PolicyAccess
  <2>2. policy' \in BackingStates /\ BackingFits(policy')
    BY <1>0, <2>1, AccessIs
  <2>3. CASE policy' = RecordRequestUse(policy, s)
    <3>1. \A k \in Sources : policy'.entry[k].tier = policy.entry[k].tier
      BY <1>0, <2>3, UseIs DEF SameEntry
    <3> QED
      BY <2>2, <3>1, NothingLost DEF PolicyInv
  <2>4. ASSUME NEW u, NEW r, Promotes(policy, s, u, r, policy')
        PROVE  LosesLeastRecent
    BY <1>0, <2>4, AccessLoses, OldestLost
  <2> QED
    BY <1>0, <2>1, <2>2, <2>3, <2>4, AccessIs DEF PolicyInv
<1>4. ASSUME NEW s \in Sources, NEW busy \in BOOLEAN, SetBusy(s, busy)
      PROVE  PolicyInv' /\ LosesLeastRecent
  <2>1. policy' = [policy EXCEPT !.entry[s].busy = busy]
    BY <1>4 DEF SetBusy
  <2>2. /\ policy' \in BackingStates
        /\ \A k \in Sources : policy'.entry[k].tier = policy.entry[k].tier
        /\ \A t : OnTier(policy', t) = OnTier(policy, t)
    BY <1>0, <2>1, BusyIs
  <2>3. \A t \in BackingTiers : BackingUsage(policy', t) = BackingUsage(policy, t)
    BY <2>2, BackingIsSum
  <2> QED
    BY <1>0, <2>2, <2>3, NothingLost DEF PolicyInv, BackingFits
<1> QED
  BY <1>1, <1>2, <1>3, <1>4 DEF PolicyNext

(* No cascade of demotions and evictions overfills a tier, and no step of  *)
(* the policy displaces a busy entry, or an idle one while it keeps an     *)
(* older idle one on the same tier, for any Sources, sizes and capacities. *)
THEOREM PolicySound ==
    ASSUME BackingNumbers(Sources)
    PROVE  PolicySpec => PolicyHolds
<1>1. PolicyInit => PolicyInv
  BY PolicyStarts
<1>2. PolicyInv /\ [PolicyNext]_policy => PolicyInv' /\ [LosesLeastRecent]_policy
  BY PolicyStep DEF PolicyInv
<1>3. PolicyInv => WithinCapacity
  BY DEF PolicyInv, BackingFits, WithinCapacity
<1> QED
  BY <1>1, <1>2, <1>3, PTL DEF PolicySpec, PolicyHolds, VictimsLeastRecent

(***************************************************************************)
(* LoopTurns are enough: a state still full after as many turns has no     *)
(* victim left, so its loop raises.                                        *)
(***************************************************************************)
LeftOnTier(b, t) == Cardinality(OnTier(b, t))

(* No tier has more entries than there are Sources, and an empty one no    *)
(* victim.                                                                 *)
LEMMA TierIsFinite ==
    ASSUME BackingNumbers(Sources), NEW b, NEW t, NEW protected
    PROVE  /\ LeftOnTier(b, t) \in Nat /\ LeftOnTier(b, t) <= Cardinality(Sources)
           /\ IsFiniteSet(OnTier(b, t))
           /\ LeftOnTier(b, t) = 0 => LeastRecent(b, t, protected) = {}
<1>1. IsFiniteSet(Sources) /\ OnTier(b, t) \subseteq Sources
  BY DEF BackingNumbers, OnTier
<1>2. /\ LeftOnTier(b, t) \in Nat /\ LeftOnTier(b, t) <= Cardinality(Sources)
      /\ IsFiniteSet(OnTier(b, t))
  BY <1>1, FS_Subset, FS_CardinalityType DEF LeftOnTier
<1>3. ASSUME LeftOnTier(b, t) = 0 PROVE LeastRecent(b, t, protected) = {}
  <2>1. OnTier(b, t) = {}
    BY <1>2, <1>3, FS_EmptySet DEF LeftOnTier
  <2> QED
    BY <2>1 DEF LeastRecent, Candidates
<1> QED
  BY <1>2, <1>3

(* A tier without one of its entries has fewer.                            *)
LEMMA OneLessOnTier ==
    ASSUME BackingNumbers(Sources), NEW b, NEW c, NEW t, NEW v \in OnTier(b, t),
           OnTier(c, t) = OnTier(b, t) \ {v}
    PROVE  LeftOnTier(c, t) < LeftOnTier(b, t)
<1>1. IsFiniteSet(OnTier(b, t)) /\ LeftOnTier(b, t) \in Nat
  BY TierIsFinite
<1>2. Cardinality(OnTier(b, t) \ {v}) = Cardinality(OnTier(b, t)) - 1
  BY <1>1, FS_RemoveElement
<1> QED
  BY <1>1, <1>2 DEF LeftOnTier

(* The SSD loop.                                                           *)
LEMMA SsdLoopEnds ==
    ASSUME BackingNumbers(Sources), NEW c \in BackingStates, NEW bytes, NEW protected,
           NEW it, SsdTurns(c, bytes, protected, LoopTurns(c), it),
           NEW d \in it[LoopTurns(c)], BackingFull(d, "ssd", bytes)
    PROVE  SsdTurn(d, protected) = {}
<1> DEFINE N == LoopTurns(c)
           Late(r, i) == BackingFull(r, "ssd", bytes) => LeftOnTier(r, "ssd") <= N - i
           K == [i \in 0..N |-> {r \in BackingStates : Late(r, i)}]
<1>1. N \in Nat /\ N = Cardinality(Sources)
  BY TurnsAreSources
<1>2. \A i \in 0..N : it[i] = IF i = 0 THEN {c} ELSE AfterSsdTurn(it[i - 1], bytes, protected)
  BY DEF SsdTurns
<1>3. d \in it[N] /\ BackingFull(d, "ssd", bytes)
  OBVIOUS
<1> HIDE DEF N
<1>4. it[0] \subseteq K[0]
  <2>1. LeftOnTier(c, "ssd") \in Nat /\ LeftOnTier(c, "ssd") <= Cardinality(Sources)
    BY TierIsFinite
  <2>2. c \in K[0]
    BY <1>1, <2>1
  <2> QED
    BY <1>1, <1>2, <2>2
<1>5. ASSUME NEW i \in 1..N, it[i - 1] \subseteq K[i - 1] PROVE it[i] \subseteq K[i]
  <2>1. i \in 0..N /\ i # 0 /\ i - 1 \in 0..N
    BY <1>1
  <2>2. it[i] = AfterSsdTurn(it[i - 1], bytes, protected)
    BY <1>2, <2>1
  <2>3. \A r \in it[i - 1] : r \in BackingStates /\ Late(r, i - 1)
    BY <1>5, <2>1
  <2>4. ASSUME NEW q \in it[i] PROVE q \in BackingStates /\ Late(q, i)
    <3>1. \/ q \in it[i - 1] /\ ~BackingFull(q, "ssd", bytes)
          \/ \E r \in it[i - 1] : BackingFull(r, "ssd", bytes) /\ q \in SsdTurn(r, protected)
      BY <2>2, <2>4 DEF AfterSsdTurn
    <3>2. ASSUME NEW r \in it[i - 1], BackingFull(r, "ssd", bytes), q \in SsdTurn(r, protected)
          PROVE  q \in BackingStates /\ LeftOnTier(q, "ssd") <= N - i
      <4>1. r \in BackingStates /\ LeftOnTier(r, "ssd") <= N - (i - 1)
        BY <2>3, <3>2
      <4>2. /\ Relieves(r, q, protected)
            /\ \E v \in OnTier(r, "ssd") : OnTier(q, "ssd") = OnTier(r, "ssd") \ {v}
        <5>1. Relieves(r, r, protected)
          BY <4>1, NothingGaveWay
        <5> QED
          BY <3>2, <4>1, <5>1, SsdTurnIs
      <4>3. LeftOnTier(q, "ssd") < LeftOnTier(r, "ssd")
        BY <4>2, OneLessOnTier
      <4>4. LeftOnTier(q, "ssd") \in Nat /\ LeftOnTier(r, "ssd") \in Nat
        BY TierIsFinite
      <4> QED
        BY <1>1, <2>1, <4>1, <4>2, <4>3, <4>4 DEF Relieves
    <3> QED
      BY <2>3, <3>1, <3>2
  <2> QED
    BY <2>1, <2>4
<1>6. \A i \in 0..N : it[i] \subseteq K[i]
  <2> HIDE DEF K
  <2> QED
    BY <1>1, <1>4, <1>5, TurnsStay
<1>7. LeftOnTier(d, "ssd") <= N - N
  BY <1>1, <1>3, <1>6
<1>8. LeastRecent(d, "ssd", protected) = {}
  BY <1>1, <1>7, TierIsFinite
<1> QED
  BY <1>8 DEF SsdTurn

(* The CPU loop.                                                           *)
LEMMA CpuLoopEnds ==
    ASSUME BackingNumbers(Sources), NEW c \in BackingStates, NEW bytes, NEW protected,
           NEW it, CpuTurns(c, bytes, protected, LoopTurns(c), it),
           NEW d \in it[LoopTurns(c)], BackingFull(d, "cpu", bytes)
    PROVE  CpuTurn(d, protected) = {}
<1> DEFINE N == LoopTurns(c)
           Late(r, i) == BackingFull(r, "cpu", bytes) => LeftOnTier(r, "cpu") <= N - i
           K == [i \in 0..N |-> {r \in BackingStates : Late(r, i)}]
<1>1. N \in Nat /\ N = Cardinality(Sources)
  BY TurnsAreSources
<1>2. \A i \in 0..N : it[i] = IF i = 0 THEN {c} ELSE AfterCpuTurn(it[i - 1], bytes, protected)
  BY DEF CpuTurns
<1>3. d \in it[N] /\ BackingFull(d, "cpu", bytes)
  OBVIOUS
<1> HIDE DEF N
<1>4. it[0] \subseteq K[0]
  <2>1. LeftOnTier(c, "cpu") \in Nat /\ LeftOnTier(c, "cpu") <= Cardinality(Sources)
    BY TierIsFinite
  <2>2. c \in K[0]
    BY <1>1, <2>1
  <2> QED
    BY <1>1, <1>2, <2>2
<1>5. ASSUME NEW i \in 1..N, it[i - 1] \subseteq K[i - 1] PROVE it[i] \subseteq K[i]
  <2>1. i \in 0..N /\ i # 0 /\ i - 1 \in 0..N
    BY <1>1
  <2>2. it[i] = AfterCpuTurn(it[i - 1], bytes, protected)
    BY <1>2, <2>1
  <2>3. \A r \in it[i - 1] : r \in BackingStates /\ Late(r, i - 1)
    BY <1>5, <2>1
  <2>4. ASSUME NEW q \in it[i] PROVE q \in BackingStates /\ Late(q, i)
    <3>1. \/ q \in it[i - 1] /\ ~BackingFull(q, "cpu", bytes)
          \/ \E r \in it[i - 1] : BackingFull(r, "cpu", bytes) /\ q \in CpuTurn(r, protected)
      BY <2>2, <2>4 DEF AfterCpuTurn
    <3>2. ASSUME NEW r \in it[i - 1], BackingFull(r, "cpu", bytes), q \in CpuTurn(r, protected)
          PROVE  q \in BackingStates /\ LeftOnTier(q, "cpu") <= N - i
      <4>1. r \in BackingStates /\ LeftOnTier(r, "cpu") <= N - (i - 1)
        BY <2>3, <3>2
      <4>2. /\ Relieves(r, q, protected)
            /\ \E v \in OnTier(r, "cpu") : OnTier(q, "cpu") = OnTier(r, "cpu") \ {v}
        <5>1. Relieves(r, r, protected)
          BY <4>1, NothingGaveWay
        <5> QED
          BY <3>2, <4>1, <5>1, CpuTurnIs
      <4>3. LeftOnTier(q, "cpu") < LeftOnTier(r, "cpu")
        BY <4>2, OneLessOnTier
      <4>4. LeftOnTier(q, "cpu") \in Nat /\ LeftOnTier(r, "cpu") \in Nat
        BY TierIsFinite
      <4> QED
        BY <1>1, <2>1, <4>1, <4>2, <4>3, <4>4 DEF Relieves
    <3> QED
      BY <2>3, <3>1, <3>2
  <2> QED
    BY <2>1, <2>4
<1>6. \A i \in 0..N : it[i] \subseteq K[i]
  <2> HIDE DEF K
  <2> QED
    BY <1>1, <1>4, <1>5, TurnsStay
<1>7. LeftOnTier(d, "cpu") <= N - N
  BY <1>1, <1>3, <1>6
<1>8. LeastRecent(d, "cpu", protected) = {}
  BY <1>1, <1>7, TierIsFinite
<1> QED
  BY <1>8 DEF CpuTurn

(***************************************************************************)
(* The registry as the coordinator drives it.                              *)
(***************************************************************************)
Uncopied == {x \in LeaseRecords : ~x.copy}

RegistryRecord(m) ==
    m = [source |-> m.source, logical |-> m.logical, life |-> m.life,
         backing |-> m.backing, placement |-> m.placement, refs |-> m.refs,
         copies |-> m.copies, execs |-> m.execs, lease |-> m.lease,
         frozen |-> m.frozen]

(* Requests execute and never copy, so copies are counted by migrations    *)
(* alone.                                                                  *)
RegistryTyped(m) ==
    /\ RegistryRecord(m)
    /\ m.life \in [Replicas -> ReplicaStates] /\ m.backing \in [Replicas -> BOOLEAN]
    /\ m.copies \in [Replicas -> Int]
    /\ m.lease \in Seq(Uncopied)

SameBackings(m, c) == c.life = m.life /\ c.backing = m.backing /\ c.copies = m.copies

(* A logical lease touches no Replica.                                     *)
LEMMA FreezeIs ==
    ASSUME NEW m, RegistryTyped(m), NEW o \in Owners, NEW g \in Segments, NEW s \in Sources
    PROVE  LET c == FreezeAndAcquireLogical(m, o, g, s, 0, 0)
           IN  RegistryTyped(c) /\ SameBackings(m, c)
<1> DEFINE x == NewLease(o, g, s, NoReplica, "logical", 0, 0)
           c == FreezeAndAcquireLogical(m, o, g, s, 0, 0)
           f == [m.frozen EXCEPT ![o][g] = s]
           k == [m.logical EXCEPT ![s] = @ + 1]
<1>1. x \in Uncopied
  <2>1. x \in LeaseRecords
    BY NewLeaseType DEF Purposes
  <2>2. ~x.copy
    BY DEF NewLease
  <2> QED
    BY <2>1, <2>2 DEF Uncopied
<1>2. c = [m EXCEPT !.lease = Append(m.lease, x), !.frozen = f, !.logical = k]
  BY DEF RegistryTyped, RegistryRecord, FreezeAndAcquireLogical
<1> HIDE DEF x, f, k, c
<1>3. c = [source |-> m.source, logical |-> k, life |-> m.life,
           backing |-> m.backing, placement |-> m.placement, refs |-> m.refs,
           copies |-> m.copies, execs |-> m.execs, lease |-> Append(m.lease, x),
           frozen |-> f]
  BY <1>2 DEF RegistryTyped, RegistryRecord
<1>4. Append(m.lease, x) \in Seq(Uncopied)
  BY <1>1 DEF RegistryTyped
<1>5. RegistryRecord(c)
  BY <1>3 DEF RegistryRecord
<1>6. SameBackings(m, c) /\ c.lease = Append(m.lease, x)
  BY <1>3 DEF SameBackings
<1>7. RegistryTyped(c)
  BY <1>4, <1>5, <1>6 DEF RegistryTyped, SameBackings
<1> QED
  BY <1>6, <1>7 DEF c

(* A batch of executions begins no copy.                                   *)
LEMMA LeaseIs ==
    ASSUME NEW m, RegistryTyped(m), NEW o \in Owners, NEW q, q.segment \in Segments,
           q.source \in Sources, q.replica \in Replicas, q.purpose = "execution"
    PROVE  LET c == LeaseBatch(m, o, <<q>>, 0, 0)
           IN  RegistryTyped(c) /\ SameBackings(m, c)
<1> DEFINE reqs == <<q>>
           x == BatchLease(o, q, 0, 0)
           Of(r, kinds) == {i \in DOMAIN reqs : reqs[i].replica = r /\ reqs[i].purpose \in kinds}
           t == m.lease \o [i \in DOMAIN reqs |-> BatchLease(o, reqs[i], 0, 0)]
           f == [r \in Replicas |-> m.refs[r] + Cardinality(Of(r, Purposes))]
           k == [r \in Replicas |-> m.copies[r] + Cardinality(Of(r, {"copy", "speculative"}))]
           e == [r \in Replicas |-> m.execs[r] + Cardinality(Of(r, {"execution"}))]
           c == LeaseBatch(m, o, reqs, 0, 0)
<1>1. DOMAIN reqs = 1..1 /\ reqs[1] = q
  OBVIOUS
<1>2. x \in Uncopied
  <2>1. x = NewLease(o, q.segment, q.source, q.replica, "execution", 0, 0)
    BY DEF BatchLease
  <2> HIDE DEF x
  <2>2. x \in LeaseRecords
    BY <2>1, NewLeaseType DEF Purposes
  <2>3. ~x.copy
    BY <2>1 DEF NewLease
  <2> QED
    BY <2>2, <2>3 DEF Uncopied
<1>3. t \in Seq(Uncopied)
  <2> DEFINE y == [i \in DOMAIN reqs |-> BatchLease(o, reqs[i], 0, 0)]
  <2>1. y \in [1..1 -> Uncopied]
    BY <1>1, <1>2
  <2>2. y \in Seq(Uncopied)
    BY <2>1
  <2>3. m.lease \in Seq(Uncopied)
    BY DEF RegistryTyped
  <2> HIDE DEF y
  <2> QED
    BY <2>2, <2>3 DEF y
<1>4. \A r \in Replicas : Of(r, {"copy", "speculative"}) = {}
  BY <1>1
<1>5. k = m.copies
  <2>1. k = [r \in Replicas |-> m.copies[r] + Cardinality({})]
    BY <1>4
  <2>2. Cardinality({}) = 0
    BY FS_EmptySet
  <2>3. m.copies \in [Replicas -> Int]
    BY DEF RegistryTyped
  <2> HIDE DEF k
  <2> QED
    BY <2>1, <2>2, <2>3
<1>6. c = [m EXCEPT !.lease = t, !.refs = f, !.copies = k, !.execs = e]
  BY DEF RegistryTyped, RegistryRecord, LeaseBatch
<1> HIDE DEF t, f, k, e, c
<1>7. c = [source |-> m.source, logical |-> m.logical, life |-> m.life,
           backing |-> m.backing, placement |-> m.placement, refs |-> f,
           copies |-> k, execs |-> e, lease |-> t, frozen |-> m.frozen]
  BY <1>6 DEF RegistryTyped, RegistryRecord
<1>8. RegistryRecord(c)
  BY <1>7 DEF RegistryRecord
<1>9. SameBackings(m, c) /\ c.lease = t
  BY <1>5, <1>7 DEF SameBackings
<1>10. RegistryTyped(c)
  BY <1>3, <1>8, <1>9 DEF RegistryTyped, SameBackings
<1> QED
  BY <1>9, <1>10 DEF c

(* A release gives no copy back, for none is held.                         *)
LEMMA ReleaseIs ==
    ASSUME NEW m, RegistryTyped(m), NEW l, NEW reason \in Reasons
    PROVE  LET c == Release(m, l, reason)
           IN  RegistryTyped(c) /\ SameBackings(m, c)
<1> DEFINE L == {l}
           t == [i \in DOMAIN m.lease |->
                   IF i \in L \cap Live(m) THEN Released(m.lease[i], reason) ELSE m.lease[i]]
           g == [s \in Sources |-> m.logical[s] - Cardinality(L \cap LogicalHolders(m, s))]
           f == [r \in Replicas |-> m.refs[r] - Cardinality(L \cap Holders(m, r))]
           k == [r \in Replicas |-> m.copies[r] - Cardinality(L \cap Copiers(m, r))]
           e == [r \in Replicas |-> m.execs[r] - Cardinality(L \cap Executors(m, r))]
           c == Release(m, l, reason)
<1>1. m.lease \in Seq(Uncopied) /\ m.copies \in [Replicas -> Int]
  BY DEF RegistryTyped
<1>2. \A i \in DOMAIN m.lease : m.lease[i] \in LeaseRecords /\ ~m.lease[i].copy
  <2>1. \A i \in DOMAIN m.lease : m.lease[i] \in Uncopied
    BY <1>1
  <2> QED
    BY <2>1 DEF Uncopied
<1>3. t \in Seq(Uncopied)
  <2>1. ASSUME NEW x \in LeaseRecords PROVE Released(x, reason) \in Uncopied
    BY DEF Released, LeaseRecords, LeaseStates, Uncopied
  <2>2. \A i \in DOMAIN m.lease : t[i] \in Uncopied
    BY <1>2, <2>1 DEF Uncopied
  <2>3. DOMAIN t = 1..Len(m.lease) /\ Len(m.lease) \in Nat /\ DOMAIN m.lease = 1..Len(m.lease)
    BY <1>1
  <2>4. t \in [1..Len(m.lease) -> Uncopied]
    BY <2>2, <2>3
  <2> HIDE DEF t
  <2> QED
    BY <2>3, <2>4
<1>4. k = m.copies
  <2>1. \A r \in Replicas : L \cap Copiers(m, r) = {}
    BY <1>2 DEF Copiers, Live
  <2>2. Cardinality({}) = 0
    BY FS_EmptySet
  <2>3. k = [r \in Replicas |-> m.copies[r] - Cardinality({})]
    BY <2>1
  <2> HIDE DEF k
  <2> QED
    BY <1>1, <2>2, <2>3
<1>5. c = [m EXCEPT !.lease = t, !.logical = g, !.refs = f, !.copies = k, !.execs = e]
  BY DEF RegistryTyped, RegistryRecord, Release, ReleaseAll
<1> HIDE DEF t, g, f, k, e, c
<1>6. c = [source |-> m.source, logical |-> g, life |-> m.life,
           backing |-> m.backing, placement |-> m.placement, refs |-> f,
           copies |-> k, execs |-> e, lease |-> t, frozen |-> m.frozen]
  BY <1>5 DEF RegistryTyped, RegistryRecord
<1>7. RegistryRecord(c)
  BY <1>6 DEF RegistryRecord
<1>8. SameBackings(m, c) /\ c.lease = t
  BY <1>4, <1>6 DEF SameBackings
<1>9. RegistryTyped(c)
  BY <1>3, <1>7, <1>8 DEF RegistryTyped, SameBackings
<1> QED
  BY <1>8, <1>9 DEF c

(* Registering a Source touches no Replica.                                *)
LEMMA SourceIs ==
    ASSUME NEW m, RegistryTyped(m), NEW s
    PROVE  LET c == RegisterSource(m, s)
           IN  RegistryTyped(c) /\ SameBackings(m, c)
<1> DEFINE f == [m.source EXCEPT ![s] = IF @ = "absent" THEN "active" ELSE @]
           c == RegisterSource(m, s)
<1>1. c = [m EXCEPT !.source = f]
  BY DEF RegistryTyped, RegistryRecord, RegisterSource
<1> HIDE DEF f, c
<1>2. c = [source |-> f, logical |-> m.logical, life |-> m.life,
           backing |-> m.backing, placement |-> m.placement, refs |-> m.refs,
           copies |-> m.copies, execs |-> m.execs, lease |-> m.lease,
           frozen |-> m.frozen]
  BY <1>1 DEF RegistryTyped, RegistryRecord
<1>3. RegistryRecord(c)
  BY <1>2 DEF RegistryRecord
<1>4. SameBackings(m, c) /\ c.lease = m.lease
  BY <1>2 DEF SameBackings
<1> QED
  BY <1>3, <1>4 DEF RegistryTyped, SameBackings, c

Placed(m, c, r, isBacking, lifecycle) ==
    /\ c.life = [m.life EXCEPT ![r] = lifecycle]
    /\ c.backing = [m.backing EXCEPT ![r] = isBacking]
    /\ c.copies = [m.copies EXCEPT ![r] = 0]

(* Registering a Replica writes that one.                                  *)
LEMMA ReplicaIs ==
    ASSUME NEW m, RegistryTyped(m), NEW r \in Replicas, NEW isBacking \in BOOLEAN,
           NEW lifecycle \in ReplicaStates
    PROVE  LET c == RegisterReplica(m, r, isBacking, lifecycle)
           IN  RegistryTyped(c) /\ Placed(m, c, r, isBacking, lifecycle)
<1> DEFINE a == [m.life EXCEPT ![r] = lifecycle]
           b == [m.backing EXCEPT ![r] = isBacking]
           p == [m.placement EXCEPT ![r] = @ + 1]
           f == [m.refs EXCEPT ![r] = 0]
           k == [m.copies EXCEPT ![r] = 0]
           e == [m.execs EXCEPT ![r] = 0]
           c == RegisterReplica(m, r, isBacking, lifecycle)
<1>1. /\ a \in [Replicas -> ReplicaStates] /\ b \in [Replicas -> BOOLEAN]
      /\ k \in [Replicas -> Int]
  BY DEF RegistryTyped
<1>2. c = [m EXCEPT !.life = a, !.backing = b, !.placement = p, !.refs = f,
                    !.copies = k, !.execs = e]
  BY DEF RegistryTyped, RegistryRecord, RegisterReplica
<1>3. m.lease \in Seq(Uncopied)
  BY DEF RegistryTyped
<1> HIDE DEF a, b, p, f, k, e, c
<1>4. c = [source |-> m.source, logical |-> m.logical, life |-> a,
           backing |-> b, placement |-> p, refs |-> f,
           copies |-> k, execs |-> e, lease |-> m.lease, frozen |-> m.frozen]
  BY <1>2 DEF RegistryTyped, RegistryRecord
<1>5. RegistryRecord(c)
  BY <1>4 DEF RegistryRecord
<1>6. c.life = a /\ c.backing = b /\ c.copies = k /\ c.lease = m.lease
  BY <1>4
<1>7. RegistryTyped(c)
  BY <1>1, <1>3, <1>5, <1>6 DEF RegistryTyped
<1> QED
  BY <1>6, <1>7 DEF Placed, a, b, k, c

(***************************************************************************)
(* What the registry, the entries and the tickets keep together.           *)
(***************************************************************************)
Held(m, t) ==
    /\ SourceOf[t.destination] = t.source /\ TierOf[t.destination] \in BackingTiers
    /\ HealthyBacking(m, t.source) = {t.old}
    /\ m.life[t.destination] = "allocating"
    /\ m.copies[t.old] >= 1 /\ m.copies[t.destination] = 1

AtMostOne(m) == \A s \in Sources : \A q, r \in HealthyBacking(m, s) : q = r

AllBacked(m, b) == \A s \in Kept(b) : HealthyBacking(m, s) # {}

OnePerSource(T) == \A t, u \in T : t.source = u.source => t = u

Coordinated(m, b, T) ==
    /\ RegistryTyped(m) /\ b \in BackingStates /\ T \subseteq Tickets
    /\ AtMostOne(m) /\ AllBacked(m, b) /\ OnePerSource(T)
    /\ \A t \in T : Held(m, t)

(* What a backing is depends on the lifecycles and the flags alone.        *)
LEMMA SameHealthy ==
    ASSUME NEW m, NEW c, c.life = m.life, c.backing = m.backing
    PROVE  \A s : HealthyBacking(c, s) = HealthyBacking(m, s)
BY DEF HealthyBacking

(* A step that leaves the Replicas alone and keeps only entries that were  *)
(* kept or whose Source has a backing.                                     *)
LEMMA BackingsUntouched ==
    ASSUME NEW m, NEW b, NEW T, Coordinated(m, b, T), NEW c, RegistryTyped(c), SameBackings(m, c),
           NEW d \in BackingStates,
           \A s \in Kept(d) : s \in Kept(b) \/ HealthyBacking(m, s) # {}
    PROVE  Coordinated(c, d, T)
<1>1. \A s : HealthyBacking(c, s) = HealthyBacking(m, s)
  BY SameHealthy DEF SameBackings
<1>2. \A t \in T : Held(c, t)
  BY <1>1 DEF Coordinated, Held, SameBackings
<1>3. AtMostOne(c) /\ AllBacked(c, d)
  BY <1>1 DEF Coordinated, AtMostOne, AllBacked
<1> QED
  BY <1>2, <1>3 DEF Coordinated

(* The ends of a ticket.                                                   *)
LEMMA TicketTypes ==
    ASSUME NEW t \in Tickets, NEW m, Held(m, t)
    PROVE  /\ t.source \in Sources /\ t.old \in Replicas /\ t.destination \in Replicas
           /\ SourceOf[t.old] = t.source /\ m.life[t.old] = "ready" /\ m.backing[t.old]
           /\ t.destination # t.old
<1>1. t.source \in Sources /\ t.old \in Replicas /\ t.destination \in Replicas
  BY DEF Tickets
<1>2. t.old \in HealthyBacking(m, t.source)
  BY DEF Held
<1>3. SourceOf[t.old] = t.source /\ m.life[t.old] = "ready" /\ m.backing[t.old]
  BY <1>2 DEF HealthyBacking
<1> QED
  BY <1>1, <1>3 DEF Held

(* A ticket whose ends a step leaves alone.                                *)
LEMMA TicketUntouched ==
    ASSUME NEW m, NEW t, Held(m, t), NEW c,
           HealthyBacking(c, t.source) = HealthyBacking(m, t.source),
           c.life[t.destination] = m.life[t.destination],
           c.copies[t.old] = m.copies[t.old], c.copies[t.destination] = m.copies[t.destination]
    PROVE  Held(c, t)
BY DEF Held

(* Storing the backing of a Source that has none.                          *)
LEMMA StoreKeeps ==
    ASSUME NEW m, NEW b, NEW T, Coordinated(m, b, T), NEW r \in Replicas, NEW c,
           RegistryTyped(c), Placed(m, c, r, TRUE, "ready"),
           HealthyBacking(m, SourceOf[r]) = {}, ~Present(m, r)
    PROVE  Coordinated(c, b, T)
<1>0. /\ m.life \in [Replicas -> ReplicaStates] /\ m.backing \in [Replicas -> BOOLEAN]
      /\ m.copies \in [Replicas -> Int]
  BY DEF Coordinated, RegistryTyped
<1>1. \A q \in Replicas :
         /\ c.life[q] = IF q = r THEN "ready" ELSE m.life[q]
         /\ c.backing[q] = IF q = r THEN TRUE ELSE m.backing[q]
         /\ c.copies[q] = IF q = r THEN 0 ELSE m.copies[q]
  BY <1>0 DEF Placed
<1>2. HealthyBacking(c, SourceOf[r]) = {r}
  BY <1>1 DEF HealthyBacking
<1>3. \A s : s # SourceOf[r] => HealthyBacking(c, s) = HealthyBacking(m, s)
  BY <1>1 DEF HealthyBacking
<1>4. ASSUME NEW t \in T PROVE Held(c, t)
  <2>1. Held(m, t) /\ t \in Tickets
    BY DEF Coordinated
  <2>2. t.source # SourceOf[r]
    BY <2>1 DEF Held
  <2>3. t.old # r /\ t.destination # r
    BY <2>1, <2>2, TicketTypes DEF Held
  <2>4. t.old \in Replicas /\ t.destination \in Replicas
    BY <2>1, TicketTypes
  <2>5. /\ HealthyBacking(c, t.source) = HealthyBacking(m, t.source)
        /\ c.life[t.destination] = m.life[t.destination]
        /\ c.copies[t.old] = m.copies[t.old] /\ c.copies[t.destination] = m.copies[t.destination]
    BY <1>1, <1>3, <2>2, <2>3, <2>4
  <2> QED
    BY <2>1, <2>5, TicketUntouched
<1>5. AtMostOne(c)
  BY <1>2, <1>3 DEF Coordinated, AtMostOne
<1>6. AllBacked(c, b)
  BY <1>2, <1>3 DEF Coordinated, AllBacked
<1> QED
  BY <1>4, <1>5, <1>6 DEF Coordinated

(* Evicting a Replica that is in no use and whose Source has no entry.     *)
LEMMA EvictKeeps ==
    ASSUME NEW m, NEW b, NEW T, Coordinated(m, b, T), NEW r \in Replicas,
           SourceOf[r] \notin Kept(b), ~Busy(m, r), m.life[r] = "ready"
    PROVE  Coordinated(EvictReplica(m, r), b, T)
<1> DEFINE a == [m.life EXCEPT ![r] = "deleted"]
           c == EvictReplica(m, r)
<1>0. /\ m.life \in [Replicas -> ReplicaStates] /\ m.backing \in [Replicas -> BOOLEAN]
      /\ m.copies \in [Replicas -> Int] /\ m.lease \in Seq(Uncopied)
  BY DEF Coordinated, RegistryTyped
<1>1. a \in [Replicas -> ReplicaStates]
      /\ \A q \in Replicas : a[q] = IF q = r THEN "deleted" ELSE m.life[q]
  BY <1>0 DEF ReplicaStates
<1>2. c = [m EXCEPT !.life = a]
  BY DEF Coordinated, RegistryTyped, RegistryRecord, EvictReplica
<1> HIDE DEF a, c
<1>3. c = [source |-> m.source, logical |-> m.logical, life |-> a,
           backing |-> m.backing, placement |-> m.placement, refs |-> m.refs,
           copies |-> m.copies, execs |-> m.execs, lease |-> m.lease,
           frozen |-> m.frozen]
  BY <1>2 DEF Coordinated, RegistryTyped, RegistryRecord
<1>4. RegistryRecord(c)
  BY <1>3 DEF RegistryRecord
<1>5. c.life = a /\ c.backing = m.backing /\ c.copies = m.copies /\ c.lease = m.lease
  BY <1>3
<1>6. RegistryTyped(c)
  BY <1>0, <1>1, <1>4, <1>5 DEF RegistryTyped
<1>7. \A s : HealthyBacking(c, s) = HealthyBacking(m, s) \ {r}
  BY <1>1, <1>5 DEF HealthyBacking
<1>8. ASSUME NEW t \in T PROVE Held(c, t)
  <2>1. Held(m, t) /\ t \in Tickets
    BY DEF Coordinated
  <2>2. t.old # r
    BY <2>1 DEF Held, Busy
  <2>3. t.destination # r
    BY <2>1 DEF Held
  <2>4. t.old \in Replicas /\ t.destination \in Replicas
    BY <2>1, TicketTypes
  <2>5. HealthyBacking(c, t.source) = HealthyBacking(m, t.source)
    BY <1>7, <2>1, <2>2 DEF Held
  <2> QED
    BY <1>1, <1>5, <2>1, <2>3, <2>4, <2>5, TicketUntouched
<1>9. AtMostOne(c)
  BY <1>7 DEF Coordinated, AtMostOne
<1>10. AllBacked(c, b)
  <2>1. \A s \in Kept(b) : s # SourceOf[r] /\ HealthyBacking(m, s) # {}
    BY DEF Coordinated, AllBacked
  <2>2. \A s : s # SourceOf[r] => r \notin HealthyBacking(m, s)
    BY DEF HealthyBacking
  <2> QED
    BY <1>7, <2>1, <2>2 DEF AllBacked
<1> QED
  BY <1>6, <1>8, <1>9, <1>10 DEF Coordinated, c

Ticket(s, old, d) == [source |-> s, old |-> old, destination |-> d]

CopyCounted(e, old, d) == [e EXCEPT !.copies[old] = @ + 1, !.copies[d] = @ + 1]

(* Beginning a migration from an idle backing.                             *)
LEMMA BeginKeeps ==
    ASSUME NEW m, NEW b, NEW T, Coordinated(m, b, T), NEW d \in Replicas, NEW old \in Replicas,
           TierOf[d] \in BackingTiers, HealthyBacking(m, SourceOf[d]) = {old},
           ~Busy(m, old), ~Present(m, d), NEW e, RegistryTyped(e),
           Placed(m, e, d, FALSE, "allocating")
    PROVE  Coordinated(CopyCounted(e, old, d), b, T \cup {Ticket(SourceOf[d], old, d)})
<1> DEFINE c == CopyCounted(e, old, d)
           k1 == [e.copies EXCEPT ![old] = @ + 1]
           k == [k1 EXCEPT ![d] = e.copies[d] + 1]
           new == Ticket(SourceOf[d], old, d)
<1>0. /\ m.life \in [Replicas -> ReplicaStates] /\ m.backing \in [Replicas -> BOOLEAN]
      /\ m.copies \in [Replicas -> Int] /\ e.copies \in [Replicas -> Int]
  BY DEF Coordinated, RegistryTyped
<1>1. /\ SourceOf[old] = SourceOf[d] /\ m.life[old] = "ready" /\ m.backing[old]
      /\ old # d /\ m.copies[old] = 0 /\ SourceOf[d] \in Sources
  <2>1. old \in HealthyBacking(m, SourceOf[d])
    OBVIOUS
  <2> QED
    BY <2>1, PoolShape DEF HealthyBacking, Present, Busy
<1>2. \A q \in Replicas :
         /\ e.life[q] = IF q = d THEN "allocating" ELSE m.life[q]
         /\ e.backing[q] = IF q = d THEN FALSE ELSE m.backing[q]
         /\ e.copies[q] = IF q = d THEN 0 ELSE m.copies[q]
  BY <1>0 DEF Placed
<1>3. k1 \in [Replicas -> Int] /\ \A q \in Replicas : k1[q] = IF q = old THEN e.copies[q] + 1 ELSE e.copies[q]
  BY <1>0
<1> HIDE DEF k1
<1>4. k \in [Replicas -> Int] /\ \A q \in Replicas : k[q] = IF q = d THEN e.copies[d] + 1 ELSE k1[q]
  BY <1>0, <1>3
<1>5. c = [e EXCEPT !.copies = k]
  <2>1. RegistryRecord(e)
    BY DEF RegistryTyped
  <2> QED
    BY <2>1 DEF RegistryRecord, k1, CopyCounted
<1> HIDE DEF k, c
<1>6. c = [source |-> e.source, logical |-> e.logical, life |-> e.life,
           backing |-> e.backing, placement |-> e.placement, refs |-> e.refs,
           copies |-> k, execs |-> e.execs, lease |-> e.lease,
           frozen |-> e.frozen]
  BY <1>5 DEF RegistryTyped, RegistryRecord
<1>7. RegistryRecord(c)
  BY <1>6 DEF RegistryRecord
<1>8. c.life = e.life /\ c.backing = e.backing /\ c.copies = k /\ c.lease = e.lease
  BY <1>6
<1>9. RegistryTyped(c)
  BY <1>4, <1>7, <1>8 DEF RegistryTyped
<1>10. e.copies[d] = 0 /\ \A q \in Replicas : q # d => e.copies[q] = m.copies[q]
  BY <1>2
<1>11. /\ c.copies[old] = 1 /\ c.copies[d] = 1
       /\ \A q \in Replicas : q \notin {old, d} => c.copies[q] = m.copies[q]
  BY <1>1, <1>3, <1>4, <1>8, <1>10
<1>12. \A s : HealthyBacking(c, s) = HealthyBacking(m, s)
  <2>1. \A s : d \notin HealthyBacking(m, s)
    BY DEF HealthyBacking, Present
  <2>2. \A s : d \notin HealthyBacking(c, s)
    BY <1>2, <1>8 DEF HealthyBacking
  <2>3. \A q \in Replicas : q # d => c.life[q] = m.life[q] /\ c.backing[q] = m.backing[q]
    BY <1>2, <1>8
  <2> QED
    BY <2>1, <2>2, <2>3 DEF HealthyBacking
<1>13. /\ new \in Tickets /\ new.source = SourceOf[d] /\ new.old = old /\ new.destination = d
  BY <1>1 DEF Ticket, Tickets
<1> HIDE DEF new
<1>14. Held(c, new)
  <2>1. c.copies[old] = 1 /\ c.copies[d] = 1 /\ c.life[d] = "allocating"
    BY <1>2, <1>8, <1>11
  <2> QED
    BY <1>12, <1>13, <2>1 DEF Held
<1>15. ASSUME NEW t \in T PROVE Held(c, t) /\ t.source # SourceOf[d]
  <2>1. Held(m, t) /\ t \in Tickets
    BY DEF Coordinated
  <2>2. t.old # old /\ t.source # SourceOf[d]
    BY <1>1, <2>1 DEF Held
  <2>3. t.destination # d /\ t.old # d
    BY <2>1, TicketTypes DEF Held, Present
  <2>4. t.old \in Replicas /\ t.destination \in Replicas
    BY <2>1, TicketTypes
  <2>5. t.destination # old
    BY <1>1, <2>1 DEF Held
  <2>6. c.life[t.destination] = m.life[t.destination]
    BY <1>2, <1>8, <2>3, <2>4
  <2>7. c.copies[t.old] = m.copies[t.old] /\ c.copies[t.destination] = m.copies[t.destination]
    BY <1>11, <2>2, <2>3, <2>4, <2>5
  <2>8. HealthyBacking(c, t.source) = HealthyBacking(m, t.source)
    BY <1>12
  <2> QED
    BY <2>1, <2>2, <2>6, <2>7, <2>8, TicketUntouched
<1>16. AtMostOne(c) /\ AllBacked(c, b)
  BY <1>12 DEF Coordinated, AtMostOne, AllBacked
<1>17. OnePerSource(T \cup {new})
  BY <1>13, <1>15 DEF Coordinated, OnePerSource
<1> QED
  BY <1>9, <1>13, <1>14, <1>15, <1>16, <1>17 DEF Coordinated, c, new

(* What of the registry a finished migration writes.                       *)
Finished(m, c, t) ==
    /\ RegistryTyped(c)
    /\ \A q \in Replicas : q \notin {t.old, t.destination} =>
          /\ c.life[q] = m.life[q] /\ c.backing[q] = m.backing[q]
          /\ c.copies[q] = m.copies[q]

(* The other tickets, and the backings of the other Sources.               *)
LEMMA OthersUntouched ==
    ASSUME NEW m, NEW b, NEW T, Coordinated(m, b, T), NEW t \in T, NEW c, Finished(m, c, t)
    PROVE  /\ \A s : s # t.source => HealthyBacking(c, s) = HealthyBacking(m, s)
           /\ \A u \in T \ {t} : Held(c, u)
<1>0. t \in Tickets /\ Held(m, t)
  BY DEF Coordinated
<1>1. /\ t.source \in Sources /\ t.old \in Replicas /\ t.destination \in Replicas
      /\ SourceOf[t.old] = t.source /\ m.life[t.old] = "ready"
      /\ SourceOf[t.destination] = t.source /\ m.life[t.destination] = "allocating"
  BY <1>0, TicketTypes DEF Held
<1>2. ASSUME NEW s, s # t.source PROVE HealthyBacking(c, s) = HealthyBacking(m, s)
  <2>1. ASSUME NEW q \in Replicas, SourceOf[q] = s
        PROVE  c.life[q] = m.life[q] /\ c.backing[q] = m.backing[q]
    BY <1>1, <1>2, <2>1 DEF Finished
  <2> QED
    BY <2>1 DEF HealthyBacking
<1>3. ASSUME NEW u \in T \ {t} PROVE Held(c, u)
  <2>1. u \in Tickets /\ Held(m, u)
    BY DEF Coordinated
  <2>2. u.source # t.source
    BY DEF Coordinated, OnePerSource
  <2>3. /\ u.old \in Replicas /\ u.destination \in Replicas
        /\ SourceOf[u.old] = u.source /\ SourceOf[u.destination] = u.source
    BY <2>1, TicketTypes DEF Held
  <2>4. u.old \notin {t.old, t.destination} /\ u.destination \notin {t.old, t.destination}
    BY <1>1, <2>2, <2>3
  <2>5. /\ c.life[u.destination] = m.life[u.destination]
        /\ c.copies[u.old] = m.copies[u.old] /\ c.copies[u.destination] = m.copies[u.destination]
    BY <2>3, <2>4 DEF Finished
  <2>6. HealthyBacking(c, u.source) = HealthyBacking(m, u.source)
    BY <1>2, <2>2
  <2> QED
    BY <2>1, <2>5, <2>6, TicketUntouched
<1> QED
  BY <1>2, <1>3

(* A finished migration leaves its Source the one backing.                 *)
LEMMA MigrationKeeps ==
    ASSUME NEW m, NEW b, NEW T, Coordinated(m, b, T), NEW t \in T, NEW c, Finished(m, c, t),
           NEW r, HealthyBacking(c, t.source) = {r},
           NEW d \in BackingStates, Kept(d) \subseteq Kept(b)
    PROVE  Coordinated(c, d, T \ {t})
<1>1. /\ \A s : s # t.source => HealthyBacking(c, s) = HealthyBacking(m, s)
      /\ \A u \in T \ {t} : Held(c, u)
  BY OthersUntouched
<1>2. AtMostOne(c)
  <2>1. ASSUME NEW s \in Sources, NEW p \in HealthyBacking(c, s), NEW q \in HealthyBacking(c, s)
        PROVE  p = q
    <3>1. CASE s = t.source
      BY <3>1
    <3>2. CASE s # t.source
      BY <1>1, <3>2 DEF Coordinated, AtMostOne
    <3> QED
      BY <3>1, <3>2
  <2> QED
    BY <2>1 DEF AtMostOne
<1>3. AllBacked(c, d)
  <2>1. ASSUME NEW s \in Kept(d) PROVE HealthyBacking(c, s) # {}
    <3>1. CASE s = t.source
      BY <3>1
    <3>2. CASE s # t.source
      BY <1>1, <3>2 DEF Coordinated, AllBacked
    <3> QED
      BY <3>1, <3>2
  <2> QED
    BY <2>1 DEF AllBacked
<1>4. T \ {t} \subseteq Tickets /\ OnePerSource(T \ {t})
  BY DEF Coordinated, OnePerSource
<1> QED
  BY <1>1, <1>2, <1>3, <1>4 DEF Coordinated, Finished

GivenBack(m, t) == [m EXCEPT !.copies[t.old] = @ - 1, !.copies[t.destination] = @ - 1]

(* Giving the copy of a ticket back.                                       *)
LEMMA ReturnedIs ==
    ASSUME NEW m, RegistryTyped(m), NEW t \in Tickets, t.old # t.destination
    PROVE  LET e == GivenBack(m, t)
           IN  /\ RegistryTyped(e) /\ e.life = m.life /\ e.backing = m.backing
               /\ \A q \in Replicas \ {t.old, t.destination} : e.copies[q] = m.copies[q]
<1> DEFINE e == GivenBack(m, t)
           k1 == [m.copies EXCEPT ![t.old] = @ - 1]
           k == [k1 EXCEPT ![t.destination] = m.copies[t.destination] - 1]
<1>1. /\ m.copies \in [Replicas -> Int] /\ t.old \in Replicas /\ t.destination \in Replicas
      /\ m.life \in [Replicas -> ReplicaStates] /\ m.backing \in [Replicas -> BOOLEAN]
      /\ m.lease \in Seq(Uncopied)
  BY DEF RegistryTyped, Tickets
<1>2. k1 \in [Replicas -> Int] /\ \A q \in Replicas \ {t.old} : k1[q] = m.copies[q]
  BY <1>1
<1>3. e = [m EXCEPT !.copies = k]
  BY DEF RegistryTyped, RegistryRecord, GivenBack
<1> HIDE DEF k1
<1>4. /\ k \in [Replicas -> Int]
      /\ \A q \in Replicas \ {t.old, t.destination} : k[q] = m.copies[q]
  BY <1>1, <1>2
<1> HIDE DEF k, e
<1>5. e = [source |-> m.source, logical |-> m.logical, life |-> m.life,
           backing |-> m.backing, placement |-> m.placement, refs |-> m.refs,
           copies |-> k, execs |-> m.execs, lease |-> m.lease, frozen |-> m.frozen]
  BY <1>3 DEF RegistryTyped, RegistryRecord
<1>6. RegistryRecord(e)
  BY <1>5 DEF RegistryRecord
<1>7. e.life = m.life /\ e.backing = m.backing /\ e.copies = k /\ e.lease = m.lease
  BY <1>5
<1>8. RegistryTyped(e)
  BY <1>1, <1>4, <1>6, <1>7 DEF RegistryTyped
<1> QED
  BY <1>4, <1>7, <1>8 DEF e

(* A failed copy leaves the old backing.                                   *)
LEMMA FailedIs ==
    ASSUME NEW m, NEW b, NEW T, Coordinated(m, b, T), NEW t \in T, NEW e, RegistryTyped(e),
           e.life = m.life, e.backing = m.backing,
           \A q \in Replicas \ {t.old, t.destination} : e.copies[q] = m.copies[q]
    PROVE  LET c == [e EXCEPT !.life[t.destination] = "deleted"]
           IN  Finished(m, c, t) /\ HealthyBacking(c, t.source) = {t.old}
<1> DEFINE a == [m.life EXCEPT ![t.destination] = "deleted"]
           c == [e EXCEPT !.life[t.destination] = "deleted"]
<1>1. t \in Tickets /\ Held(m, t)
  BY DEF Coordinated
<1>2. /\ t.old \in Replicas /\ t.destination \in Replicas /\ t.destination # t.old
  BY <1>1, TicketTypes
<1>3. m.life \in [Replicas -> ReplicaStates] /\ m.backing \in [Replicas -> BOOLEAN]
      /\ e.copies \in [Replicas -> Int] /\ e.lease \in Seq(Uncopied)
  BY DEF Coordinated, RegistryTyped
<1>4. /\ a \in [Replicas -> ReplicaStates]
      /\ \A q \in Replicas : a[q] = IF q = t.destination THEN "deleted" ELSE m.life[q]
  BY <1>2, <1>3 DEF ReplicaStates
<1>5. c = [e EXCEPT !.life = a]
  OBVIOUS
<1> HIDE DEF a, c
<1>6. c = [source |-> e.source, logical |-> e.logical, life |-> a,
           backing |-> e.backing, placement |-> e.placement, refs |-> e.refs,
           copies |-> e.copies, execs |-> e.execs, lease |-> e.lease, frozen |-> e.frozen]
  BY <1>5 DEF RegistryTyped, RegistryRecord
<1>7. RegistryRecord(c)
  BY <1>6 DEF RegistryRecord
<1>8. c.life = a /\ c.backing = m.backing /\ c.copies = e.copies /\ c.lease = e.lease
  BY <1>6
<1>9. RegistryTyped(c)
  BY <1>3, <1>4, <1>7, <1>8 DEF RegistryTyped
<1>10. Finished(m, c, t)
  BY <1>4, <1>8, <1>9 DEF Finished
<1>11. HealthyBacking(c, t.source) = {t.old}
  <2>1. HealthyBacking(m, t.source) = {t.old} /\ m.life[t.destination] = "allocating"
    BY <1>1 DEF Held
  <2>2. HealthyBacking(c, t.source) = HealthyBacking(m, t.source)
    BY <1>4, <1>8, <2>1 DEF HealthyBacking
  <2> QED
    BY <2>1, <2>2
<1> QED
  BY <1>10, <1>11 DEF c

Swapped(e, t, n) ==
    [e EXCEPT !.life[t.destination] = "ready", !.backing[t.destination] = TRUE,
              !.life[t.old] = "deleted", !.backing[t.old] = FALSE,
              !.placement[t.destination] = IF @ > n THEN @ ELSE n + 1]

(* A published copy takes the place of the old backing.                    *)
LEMMA PublishedIs ==
    ASSUME NEW m, NEW b, NEW T, Coordinated(m, b, T), NEW t \in T, NEW e, RegistryTyped(e),
           e.life = m.life, e.backing = m.backing,
           \A q \in Replicas \ {t.old, t.destination} : e.copies[q] = m.copies[q],
           NEW n
    PROVE  LET c == Swapped(e, t, n)
           IN  Finished(m, c, t) /\ HealthyBacking(c, t.source) = {t.destination}
<1> DEFINE a1 == [m.life EXCEPT ![t.destination] = "ready"]
           a == [a1 EXCEPT ![t.old] = "deleted"]
           f1 == [m.backing EXCEPT ![t.destination] = TRUE]
           f == [f1 EXCEPT ![t.old] = FALSE]
           p == [e.placement EXCEPT ![t.destination] = IF @ > n THEN @ ELSE n + 1]
           c == Swapped(e, t, n)
<1>1. t \in Tickets /\ Held(m, t)
  BY DEF Coordinated
<1>2. /\ t.old \in Replicas /\ t.destination \in Replicas /\ t.destination # t.old
      /\ SourceOf[t.old] = t.source /\ SourceOf[t.destination] = t.source
  BY <1>1, TicketTypes DEF Held
<1>3. m.life \in [Replicas -> ReplicaStates] /\ m.backing \in [Replicas -> BOOLEAN]
      /\ e.copies \in [Replicas -> Int] /\ e.lease \in Seq(Uncopied)
  BY DEF Coordinated, RegistryTyped
<1>4. /\ a1 \in [Replicas -> ReplicaStates]
      /\ \A q \in Replicas : a1[q] = IF q = t.destination THEN "ready" ELSE m.life[q]
      /\ f1 \in [Replicas -> BOOLEAN]
      /\ \A q \in Replicas : f1[q] = IF q = t.destination THEN TRUE ELSE m.backing[q]
  BY <1>2, <1>3 DEF ReplicaStates
<1>5. c = [e EXCEPT !.life = a, !.backing = f, !.placement = p]
  <2>1. RegistryRecord(e)
    BY DEF RegistryTyped
  <2> QED
    BY <2>1 DEF RegistryRecord, Swapped
<1> HIDE DEF a1, f1, p
<1>6. /\ a \in [Replicas -> ReplicaStates]
      /\ \A q \in Replicas : a[q] = IF q = t.old THEN "deleted" ELSE a1[q]
      /\ f \in [Replicas -> BOOLEAN]
      /\ \A q \in Replicas : f[q] = IF q = t.old THEN FALSE ELSE f1[q]
  BY <1>2, <1>4 DEF ReplicaStates
<1> HIDE DEF a, f, c
<1>7. c = [source |-> e.source, logical |-> e.logical, life |-> a,
           backing |-> f, placement |-> p, refs |-> e.refs,
           copies |-> e.copies, execs |-> e.execs, lease |-> e.lease, frozen |-> e.frozen]
  BY <1>5 DEF RegistryTyped, RegistryRecord
<1>8. RegistryRecord(c)
  BY <1>7 DEF RegistryRecord
<1>9. c.life = a /\ c.backing = f /\ c.copies = e.copies /\ c.lease = e.lease
  BY <1>7
<1>10. RegistryTyped(c)
  BY <1>3, <1>6, <1>8, <1>9 DEF RegistryTyped
<1>11. Finished(m, c, t)
  <2>1. ASSUME NEW q \in Replicas, q \notin {t.old, t.destination}
        PROVE  a[q] = m.life[q] /\ e.copies[q] = m.copies[q]
    BY <1>4, <1>6, <2>1
  <2>2. ASSUME NEW q \in Replicas, q \notin {t.old, t.destination} PROVE f[q] = m.backing[q]
    BY <1>4, <1>6, <2>2, Zenon
  <2> QED
    BY <1>9, <1>10, <2>1, <2>2, Zenon DEF Finished
<1>12. HealthyBacking(c, t.source) = {t.destination}
  <2>1. HealthyBacking(m, t.source) = {t.old}
    BY <1>1 DEF Held
  <2>2. t.destination \in HealthyBacking(c, t.source) /\ t.old \notin HealthyBacking(c, t.source)
    BY <1>2, <1>4, <1>6, <1>9 DEF HealthyBacking
  <2>3. \A q \in HealthyBacking(c, t.source) :
           q \notin {t.old, t.destination} => q \in HealthyBacking(m, t.source)
    BY <1>11 DEF HealthyBacking, Finished
  <2> QED
    BY <2>1, <2>2, <2>3
<1> QED
  BY <1>11, <1>12 DEF c

(***************************************************************************)
(* synchronize_busy.                                                       *)
(***************************************************************************)
InUse(m, s) == m.logical[s] # 0 \/ \E r \in HealthyBacking(m, s) : Busy(m, r)

SameTiers(b, c) == \A s \in Sources : c.entry[s].tier = b.entry[s].tier

(* Refreshing entries that agree writes their flags and Replicas only.     *)
LEMMA RefreshedIs ==
    ASSUME NEW b \in BackingStates, NEW m, NEW S, S \subseteq {s \in Kept(b) : Agrees(s, m, b)}
    PROVE  LET c == Refreshed(b, m, S)
           IN  /\ c \in BackingStates /\ SameTiers(b, c)
               /\ \A s \in S : c.entry[s].busy <=> InUse(m, s)
<1> DEFINE R(s) == CHOOSE q \in Replicas : q \in HealthyBacking(m, s)
           x(s) == [b.entry[s] EXCEPT !.replica = R(s),
                                      !.busy = m.logical[s] # 0 \/ Busy(m, R(s))]
           e == [s \in Sources |-> IF s \in S THEN x(s) ELSE b.entry[s]]
           c == Refreshed(b, m, S)
<1>1. b = [entry |-> b.entry, clock |-> b.clock] /\ b.clock \in Nat
      /\ \A s \in Sources : b.entry[s] \in Entries
  BY DEF BackingStates
<1>2. ASSUME NEW s \in S
      PROVE  s \in Sources /\ R(s) \in Replicas /\ HealthyBacking(m, s) = {R(s)}
  <2>1. s \in Sources /\ Agrees(s, m, b)
    BY DEF Kept
  <2>2. PICK r \in Replicas : HealthyBacking(m, s) = {r}
    BY <2>1 DEF Agrees
  <2>3. R(s) \in Replicas /\ R(s) \in HealthyBacking(m, s)
    BY <2>2, Zenon
  <2> QED
    BY <2>1, <2>2, <2>3
<1> HIDE DEF R
<1>3. ASSUME NEW s \in S
      PROVE  /\ x(s) \in Entries /\ x(s).tier = b.entry[s].tier
             /\ x(s).busy = (m.logical[s] # 0 \/ Busy(m, R(s)))
  <2>1. b.entry[s] \in Entries /\ R(s) \in Replicas
    BY <1>1, <1>2
  <2>2. (m.logical[s] # 0 \/ Busy(m, R(s))) \in BOOLEAN
    OBVIOUS
  <2> QED
    BY <2>1, <2>2 DEF Entries
<1>4. c = [entry |-> e, clock |-> b.clock]
  <2>1. c = [b EXCEPT !.entry = e]
    BY DEF Refreshed, R
  <2> HIDE DEF c, e
  <2> QED
    BY <1>1, <2>1
<1> HIDE DEF x
<1>5. /\ e \in [Sources -> Entries]
      /\ \A s \in Sources : e[s] = IF s \in S THEN x(s) ELSE b.entry[s]
  BY <1>1, <1>3
<1> HIDE DEF e, c
<1>6. c \in BackingStates /\ c.entry = e
  BY <1>1, <1>4, <1>5 DEF BackingStates
<1>7. SameTiers(b, c)
  BY <1>3, <1>5, <1>6 DEF SameTiers
<1>8. ASSUME NEW s \in S PROVE c.entry[s].busy <=> InUse(m, s)
  <2>1. c.entry[s] = x(s)
    BY <1>2, <1>5, <1>6
  <2>2. c.entry[s].busy = (m.logical[s] # 0 \/ Busy(m, R(s)))
    BY <1>3, <2>1
  <2>3. (\E r \in HealthyBacking(m, s) : Busy(m, r)) <=> Busy(m, R(s))
    BY <1>2
  <2> QED
    BY <2>2, <2>3, Zenon DEF InUse
<1> QED
  BY <1>6, <1>7, <1>8 DEF c

(* What synchronize_busy() leaves, whether it raises or not.               *)
LEMMA SynchronizedIs ==
    ASSUME NEW b \in BackingStates, NEW m, NEW c \in Synchronized(b, m)
    PROVE  /\ c \in BackingStates /\ SameTiers(b, c)
           /\ InSync(b, m) => \A s \in Kept(b) : c.entry[s].busy <=> InUse(m, s)
<1> DEFINE agree == {s \in Kept(b) : Agrees(s, m, b)}
<1>1. PICK S \in (IF InSync(b, m) THEN {agree} ELSE SUBSET agree) : c = Refreshed(b, m, S)
  BY DEF Synchronized
<1>2. S \subseteq agree /\ (InSync(b, m) => S = Kept(b))
  BY DEF InSync
<1>3. /\ c \in BackingStates /\ SameTiers(b, c)
      /\ \A s \in S : c.entry[s].busy <=> InUse(m, s)
  BY <1>1, <1>2, RefreshedIs
<1> QED
  BY <1>2, <1>3

(***************************************************************************)
(* The steps of the coordinator.                                           *)
(***************************************************************************)
(* Nothing is stored, leased or migrated at first.                         *)
LEMMA CoordinatorStarts ==
    ASSUME BackingInit
    PROVE  Coordinated(mgr, backing, tickets)
<1>1. mgr = [source |-> [s \in Sources |-> "absent"], logical |-> [s \in Sources |-> 0],
             life |-> [r \in Replicas |-> "absent"], backing |-> [r \in Replicas |-> FALSE],
             placement |-> [r \in Replicas |-> 0], refs |-> [r \in Replicas |-> 0],
             copies |-> [r \in Replicas |-> 0], execs |-> [r \in Replicas |-> 0],
             lease |-> <<>>,
             frozen |-> [o \in Owners |-> [g \in Segments |-> NoSource]]]
  BY DEF BackingInit, NewManager
<1>2. RegistryRecord(mgr)
  BY <1>1 DEF RegistryRecord
<1>3. RegistryTyped(mgr)
  BY <1>1, <1>2 DEF RegistryTyped, ReplicaStates
<1>4. \A s \in Sources : HealthyBacking(mgr, s) = {}
  BY <1>1 DEF HealthyBacking
<1>5. backing = [entry |-> [s \in Sources |-> NoEntry], clock |-> 0]
  BY DEF BackingInit, NewBacking
<1>6. NoEntry \in Entries /\ NoEntry.tier = Nowhere
  BY DEF Entries, NoEntry
<1>7. backing \in BackingStates
  BY <1>5, <1>6 DEF BackingStates
<1>8. Kept(backing) = {}
  BY <1>5, <1>6 DEF Kept
<1> QED
  BY <1>3, <1>4, <1>7, <1>8
  DEF Coordinated, BackingInit, AtMostOne, AllBacked, OnePerSource

(* What access() and register() keep of the entries.                       *)
LEMMA AccessKeeps ==
    ASSUME BackingNumbers(Sources), NEW b \in BackingStates, NEW s \in Kept(b),
           NEW c \in AccessBacking(b, s)
    PROVE  c \in BackingStates /\ Kept(c) \subseteq Kept(b)
<1>0. s \in Sources
  BY DEF Kept
<1>1. c \in BackingStates
  BY <1>0, AccessIs
<1>2. ASSUME NEW k \in Sources, k \notin Kept(b) PROVE k \notin Kept(c)
  <2>1. b.entry[k].tier = Nowhere /\ k # s
    BY <1>2 DEF Kept
  <2>2. CASE c = RecordRequestUse(b, s)
    <3>1. SameEntry(b, c, k)
      BY <1>0, <2>1, <2>2, UseIs
    <3> QED
      BY <2>1, <3>1 DEF SameEntry, Kept
  <2>3. ASSUME NEW u, NEW r, Promotes(b, s, u, r, c) PROVE k \notin Kept(c)
    <3>1. u = RecordRequestUse(b, s) /\ Relieves(u, r, {s}) /\ c = Moved(r, s, "cpu")
      BY <2>3 DEF Promotes
    <3>2. SameEntry(b, u, k)
      BY <1>0, <2>1, <3>1, UseIs
    <3>3. r \in BackingStates /\ (SameEntry(u, r, k) \/ GaveWay(u, r, {s}, k))
      BY <3>1 DEF Relieves
    <3>4. MovesTo(r, c, s, "cpu")
      BY <1>0, <3>1, <3>3, MoveOne DEF BackingTiers
    <3>5. SameEntry(r, c, k)
      BY <2>1, <3>4 DEF MovesTo
    <3>6. u.entry[k].tier = Nowhere
      BY <2>1, <3>2 DEF SameEntry
    <3>7. ~GaveWay(u, r, {s}, k)
      BY <3>6 DEF GaveWay, BackingTiers, Nowhere
    <3> QED
      BY <3>3, <3>5, <3>6, <3>7 DEF SameEntry, Kept
  <2> QED
    BY <1>0, <2>2, <2>3, AccessIs
<1> QED
  BY <1>1, <1>2 DEF Kept

(* A new entry is the only one that register() adds.                       *)
LEMMA EntryKeeps ==
    ASSUME BackingNumbers(Sources), NEW b \in BackingStates, NEW s \in Sources,
           NEW inUse \in BOOLEAN, NEW q \in Replicas \cup {NoReplica},
           NEW c \in RegisterBacking(b, s, inUse, q)
    PROVE  c \in BackingStates /\ Kept(c) \subseteq Kept(b) \cup {s}
<1>1. c \in BackingStates
  BY RegisterIs
<1>2. PICK r : Enters(b, s, r, c)
  BY RegisterIs
<1>3. ASSUME NEW k \in Sources, k # s, k \notin Kept(b) PROVE k \notin Kept(c)
  <2>1. b.entry[k].tier = Nowhere
    BY <1>3 DEF Kept
  <2>2. ~GaveWay(b, r, {s}, k)
    BY <2>1 DEF GaveWay, BackingTiers, Nowhere
  <2>3. SameEntry(b, r, k)
    BY <1>2, <2>2 DEF Enters, Relieves
  <2>4. SameEntry(r, c, k)
    BY <1>2, <1>3 DEF Enters
  <2> QED
    BY <2>1, <2>3, <2>4 DEF SameEntry, Kept
<1> QED
  BY <1>1, <1>3 DEF Kept

(* Entries on the same tiers are the same entries.                         *)
LEMMA SameKept ==
    ASSUME NEW b, NEW c, SameTiers(b, c)
    PROVE  Kept(c) = Kept(b)
BY DEF SameTiers, Kept

EntryMoved(b, s, tier, r) ==
    [b EXCEPT !.entry[s].tier = tier, !.entry[s].replica = r]

(* finish_backing_migration writes where an entry went.                    *)
LEMMA MovedEntry ==
    ASSUME NEW b \in BackingStates, NEW s \in Kept(b), NEW tier \in BackingTiers,
           NEW r \in Replicas
    PROVE  LET c == EntryMoved(b, s, tier, r)
           IN  c \in BackingStates /\ Kept(c) = Kept(b)
<1> DEFINE x == [b.entry[s] EXCEPT !.tier = tier]
           y == [x EXCEPT !.replica = r]
           e1 == [b.entry EXCEPT ![s] = x]
           e == [e1 EXCEPT ![s] = y]
           c == EntryMoved(b, s, tier, r)
<1>0. s \in Sources
  BY DEF Kept
<1>1. b = [entry |-> b.entry, clock |-> b.clock] /\ b.clock \in Nat
      /\ b.entry \in [Sources -> Entries] /\ b.entry[s] \in Entries
  BY <1>0 DEF BackingStates
<1>2. x \in Entries /\ x.tier = tier
  BY <1>1 DEF Entries
<1>3. e1 \in [Sources -> Entries] /\ e1[s] = x
      /\ \A k \in Sources : k # s => e1[k] = b.entry[k]
  BY <1>0, <1>1, <1>2
<1>4. c = [b EXCEPT !.entry = e]
  BY <1>0, <1>1 DEF EntryMoved
<1> HIDE DEF x
<1>5. y \in Entries /\ y.tier = tier
  BY <1>2 DEF Entries
<1> HIDE DEF y, e1
<1>6. e \in [Sources -> Entries] /\ e[s] = y
      /\ \A k \in Sources : k # s => e[k] = b.entry[k]
  BY <1>0, <1>3, <1>5
<1> HIDE DEF e, c
<1>7. c = [entry |-> e, clock |-> b.clock]
  BY <1>1, <1>4
<1>8. c \in BackingStates /\ c.entry = e
  BY <1>1, <1>6, <1>7 DEF BackingStates
<1>9. tier # Nowhere
  BY DEF BackingTiers, Nowhere
<1> QED
  BY <1>5, <1>6, <1>8, <1>9 DEF Kept, c

(* Every step of the coordinator keeps what the registry, the entries and  *)
(* the tickets keep together.                                              *)
LEMMA CoordinatorStep ==
    ASSUME BackingNumbers(Sources), Coordinated(mgr, backing, tickets), BackingNext
    PROVE  Coordinated(mgr', backing', tickets')
<1>0. /\ RegistryTyped(mgr) /\ backing \in BackingStates /\ tickets \subseteq Tickets
      /\ SameBackings(mgr, mgr)
  BY DEF Coordinated, SameBackings
<1>1. ASSUME Synchronize PROVE Coordinated(mgr', backing', tickets')
  <2>1. backing' \in BackingStates /\ SameTiers(backing, backing')
    BY <1>0, <1>1, SynchronizedIs DEF Synchronize
  <2>2. Kept(backing') = Kept(backing)
    BY <2>1, SameKept
  <2>3. Coordinated(mgr, backing', tickets)
    BY <1>0, <2>1, <2>2, BackingsUntouched
  <2> QED
    BY <1>1, <2>3 DEF Synchronize
<1>2. ASSUME NEW s \in Sources, Access(s) PROVE Coordinated(mgr', backing', tickets')
  <2>1. PICK b \in Synchronized(backing, mgr) : backing' \in AccessBacking(b, s)
    BY <1>2 DEF Access
  <2>2. b \in BackingStates /\ Kept(b) = Kept(backing)
    BY <1>0, <2>1, SynchronizedIs, SameKept
  <2>3. s \in Kept(b)
    BY <1>2, <2>2 DEF Access
  <2>4. backing' \in BackingStates /\ Kept(backing') \subseteq Kept(backing)
    BY <2>1, <2>2, <2>3, AccessKeeps
  <2>5. Coordinated(mgr, backing', tickets)
    BY <1>0, <2>4, BackingsUntouched
  <2> QED
    BY <1>2, <2>5 DEF Access
<1>3. ASSUME NEW s \in Sources, NEW inUse \in BOOLEAN, Register(s, inUse)
      PROVE  Coordinated(mgr', backing', tickets')
  <2>1. PICK r \in Replicas :
           /\ HealthyBacking(mgr, s) = {r}
           /\ \E b \in RegisterBacking(backing, s, inUse, r) :
                IF b.entry[s].tier = TierOf[r]
                THEN backing' \in Synchronized(b, mgr)
                ELSE backing' = Dropped(b, {s})
    BY <1>3 DEF Register
  <2>2. PICK b \in RegisterBacking(backing, s, inUse, r) :
           IF b.entry[s].tier = TierOf[r]
           THEN backing' \in Synchronized(b, mgr)
           ELSE backing' = Dropped(b, {s})
    BY <2>1
  <2>3. b \in BackingStates /\ Kept(b) \subseteq Kept(backing) \cup {s}
    BY <1>0, <2>2, EntryKeeps
  <2>4. CASE backing' \in Synchronized(b, mgr)
    <3>1. backing' \in BackingStates /\ Kept(backing') = Kept(b)
      BY <2>3, <2>4, SynchronizedIs, SameKept
    <3>2. Coordinated(mgr, backing', tickets)
      BY <1>0, <2>1, <2>3, <3>1, BackingsUntouched
    <3> QED
      BY <1>3, <3>2 DEF Register
  <2>5. CASE backing' = Dropped(b, {s})
    <3>1. backing' \in BackingStates
      BY <2>3, <2>5, DropOne
    <3>2. backing'.entry[s] = NoEntry /\ \A k \in Sources : k # s => SameEntry(b, backing', k)
      BY <2>3, <2>5, DropOne
    <3>3. Kept(backing') \subseteq Kept(b)
      BY <3>2 DEF Kept, NoEntry, SameEntry
    <3>4. Coordinated(mgr, backing', tickets)
      BY <1>0, <2>1, <2>3, <3>1, <3>3, BackingsUntouched
    <3> QED
      BY <1>3, <3>4 DEF Register
  <2> QED
    BY <2>2, <2>4, <2>5
<1>4. ASSUME NEW r \in Replicas, StoreBacking(r) PROVE Coordinated(mgr', backing', tickets')
  <2> DEFINE m == RegisterSource(mgr, SourceOf[r])
  <2>1. /\ HealthyBacking(mgr, SourceOf[r]) = {} /\ CanRegisterReplica(m, r, TRUE)
        /\ mgr' = RegisterReplica(m, r, TRUE, "ready")
        /\ UNCHANGED <<backing, tickets>>
    BY <1>4 DEF StoreBacking
  <2>2. RegistryTyped(m) /\ SameBackings(mgr, m)
    BY <1>0, SourceIs
  <2> HIDE DEF m
  <2>3. RegistryTyped(mgr') /\ Placed(m, mgr', r, TRUE, "ready")
    <3>1. "ready" \in ReplicaStates /\ TRUE \in BOOLEAN
      BY DEF ReplicaStates
    <3> QED
      BY <2>1, <2>2, <3>1, ReplicaIs
  <2>4. Placed(mgr, mgr', r, TRUE, "ready")
    BY <2>2, <2>3 DEF Placed, SameBackings
  <2>5. ~Present(mgr, r)
    <3>1. ~Present(m, r)
      BY <2>1 DEF CanRegisterReplica
    <3> QED
      BY <2>2, <3>1 DEF Present, SameBackings
  <2>6. Coordinated(mgr', backing, tickets)
    BY <2>1, <2>3, <2>4, <2>5, StoreKeeps
  <2> QED
    BY <2>1, <2>6
<1>5. ASSUME NEW r \in Replicas, Evict(r) PROVE Coordinated(mgr', backing', tickets')
  <2>1. /\ SourceOf[r] \notin Kept(backing) /\ ~Busy(mgr, r) /\ mgr.life[r] = "ready"
        /\ mgr' = EvictReplica(mgr, r) /\ UNCHANGED <<backing, tickets>>
    BY <1>5 DEF Evict, CanEvictReplica
  <2>2. Coordinated(EvictReplica(mgr, r), backing, tickets)
    BY <2>1, EvictKeeps
  <2> QED
    BY <2>1, <2>2
<1>6. ASSUME NEW d \in Replicas, BeginMigration(d) PROVE Coordinated(mgr', backing', tickets')
  <2> DEFINE e == RegisterReplica(mgr, d, FALSE, "allocating")
  <2> DEFINE Begun(old) ==
               /\ HealthyBacking(mgr, SourceOf[d]) = {old} /\ ~Busy(mgr, old)
               /\ CanRegisterReplica(mgr, d, FALSE)
               /\ mgr' = CopyCounted(e, old, d)
               /\ tickets' = tickets \cup {Ticket(SourceOf[d], old, d)}
  <2>0. \E old \in Replicas : Begun(old)
    BY <1>6, Zenon DEF BeginMigration, Ticket, CopyCounted
  <2>1. PICK old \in Replicas : Begun(old)
    BY <2>0
  <2>2. RegistryTyped(e) /\ Placed(mgr, e, d, FALSE, "allocating")
    <3>1. "allocating" \in ReplicaStates /\ FALSE \in BOOLEAN
      BY DEF ReplicaStates
    <3> QED
      BY <1>0, <3>1, ReplicaIs
  <2>3. TierOf[d] \in BackingTiers
    <3>1. SourceOf[d] \in Kept(backing) /\ backing.entry[SourceOf[d]].tier = TierOf[d]
      BY <1>6 DEF BeginMigration
    <3>2. /\ SourceOf[d] \in Sources /\ backing.entry[SourceOf[d]].tier # Nowhere
      BY <3>1 DEF Kept
    <3> QED
      BY <1>0, <3>1, <3>2, EntryTyped
  <2>4. ~Present(mgr, d)
    BY <2>1 DEF CanRegisterReplica
  <2> HIDE DEF e
  <2>5. Coordinated(CopyCounted(e, old, d), backing, tickets \cup {Ticket(SourceOf[d], old, d)})
    BY <2>1, <2>2, <2>3, <2>4, BeginKeeps
  <2>6. backing' = backing
    BY <1>6 DEF BeginMigration
  <2> QED
    BY <2>1, <2>5, <2>6
<1>7. ASSUME NEW t \in tickets PROVE
        /\ t \in Tickets /\ t.old # t.destination
        /\ RegistryTyped(CopyReturned(t))
        /\ CopyReturned(t).life = mgr.life /\ CopyReturned(t).backing = mgr.backing
        /\ \A q \in Replicas \ {t.old, t.destination} : CopyReturned(t).copies[q] = mgr.copies[q]
  <2>1. t \in Tickets /\ Held(mgr, t)
    BY DEF Coordinated
  <2>2. t.old # t.destination
    BY <2>1, TicketTypes
  <2>3. CopyReturned(t) = GivenBack(mgr, t)
    BY DEF CopyReturned, GivenBack
  <2> QED
    BY <1>0, <2>1, <2>2, <2>3, ReturnedIs
<1>8. ASSUME NEW t \in tickets, CopyFailed(t) PROVE Coordinated(mgr', backing', tickets')
  <2> DEFINE e == CopyReturned(t)
  <2>1. /\ mgr' = [e EXCEPT !.life[t.destination] = "deleted"]
        /\ tickets' = tickets \ {t} /\ backing' = backing
    BY <1>8 DEF CopyFailed
  <2>2. /\ RegistryTyped(e) /\ e.life = mgr.life /\ e.backing = mgr.backing
        /\ \A q \in Replicas \ {t.old, t.destination} : e.copies[q] = mgr.copies[q]
    BY <1>7
  <2> HIDE DEF e
  <2>3. Finished(mgr, mgr', t) /\ HealthyBacking(mgr', t.source) = {t.old}
    BY <2>1, <2>2, FailedIs
  <2> QED
    BY <1>0, <2>1, <2>3, MigrationKeeps
<1>9. ASSUME NEW t \in tickets, CopyVerified(t) PROVE Coordinated(mgr', backing', tickets')
  <2> DEFINE e == CopyReturned(t)
             moved == EntryMoved(backing, t.source, TierOf[t.destination], t.destination)
  <2>1. /\ mgr' = Published(t) /\ tickets' = tickets \ {t}
        /\ IF t.source \in Kept(backing) THEN backing' \in Synchronized(moved, mgr')
           ELSE backing' = backing
    BY <1>9 DEF CopyVerified, EntryMoved
  <2>2. /\ RegistryTyped(e) /\ e.life = mgr.life /\ e.backing = mgr.backing
        /\ \A q \in Replicas \ {t.old, t.destination} : e.copies[q] = mgr.copies[q]
    BY <1>7
  <2>3. mgr' = Swapped(e, t, mgr.placement[t.old])
    BY <2>1 DEF Published, Swapped
  <2>4. Finished(mgr, mgr', t) /\ HealthyBacking(mgr', t.source) = {t.destination}
    <3> HIDE DEF e
    <3> QED
      BY <2>2, <2>3, PublishedIs
  <2>5. CASE t.source \notin Kept(backing)
    BY <1>0, <2>1, <2>4, <2>5, MigrationKeeps
  <2>6. CASE t.source \in Kept(backing)
    <3>1. t \in Tickets /\ Held(mgr, t)
      BY DEF Coordinated
    <3>2. t.source \in Sources /\ t.destination \in Replicas /\ TierOf[t.destination] \in BackingTiers
      BY <3>1, TicketTypes DEF Held
    <3>3. moved \in BackingStates /\ Kept(moved) = Kept(backing)
      BY <1>0, <2>6, <3>2, MovedEntry
    <3> HIDE DEF moved
    <3>4. backing' \in BackingStates /\ Kept(backing') = Kept(backing)
      BY <2>1, <2>6, <3>3, SynchronizedIs, SameKept
    <3> QED
      BY <2>1, <2>4, <3>4, MigrationKeeps
  <2> QED
    BY <2>5, <2>6
<1>10. ASSUME NEW o \in Owners, NEW g \in Segments, NEW s \in Sources, Freeze(o, g, s)
       PROVE  Coordinated(mgr', backing', tickets')
  <2>1. mgr' = FreezeAndAcquireLogical(mgr, o, g, s, 0, 0) /\ UNCHANGED <<backing, tickets>>
    BY <1>10 DEF Freeze
  <2>2. RegistryTyped(mgr') /\ SameBackings(mgr, mgr')
    BY <1>0, <2>1, FreezeIs
  <2>3. Coordinated(mgr', backing, tickets)
    BY <1>0, <2>2, BackingsUntouched
  <2> QED
    BY <2>1, <2>3
<1>11. ASSUME NEW o \in Owners, NEW g \in Segments, NEW r \in Replicas, Lease(o, g, r)
       PROVE  Coordinated(mgr', backing', tickets')
  <2> DEFINE q == [segment |-> g, source |-> SourceOf[r], replica |-> r,
                   placement |-> mgr.placement[r], purpose |-> "execution"]
  <2>1. mgr' = LeaseBatch(mgr, o, <<q>>, 0, 0) /\ UNCHANGED <<backing, tickets>>
    BY <1>11 DEF Lease
  <2>2. /\ q.segment \in Segments /\ q.source \in Sources /\ q.replica \in Replicas
        /\ q.purpose = "execution"
    BY PoolShape
  <2> HIDE DEF q
  <2>3. RegistryTyped(mgr') /\ SameBackings(mgr, mgr')
    BY <1>0, <2>1, <2>2, LeaseIs
  <2>4. Coordinated(mgr', backing, tickets)
    BY <1>0, <2>3, BackingsUntouched
  <2> QED
    BY <2>1, <2>4
<1>12. ASSUME NEW l \in DOMAIN mgr.lease, ReleaseLease(l)
       PROVE  Coordinated(mgr', backing', tickets')
  <2>1. mgr' = Release(mgr, l, "request") /\ UNCHANGED <<backing, tickets>>
    BY <1>12 DEF ReleaseLease
  <2>2. "request" \in Reasons
    BY DEF Reasons
  <2>3. RegistryTyped(mgr') /\ SameBackings(mgr, mgr')
    BY <1>0, <2>1, <2>2, ReleaseIs
  <2>4. Coordinated(mgr', backing, tickets)
    BY <1>0, <2>3, BackingsUntouched
  <2> QED
    BY <2>1, <2>4
<1> QED
  BY <1>1, <1>2, <1>3, <1>4, <1>5, <1>6, <1>8, <1>9, <1>10, <1>11, <1>12 DEF BackingNext

(* The claims that follow.                                                 *)
LEMMA CoordinatedHolds ==
    ASSUME Coordinated(mgr, backing, tickets)
    PROVE  OneBacking /\ TicketsHold
<1>1. ASSUME NEW s \in Sources PROVE Cardinality(HealthyBacking(mgr, s)) <= 1
  <2>1. CASE HealthyBacking(mgr, s) = {}
    <3>1. Cardinality({}) = 0
      BY FS_EmptySet
    <3> QED
      BY <2>1, <3>1
  <2>2. CASE HealthyBacking(mgr, s) # {}
    <3>1. PICK r : r \in HealthyBacking(mgr, s)
      BY <2>2
    <3>2. HealthyBacking(mgr, s) = {r}
      BY <3>1 DEF Coordinated, AtMostOne
    <3>3. Cardinality({r}) = 1
      BY FS_Singleton
    <3> QED
      BY <3>2, <3>3
  <2> QED
    BY <2>1, <2>2
<1>2. OneBacking
  BY <1>1 DEF OneBacking, Coordinated, AllBacked
<1>3. TicketsHold
  BY DEF TicketsHold, Coordinated, Held
<1> QED
  BY <1>2, <1>3

(* What access() displaces is in no use, for it synchronizes first.        *)
LEMMA AccessIsSparing ==
    ASSUME BackingNumbers(Sources), Coordinated(mgr, backing, tickets)
    PROVE  AccessSpares
<1>0. backing \in BackingStates
  BY DEF Coordinated
<1> SUFFICES ASSUME NEW s \in Sources, Access(s), NEW v \in VictimsOf PROVE ~SourceBusy(v)
  BY DEF AccessSpares
<1>1. PICK b \in Synchronized(backing, mgr) : backing' \in AccessBacking(b, s)
  BY DEF Access
<1>2. /\ b \in BackingStates /\ SameTiers(backing, b) /\ Kept(b) = Kept(backing)
      /\ \A k \in Kept(backing) : b.entry[k].busy <=> InUse(mgr, k)
  BY <1>0, <1>1, SynchronizedIs, SameKept DEF Access
<1>3. /\ v \in Kept(backing) /\ v \in Sources
      /\ \/ backing'.entry[v].tier = Nowhere
         \/ backing.entry[v].tier = "cpu" /\ backing'.entry[v].tier = "ssd"
  BY DEF VictimsOf, Kept
<1> DEFINE t == b.entry[v].tier
<1>4. t = backing.entry[v].tier /\ t \in BackingTiers
  <2>1. t = backing.entry[v].tier
    BY <1>2, <1>3 DEF SameTiers
  <2>2. t # Nowhere
    BY <1>3, <2>1 DEF Kept
  <2> QED
    BY <1>2, <1>3, <2>1, <2>2, EntryTyped
<1>5. LosesEntry(b, backing', v, t)
  BY <1>3, <1>4 DEF LosesEntry
<1>6. CASE backing' = RecordRequestUse(b, s)
  <2>1. backing'.entry[v].tier = t
    BY <1>2, <1>3, <1>6, UseIs DEF SameEntry
  <2> QED
    BY <1>4, <1>5, <2>1 DEF LosesEntry, BackingTiers, Nowhere
<1>7. ASSUME NEW u, NEW r, Promotes(b, s, u, r, backing') PROVE ~SourceBusy(v)
  <2>1. LosesOldest(b, backing')
    BY <1>2, <1>7, AccessLoses
  <2>2. ~b.entry[v].busy
    BY <1>3, <1>4, <1>5, <2>1 DEF LosesOldest, LosesFirst
  <2>3. ~InUse(mgr, v)
    BY <1>2, <1>3, <2>2
  <2> QED
    BY <2>3, Zenon DEF InUse, SourceBusy
<1> QED
  BY <1>1, <1>2, <1>6, <1>7, AccessIs

(* Through begun, failed, published and abandoned migrations, whatever is  *)
(* leased meanwhile, a Source has at most one healthy backing, one whose   *)
(* entry is kept exactly one, and a ticket stays valid until it is         *)
(* finished; and access() displaces no Source that is leased, copied or    *)
(* executed; for any Sources, Replicas, owners and bounds.                 *)
THEOREM CoordinatorSound ==
    ASSUME BackingNumbers(Sources)
    PROVE  BackingSpec => CoordinatorHolds
<1>1. BackingInit => Coordinated(mgr, backing, tickets)
  BY CoordinatorStarts
<1>2. Coordinated(mgr, backing, tickets) /\ [BackingNext]_backingVars
      => Coordinated(mgr, backing, tickets)'
  BY CoordinatorStep DEF backingVars
<1>3. Coordinated(mgr, backing, tickets) => OneBacking /\ TicketsHold
  BY CoordinatedHolds
<1>4. Coordinated(mgr, backing, tickets) => AccessSpares
  BY AccessIsSparing
<1> QED
  BY <1>1, <1>2, <1>3, <1>4, PTL DEF BackingSpec, CoordinatorHolds, AccessSparesBusy

=============================================================================
