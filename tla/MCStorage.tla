----------------------------- MODULE MCStorage -----------------------------
(* Five parts that hold Sources, in one run; each behaviour exercises one: *)
(* the Source pool, the authorizer of full-KV transfers, the coordinator   *)
(* of backing Replicas, the LRU policy it applies, and the orchestrator of *)
(* schema 5 over a lease manager.                                          *)
EXTENDS SourcePool, TransferAuthorizer, RequestOrchestrator, BackingCoordinator, TLC

CONSTANTS Parts, va, vb, vc, m1, m2, k1, cpu, gpu, Capacity, Large,
          g1, g2, s1, s2, s3, s4, r1, r2, r3, r4, r5, r6, r7

VARIABLE part

-----------------------------------------------------------------------------
(* The pool: all Variants are of one content of model m1, and m2 is there  *)
(* to switch to.                                                           *)
MCModelOf    == k1 :> m1
MCContentOf  == [v \in Variants |-> k1]
MCBytesOf    == [v \in Variants |-> IF v \in Large THEN 2 ELSE 1]
MCCapacityOf == [t \in PoolTiers |-> IF t = gpu THEN 1 ELSE Capacity]

(* Three explorations in one: decisions that race each other, switches of  *)
(* the model, and the tiers, where a decision meets the use of a Replica.  *)
Racing    == namespace[m2] = "unknown" /\ \A v \in InPool(variant) : ~variant[v].artifact
Switching == Cardinality(decisions) <= 1 /\ \A v \in InPool(variant) : ~variant[v].artifact
Placing   == /\ namespace[m2] = "unknown" /\ used = accessed
             /\ \A v \in InPool(variant) : variant[v].window = 0
             /\ \A v \in InPool(variant) : variant[v].reason = "content_miss"
             /\ \A d \in decisions : d.reason = "mismatch" /\ d.source \notin InPool(variant)
             /\ Cardinality(decisions) <= 1 /\ InFlight <= 1 + Cardinality(decisions)
             /\ Cardinality({v \in InPool(variant) : variant[v].stats.lookups > 0}) <= 1
Symmetric == Permutations(Variants \ Large)
-----------------------------------------------------------------------------
(* The other parts share their Sources and Replicas.  Source s1 has a CPU  *)
(* and a GPU Replica and two ids on SSD, s2 a CPU and an SSD one, s4 a CPU *)
(* one; s3 is never stored.                                                *)
Four == {s1, s2, s3, s4}
FourNamespace == [s \in Four |-> "model"]
Copies == {r1, r2, r3, r4, r5, r6, r7}
CopyOf == [r \in Copies |-> IF r \in {r3, r6} THEN s2 ELSE IF r = r7 THEN s4 ELSE s1]
CopyTier == [r \in Copies |-> IF r = r2 THEN "gpu" ELSE IF r \in {r4, r5, r6} THEN "ssd" ELSE "cpu"]
CopySize == [r \in Copies |-> IF r = r2 THEN 2 ELSE 1]
ThreeRequests == 1..3
TwoSegments == {g1, g2}
Moving == {r1, r2, r3}   \* what is transferred to the GPU, and what matches

(* Transfers: three authorizations share an HBM that holds the copies of   *)
(* two.                                                                    *)
Transferred ==
    /\ \A r \in Copies \ Moving : ledger.life[r] = "absent"
    /\ \A s \in {s3, s4} : ledger.source[s] = "absent"

(* The orchestrator: g2 matches s2 alone; of the three requests one has    *)
(* two segments and one has none.                                          *)
FirstSecond == (g1 :> 1) @@ (g2 :> 2)
RequestSegments == (1 :> TwoSegments) @@ (2 :> {g1}) @@ (3 :> {})
Matching == (g1 :> Moving) @@ (g2 :> {r3})

(* The policy: a CPU tier of three units and an SSD tier of two, so that   *)
(* s4 is too large to demote.                                              *)
FourBytes == (s1 :> 1) @@ (s2 :> 2) @@ (s3 :> 1) @@ (s4 :> 3)
FourRank == (s1 :> 1) @@ (s2 :> 2) @@ (s3 :> 3) @@ (s4 :> 4)
ThreeTwo == [t \in BackingTiers |-> IF t = "cpu" THEN 3 ELSE 2]

(* The coordinator, in two explorations: s1 goes between the tiers and     *)
(* back while s4 takes the CPU and leaves it, and a request leases s1 and  *)
(* its Replicas; and s1 and s2 migrate at the same time, without requests. *)
(* A third use of the policy only where both agree.                        *)
Leasing == mgr.source[s2] = "absent"
Crossing == mgr.lease = <<>>
Coordinating ==
    /\ mgr.life[r2] = "absent" /\ mgr.source[s3] = "absent"
    /\ \A l \in DOMAIN mgr.lease :
          mgr.lease[l].owner = 1 /\ mgr.lease[l].segment = g1 /\ mgr.lease[l].source = s1
    /\ (backing.clock < MaxClock /\ (Leasing \/ Crossing)) \/ (Leasing /\ Crossing)

(* What StorageProofs assumes of the numbers.                              *)
ASSUME BackingNumbers(Sources)

OneOfThem ==
    /\ part = "pool" => Racing \/ Switching \/ Placing
    /\ part = "transfer" => Transferred
    /\ part = "registry" => Coordinating

-----------------------------------------------------------------------------
(* What the parts that rest look like: as much of a state as the           *)
(* invariants read.                                                        *)
NoPool ==
    /\ namespace = <<>> /\ variant = [v \in Variants |-> NotStored]
    /\ registered = {} /\ accessed = {} /\ used = {} /\ decisions = {}

NoTransfers ==
    LET zero == [r \in Replicas |-> 0]
    IN  /\ records = <<>> /\ memory = EmptyHbm /\ auth = [o \in Owners |-> "unused"]
        /\ ledger = [refs |-> zero, copies |-> zero, execs |-> zero]

NoRequests ==
    /\ pool = [lease |-> <<>>] /\ option = <<>>
    /\ loop = [o \in Owners |-> Idle]

NoEntries == [entry |-> [s \in Sources |-> [tier |-> Nowhere]], clock |-> MaxClock]

NoMigrations ==
    /\ mgr = [life |-> [r \in Replicas |-> "absent"], backing |-> [r \in Replicas |-> FALSE]]
    /\ backing = NoEntries /\ tickets = {}

StorageInit ==
    /\ part \in Parts
    /\ IF part = "pool" THEN Init ELSE NoPool
    /\ IF part = "transfer" THEN AuthorizerInit ELSE NoTransfers
    /\ IF part = "orchestrator" THEN OrchestratorInit ELSE NoRequests
    /\ IF part = "registry" THEN BackingInit ELSE NoMigrations
    /\ IF part = "policy" THEN PolicyInit ELSE policy = NoEntries

StorageNext ==
    \/ /\ part = "pool" /\ Next
       /\ UNCHANGED <<part, authorizerVars, orchestratorVars, backingVars, policy>>
    \/ /\ part = "transfer" /\ AuthorizerNext
       /\ UNCHANGED <<part, vars, orchestratorVars, backingVars, policy>>
    \/ /\ part = "orchestrator" /\ OrchestratorNext
       /\ UNCHANGED <<part, vars, authorizerVars, backingVars, policy>>
    \/ /\ part = "registry" /\ BackingNext
       /\ UNCHANGED <<part, vars, authorizerVars, orchestratorVars, policy>>
    \/ /\ part = "policy" /\ PolicyNext
       /\ UNCHANGED <<part, vars, authorizerVars, orchestratorVars, backingVars>>

StorageSpec ==
    StorageInit /\
    [][StorageNext]_<<part, vars, authorizerVars, orchestratorVars, backingVars, policy>>
=============================================================================
