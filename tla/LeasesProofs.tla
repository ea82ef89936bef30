---------------------------- MODULE LeasesProofs ----------------------------
(***************************************************************************)
(* The theorems of the lease manager, for every number of requests,        *)
(* segments, Source Variants, Replicas and leases and every ttl_floor_s    *)
(* and orphan_grace_s.  The inductive invariant IInv is what the manager's *)
(* operators keep (LeaseOpsProofs), said of the manager's state.           *)
(***************************************************************************)
EXTENDS Leases, RequestOrchestrator, LeaseOpsProofs, FoldLemmas

(***************************************************************************)
(* The invariance theorems.                                                *)
(***************************************************************************)
IInv == Good(mgr) /\ Timely(mgr) /\ now \in Nat

(* The empty manager of __init__ (v8_leases.py:116) satisfies the invariant.*)
LEMMA InitIInv == Init => IInv
<1> SUFFICES ASSUME Init PROVE IInv
  OBVIOUS
<1>1. mgr = EmptyManager /\ now = 0
  BY DEF Init
<1>2. /\ mgr.source = [s \in Sources |-> "absent"]
      /\ mgr.logical = [s \in Sources |-> 0]
      /\ mgr.refs = [r \in Replicas |-> 0] /\ mgr.copies = [r \in Replicas |-> 0]
      /\ mgr.execs = [r \in Replicas |-> 0]
      /\ mgr.lease = <<>>
  BY <1>1 DEF EmptyManager, NewManager
<1>3. mgr \in ManagerStates
  BY <1>1 DEF EmptyManager, NewManager, ManagerStates, SourceStates, ReplicaStates
<1>4. DOMAIN mgr.lease = {} /\ Live(mgr) = {}
  BY <1>2 DEF Live
<1>5. CountersMatch(mgr)
  <2>1. /\ \A s \in Sources : LogicalHolders(mgr, s) = {}
        /\ \A r \in Replicas : /\ Holders(mgr, r) = {} /\ Copiers(mgr, r) = {}
                               /\ Executors(mgr, r) = {}
    BY <1>4 DEF LogicalHolders, Holders, Copiers, Executors
  <2>2. /\ \A s \in Sources : Cardinality(LogicalHolders(mgr, s)) = 0
        /\ \A r \in Replicas : /\ Cardinality(Holders(mgr, r)) = 0
                               /\ Cardinality(Copiers(mgr, r)) = 0
                               /\ Cardinality(Executors(mgr, r)) = 0
    BY <2>1, FS_EmptySet, Zenon
  <2> QED
    BY <1>2, <2>2 DEF CountersMatch
<1>6. Shape(mgr) /\ LeasesProtect(mgr) /\ Timely(mgr)
  BY <1>4 DEF Shape, LeasesProtect, Timely
<1> QED
  BY <1>1, <1>3, <1>5, <1>6 DEF IInv, Good

(* A batch the requests can ask for is one of the well-typed ones. *)
LEMMA BatchTyped ==
    ASSUME NEW o, NEW k \in 1..MaxBatch,
           NEW reqs \in [1..k -> {q \in Requests : Bindable(mgr, o, q)}]
    PROVE  reqs \in Seq(BatchRequests)
<1>1. k \in Nat
  BY LeaseBounds
<1>2. Requests \subseteq BatchRequests
  <2>1. 1..MaxPlacement \subseteq Nat
    BY LeaseBounds
  <2> QED
    BY <2>1 DEF Requests, BatchRequests, Purposes
<1> QED
  BY <1>1, <1>2

(* Every call of the manager, and every tick, keeps the invariant.         *)
LEMMA NextIInv == IInv /\ [Next]_vars => IInv'
<1> SUFFICES ASSUME IInv, [Next]_vars PROVE IInv'
  OBVIOUS
<1> USE DEF IInv
<1>0. mgr \in ManagerStates
  BY DEF Good
<1>1. CASE Tick
  BY <1>1 DEF Tick
<1>2. ASSUME NEW s \in Sources, DoRegisterSource(s) PROVE IInv'
  <2>1. Good(RegisterSource(mgr, s))
    BY RegisterSourceGood
  <2>2. RegisterSource(mgr, s).lease = mgr.lease
    BY <1>0 DEF RegisterSource, ManagerStates
  <2>3. Timely(RegisterSource(mgr, s))
    BY <2>2 DEF Timely
  <2> QED
    BY <1>2, <2>1, <2>3 DEF DoRegisterSource
<1>3. ASSUME NEW r \in Replicas, NEW b \in BOOLEAN, DoRegisterReplica(r, b, "ready")
      PROVE  IInv'
  <2>1. Good(RegisterReplica(mgr, r, b, "ready"))
    BY <1>3, RegisterReplicaGood DEF DoRegisterReplica
  <2>2. RegisterReplica(mgr, r, b, "ready").lease = mgr.lease
    BY <1>0 DEF RegisterReplica, ManagerStates
  <2>3. Timely(RegisterReplica(mgr, r, b, "ready"))
    BY <2>2 DEF Timely
  <2> QED
    BY <1>3, <2>1, <2>3 DEF DoRegisterReplica
<1>4. ASSUME NEW r \in Replicas, DoEvictReplica(r) PROVE IInv'
  <2>1. Good(EvictReplica(mgr, r))
    BY <1>4, EvictGood DEF DoEvictReplica
  <2>2. EvictReplica(mgr, r).lease = mgr.lease
    BY <1>0 DEF EvictReplica, ManagerStates
  <2>3. Timely(EvictReplica(mgr, r))
    BY <2>2 DEF Timely
  <2> QED
    BY <1>4, <2>1, <2>3 DEF DoEvictReplica
<1>5. ASSUME NEW n, DoPurgeNamespace(n) PROVE IInv'
  <2>1. Good(PurgeNamespace(mgr, n))
    BY <1>5, PurgeGood DEF DoPurgeNamespace
  <2>2. PurgeNamespace(mgr, n).lease = mgr.lease
    BY <1>0 DEF PurgeNamespace, ManagerStates
  <2>3. Timely(PurgeNamespace(mgr, n))
    BY <2>2 DEF Timely
  <2> QED
    BY <1>5, <2>1, <2>3 DEF DoPurgeNamespace
<1>6. ASSUME NEW o \in Owners, NEW g \in Segments, NEW s \in Sources, NEW p \in Remaining,
             DoFreeze(o, g, s, p)
      PROVE  IInv'
  <2>1. p \in Nat
    BY LeaseBounds
  <2>2. Good(FreezeAndAcquireLogical(mgr, o, g, s, p, now))
    BY <1>6, <2>1, FreezeGood DEF DoFreeze
  <2>3. Timely(FreezeAndAcquireLogical(mgr, o, g, s, p, now))
    BY <1>0, <2>1, FreezeTimely
  <2> QED
    BY <1>6, <2>2, <2>3 DEF DoFreeze
<1>7. ASSUME NEW o \in Owners, NEW k \in 1..MaxBatch, NEW p \in Remaining,
             NEW cap \in Capacities,
             NEW reqs \in [1..k -> {q \in Requests : Bindable(mgr, o, q)}],
             DoLeaseBatch(o, reqs, p, cap)
      PROVE  IInv'
  <2>1. p \in Nat /\ reqs \in Seq(BatchRequests)
    BY BatchTyped, LeaseBounds
  <2>2. Good(LeaseBatch(mgr, o, reqs, p, now))
    BY <1>7, <2>1, BatchGood DEF DoLeaseBatch
  <2>3. Timely(LeaseBatch(mgr, o, reqs, p, now))
    BY <1>0, <2>1, BatchTimely
  <2> QED
    BY <1>7, <2>2, <2>3 DEF DoLeaseBatch
<1>8. ASSUME NEW l \in DOMAIN mgr.lease, DoMarkReady(l) PROVE IInv'
  BY <1>8, <1>0, MarkReadyGood, ReadyPromoteTimely DEF DoMarkReady
<1>9. ASSUME NEW l \in DOMAIN mgr.lease, DoPromote(l) PROVE IInv'
  BY <1>9, <1>0, PromoteGood, ReadyPromoteTimely DEF DoPromote
<1>10. ASSUME NEW l \in DOMAIN mgr.lease, DoHeartbeat(l) PROVE IInv'
  BY <1>10, HeartbeatGood DEF DoHeartbeat
<1>11. ASSUME NEW l \in DOMAIN mgr.lease, DoRelease(l) PROVE IInv'
  <2>1. Good(Release(mgr, l, "request")) /\ Timely(Release(mgr, l, "request"))
    BY <1>0, ReleaseGood, ReleaseTimely DEF Release, Reasons
  <2> QED
    BY <1>11, <2>1 DEF DoRelease
<1>12. ASSUME NEW liveOwners \in SUBSET Owners, DoRecoverExpired(liveOwners) PROVE IInv'
  BY <1>12, RecoverGood DEF DoRecoverExpired
<1>13. CASE UNCHANGED vars
  BY <1>13 DEF vars
<1>14. CASE PoolStep
  BY <1>14, <1>2, <1>3, <1>4, <1>5 DEF PoolStep
<1>15. CASE RequestStep
  BY <1>15, <1>6, <1>7, <1>8, <1>9, <1>10, <1>11 DEF RequestStep
<1>16. CASE SweeperStep
  BY <1>16, <1>12 DEF SweeperStep
<1> QED
  BY <1>1, <1>13, <1>14, <1>15, <1>16 DEF Next

(* The inductive invariant holds in every reachable state, for any number  *)
(* of requests, segments, Sources, Replicas and leases.                    *)
THEOREM Invariance == Spec => []IInv
  BY InitIInv, NextIInv, PTL DEF Spec

(* The manager's state is well typed, no counter ever negative: release()  *)
(* never raises its underflow errors (v8_leases.py:343, 354).              *)
THEOREM TypeCorrect == Spec => []TypeOK
<1>1. IInv => TypeOK
  BY DEF IInv, Good, TypeOK
<1> QED
  BY Invariance, <1>1, PTL

(* The refcounts that guard eviction and purge count exactly the live      *)
(* leases, for any number of requests, Replicas and leases.                *)
THEOREM AccountingCorrect == Spec => []Accounting
<1>1. IInv => Accounting
  BY DEF IInv, Good, Accounting
<1> QED
  BY Invariance, <1>1, PTL

(* Eviction, purge, promotion and recovery never take a Replica, or the    *)
(* last backing of a Source, from under a live lease.                      *)
THEOREM ProtectionCorrect == Spec => []Protection
<1>1. IInv => Protection
  BY DEF IInv, Good, Protection
<1> QED
  BY Invariance, <1>1, PTL

(* All leases of one segment of one request name the same Source.          *)
THEOREM FrozenWinnerCorrect == Spec => []FrozenWinner
<1>1. IInv => FrozenWinner
  <2> SUFFICES ASSUME IInv,
                      NEW k \in DOMAIN mgr.lease, NEW l \in DOMAIN mgr.lease,
                      mgr.lease[k].owner = mgr.lease[l].owner,
                      mgr.lease[k].segment = mgr.lease[l].segment
               PROVE  mgr.lease[k].source = mgr.lease[l].source
    BY DEF FrozenWinner, OneSourcePerSegment
  <2> QED
    BY DEF IInv, Good, Shape
<1> QED
  BY Invariance, <1>1, PTL

(***************************************************************************)
(* The two action properties.                                              *)
(***************************************************************************)
(* What any step does to the lease table: ReleasedForGood and              *)
(* ReclaimedAfterGrace, step by step.                                      *)
LEMMA StepKeeps ==
    ASSUME IInv, [Next]_vars
    PROVE  \A l \in DOMAIN mgr.lease :
             /\ l \in DOMAIN mgr'.lease
             /\ mgr.lease[l].state = "released" => mgr'.lease[l] = mgr.lease[l]
             /\ /\ mgr.lease[l].state # "released"
                /\ mgr'.lease[l].reason = "orphan_recovery"
                => now >= mgr.lease[l].heartbeat + TtlFloor + OrphanGrace
<1> USE DEF IInv
<1>1. mgr \in ManagerStates
  BY DEF Good
<1>2. \A l \in DOMAIN mgr.lease : mgr.lease[l].state # "released" =>
        mgr.lease[l].reason = "none"
  BY DEF Timely
<1>3. Keeps(mgr, mgr') =>
        \A l \in DOMAIN mgr.lease :
             /\ l \in DOMAIN mgr'.lease
             /\ mgr.lease[l].state = "released" => mgr'.lease[l] = mgr.lease[l]
             /\ ~(/\ mgr.lease[l].state # "released"
                  /\ mgr'.lease[l].reason = "orphan_recovery")
  BY <1>2 DEF Keeps
<1>4. mgr'.lease = mgr.lease => Keeps(mgr, mgr')
  BY DEF Keeps
<1>5. CASE Tick \/ UNCHANGED vars
  BY <1>5, <1>3, <1>4 DEF Tick, vars
<1>6. CASE PoolStep
  <2>1. mgr'.lease = mgr.lease
    <3>1. \A s : RegisterSource(mgr, s).lease = mgr.lease
      BY <1>1 DEF RegisterSource, ManagerStates
    <3>2. \A r, b, c : RegisterReplica(mgr, r, b, c).lease = mgr.lease
      BY <1>1 DEF RegisterReplica, ManagerStates
    <3>3. \A r : EvictReplica(mgr, r).lease = mgr.lease
      BY <1>1 DEF EvictReplica, ManagerStates
    <3>4. \A n : PurgeNamespace(mgr, n).lease = mgr.lease
      BY <1>1 DEF PurgeNamespace, ManagerStates
    <3> QED
      BY <1>6, <3>1, <3>2, <3>3, <3>4 DEF PoolStep, DoRegisterSource,
         DoRegisterReplica, DoEvictReplica, DoPurgeNamespace
  <2> QED
    BY <2>1, <1>3, <1>4
<1>7. CASE RequestStep
  <2>1. ASSUME NEW o \in Owners, NEW g \in Segments, NEW s \in Sources, NEW p \in Remaining,
               DoFreeze(o, g, s, p)
        PROVE  Keeps(mgr, mgr')
    <3>1. p \in Nat
      BY LeaseBounds
    <3>2. <<>> \in Seq(BatchRequests)
      OBVIOUS
    <3>3. Keeps(mgr, FreezeAndAcquireLogical(mgr, o, g, s, p, now))
      BY <1>1, <3>1, <3>2, GrantsKeep
    <3> QED
      BY <2>1, <3>3 DEF DoFreeze
  <2>2. ASSUME NEW o \in Owners, NEW k \in 1..MaxBatch, NEW p \in Remaining,
               NEW cap \in Capacities,
               NEW reqs \in [1..k -> {q \in Requests : Bindable(mgr, o, q)}],
               DoLeaseBatch(o, reqs, p, cap)
        PROVE  Keeps(mgr, mgr')
    <3>1. p \in Nat /\ reqs \in Seq(BatchRequests)
      BY BatchTyped, LeaseBounds
    <3>2. \A l \in DOMAIN mgr.lease :
            /\ l \in DOMAIN LeaseBatch(mgr, o, reqs, p, now).lease
            /\ LeaseBatch(mgr, o, reqs, p, now).lease[l] = mgr.lease[l]
      BY <1>1, <3>1, BatchTable
    <3>3. Keeps(mgr, LeaseBatch(mgr, o, reqs, p, now))
      BY <3>2 DEF Keeps
    <3> QED
      BY <2>2, <3>3 DEF DoLeaseBatch
  <2>3. ASSUME NEW l \in DOMAIN mgr.lease,
               DoMarkReady(l) \/ DoPromote(l) \/ DoHeartbeat(l) \/ DoRelease(l)
        PROVE  Keeps(mgr, mgr')
    BY <1>1, <2>3, UpdatesKeep DEF DoMarkReady, DoPromote, DoHeartbeat, DoRelease
  <2>4. Keeps(mgr, mgr')
    BY <1>7, <2>1, <2>2, <2>3 DEF RequestStep
  <2> QED
    BY <1>3, <2>4
<1>8. CASE SweeperStep
  <2> PICK liveOwners \in SUBSET Owners : DoRecoverExpired(liveOwners)
    BY <1>8 DEF SweeperStep
  <2>1. mgr' = RecoverExpired(mgr, liveOwners, now)
    BY DEF DoRecoverExpired
  <2> QED
    BY <2>1, SweepKeeps
<1> QED
  BY <1>5, <1>6, <1>7, <1>8 DEF Next

(* A released record never changes again.                                  *)
THEOREM ReleasedForGoodCorrect == Spec => ReleasedForGood
<1>1. IInv /\ [Next]_vars =>
        [\A l \in DOMAIN mgr.lease :
           mgr.lease[l].state = "released"
           => l \in DOMAIN mgr'.lease /\ mgr'.lease[l] = mgr.lease[l]]_vars
  BY StepKeeps
<1> QED
  BY Invariance, <1>1, PTL DEF Spec, ReleasedForGood

(* Orphan recovery reclaims no lease before the TTL floor and the grace    *)
(* have passed since its last heartbeat, for any ttl_floor_s, grace and    *)
(* sequence of sweeps.                                                     *)
THEOREM ReclaimedAfterGraceCorrect == Spec => ReclaimedAfterGrace
<1>1. IInv /\ [Next]_vars =>
        [\A l \in DOMAIN mgr.lease :
           /\ mgr.lease[l].state # "released"
           /\ mgr'.lease[l].reason = "orphan_recovery"
           => now >= mgr.lease[l].heartbeat + TtlFloor + OrphanGrace]_vars
  BY StepKeeps
<1> QED
  BY Invariance, <1>1, PTL DEF Spec, ReclaimedAfterGrace

(***************************************************************************)
(* The orchestrator of schema 5 over such a manager (RequestOrchestrator). *)
(*                                                                         *)
(* The segments of a request in order are each of them once.               *)
(***************************************************************************)
LEMMA OrderedSegments ==
    ASSUME NEW S, S \subseteq Segments, IsFiniteSet(S)
    PROVE  LET n == Cardinality(S)
               q == InOrder(S)
           IN  /\ n \in Nat /\ q \in [1..n -> S]
               /\ \A i, j \in 1..n : q[i] = q[j] => i = j
               /\ \A g \in S : \E i \in 1..n : q[i] = g
<1> DEFINE n == Cardinality(S)
           B == [g \in S |-> Preceding(S, g)]
           f == [g \in S |-> Cardinality(B[g]) + 1]
           q == InOrder(S)
<1>1. n \in Nat
  BY FS_CardinalityType
<1>2. RankOfSegment \in [Segments -> Int]
      /\ \A g, h \in Segments : RankOfSegment[g] = RankOfSegment[h] => g = h
  BY OrchestratedRequests
<1>3. \A g \in S : /\ B[g] \subseteq S /\ g \notin B[g]
                   /\ \A h \in S : h \in B[g] <=> RankOfSegment[h] < RankOfSegment[g]
  BY <1>2 DEF Preceding
<1> HIDE DEF B
<1>4. \A g \in S : /\ IsFiniteSet(B[g]) /\ Cardinality(B[g]) \in Nat
                   /\ Cardinality(B[g]) <= n /\ (Cardinality(B[g]) = n => S = B[g])
  <2> TAKE g \in S
  <2>1. B[g] \in SUBSET S
    BY <1>3
  <2>2. /\ IsFiniteSet(B[g]) /\ Cardinality(B[g]) <= Cardinality(S)
        /\ Cardinality(S) = Cardinality(B[g]) => S = B[g]
    BY <2>1, FS_Subset
  <2> QED
    BY <2>2, FS_CardinalityType
<1>5. ASSUME NEW g \in S, NEW h \in S, RankOfSegment[g] < RankOfSegment[h]
      PROVE  Cardinality(B[g]) < Cardinality(B[h])
  <2>1. B[g] \subseteq B[h] /\ g \in B[h] /\ g \notin B[g]
    BY <1>2, <1>3, <1>5
  <2>2. B[g] \in SUBSET B[h] /\ B[g] # B[h]
    BY <2>1
  <2>3. Cardinality(B[g]) <= Cardinality(B[h]) /\ Cardinality(B[h]) # Cardinality(B[g])
    BY <1>4, <2>2, FS_Subset
  <2> QED
    BY <1>4, <2>3
<1>6. \A g, h \in S : f[g] = f[h] => g = h
  <2> TAKE g, h \in S
  <2>1. g # h => RankOfSegment[g] < RankOfSegment[h] \/ RankOfSegment[h] < RankOfSegment[g]
    BY <1>2
  <2> QED
    BY <1>4, <1>5, <2>1
<1>7. f \in [S -> 1..n]
  <2>1. \A g \in S : Cardinality(B[g]) # n
    BY <1>3, <1>4
  <2> QED
    BY <1>1, <1>4, <2>1
<1>8. \A i \in 1..n : \E g \in S : f[g] = i
  <2>1. IsFiniteSet(1..n) /\ Cardinality(1..n) = n
    <3>1. \A k \in Nat : IsFiniteSet(1..k) /\ Cardinality(1..k) = k
      BY FS_Interval
    <3> QED
      BY <1>1, <3>1
  <2> HIDE DEF f, n
  <2>2. f \in Injection(S, 1..n)
    BY <1>6, <1>7 DEF Injection, IsInjective
  <2>3. f \in Surjection(S, 1..n)
    BY <2>1, <2>2, FS_Injection DEF n
  <2> QED
    BY <2>3 DEF Surjection
<1>9. \A i \in 1..n : q[i] \in S /\ f[q[i]] = i
  <2> TAKE i \in 1..n
  <2>1. \E g \in S : Cardinality(Preceding(S, g)) = i - 1
    BY <1>4, <1>8 DEF B
  <2> DEFINE c == CHOOSE g \in S : Cardinality(Preceding(S, g)) = i - 1
  <2>2. c \in S /\ Cardinality(Preceding(S, c)) = i - 1
    BY <2>1, Zenon
  <2>3. q[i] = c
    BY DEF InOrder
  <2> HIDE DEF c, q
  <2>4. B[c] = Preceding(S, c)
    BY <2>2 DEF B
  <2> QED
    BY <1>4, <2>2, <2>3, <2>4
<1>10. q \in [1..n -> S]
  <2>1. q = [i \in 1..n |-> q[i]]
    BY DEF InOrder
  <2> HIDE DEF q, n
  <2> QED
    BY <1>9, <2>1
<1>11. \A g \in S : \E i \in 1..n : q[i] = g
  <2> TAKE g \in S
  <2>1. f[g] \in 1..n /\ q[f[g]] \in S /\ f[q[f[g]]] = f[g]
    BY <1>7, <1>9
  <2> HIDE DEF f, q
  <2> QED
    BY <1>6, <2>1
<1>12. \A i, j \in 1..n : q[i] = q[j] => i = j
  <2> HIDE DEF f, q
  <2> QED
    BY <1>9
<1> QED
  BY <1>1, <1>10, <1>11, <1>12

(* The largest of the first numbers.                                       *)
LEMMA MaxUpTo ==
    ASSUME NEW n \in Nat, NEW s, s \subseteq 1..n, s # {}
    PROVE  /\ Max(s) \in s /\ Max(s) \in Nat
           /\ \A i \in Nat : s = 1..i => Max(s) = i /\ i # 0 /\ s \ {i} = 1..(i - 1)
<1>1. IsFiniteSet(s) /\ s \subseteq Nat
  <2>1. IsFiniteSet(1..n) /\ s \in SUBSET (1..n)
    BY FS_Interval
  <2> DEFINE S == 1..n
  <2>2. S \subseteq Nat
    OBVIOUS
  <2> HIDE DEF S
  <2>3. IsFiniteSet(s)
    BY <2>1, FS_Subset DEF S
  <2> QED
    BY <2>1, <2>2, <2>3 DEF S
<1>2. \E d \in s : \A e \in s : e <= d
  BY <1>1, LargestNumber
<1>3. \E d \in s : \A e \in s : d >= e
  BY <1>1, <1>2
<1>4. Max(s) \in s /\ \A e \in s : Max(s) >= e
  BY <1>3, Zenon DEF Max
<1>5. ASSUME NEW i \in Nat, s = 1..i PROVE Max(s) = i /\ i # 0 /\ s \ {i} = 1..(i - 1)
  <2>1. i # 0 /\ i \in s
    BY <1>5
  <2>2. Max(s) >= i /\ Max(s) \in Nat /\ Max(s) <= i
    BY <1>1, <1>4, <1>5, <2>1
  <2> QED
    BY <1>5, <2>1, <2>2
<1> QED
  BY <1>1, <1>4, <1>5

(* One iteration of the loop that freezes, and the loop over a list q as   *)
(* the fold runs it: over the sets of the indices still to do, the largest *)
(* of them last.                                                           *)
FreezeOf(o, m, g) == FreezeAndAcquireLogical(m, o, g, WinnerOf(o, g), 0, 0)
Freezing(o, q, s, it) ==
    IF s = {} THEN pool ELSE FreezeOf(o, it[s \ {Max(s)}], q[Max(s)])
Freezes(o, q, D, it) == it = [s \in SUBSET D |-> Freezing(o, q, s, it)]

(* Some function runs it.                                                  *)
LEMMA FreezesExist ==
    ASSUME NEW o, NEW q, NEW k \in Nat
    PROVE  \E it : Freezes(o, q, 1..k, it)
<1> DEFINE S == 1..k
           D(n) == {s \in SUBSET S : Cardinality(s) <= n}
           T == {n \in Nat : ~ \E it : it = [s \in D(n) |-> Freezing(o, q, s, it)]}
<1>0. IsFiniteSet(S) /\ Cardinality(S) \in Nat
  BY FS_Interval, FS_CardinalityType
<1>1. \A s \in SUBSET S : IsFiniteSet(s) /\ Cardinality(s) \in Nat
                          /\ Cardinality(s) <= Cardinality(S)
  <2> HIDE DEF S
  <2> QED
    BY <1>0, FS_Subset, FS_CardinalityType
<1>2. T = {}
  <2> SUFFICES ASSUME T # {} PROVE FALSE
    OBVIOUS
  <2>1. PICK n \in T : \A m \in T : n <= m
    <3>1. T \subseteq Nat
      OBVIOUS
    <3> HIDE DEF T
    <3> QED
      BY <3>1, LeastNumber
  <2>2. n # 0
    <3>1. \A s \in D(0) : s = {}
      BY <1>1, FS_EmptySet
    <3> DEFINE it == [s \in D(0) |-> pool]
    <3>2. it = [s \in D(0) |-> Freezing(o, q, s, it)]
      BY <3>1 DEF Freezing
    <3> QED
      BY <2>1, <3>2
  <2>3. n - 1 \in Nat /\ n - 1 \notin T
    <3>1. n \in Nat
      BY <2>1
    <3> HIDE DEF T
    <3> QED
      BY <2>1, <2>2, <3>1
  <2>4. PICK it : it = [s \in D(n - 1) |-> Freezing(o, q, s, it)]
    BY <2>3
  <2> DEFINE jt == [s \in D(n) |-> Freezing(o, q, s, it)]
  <2>5. \A s \in D(n) : s # {} => s \ {Max(s)} \in D(n - 1)
    <3> TAKE s \in D(n)
    <3> HAVE s # {}
    <3>1. Max(s) \in s
      BY MaxUpTo
    <3>2. Cardinality(s \ {Max(s)}) = Cardinality(s) - 1
      BY <1>1, <3>1, FS_RemoveElement
    <3>3. Cardinality(s) \in Nat /\ Cardinality(s) <= n /\ n \in Nat
      BY <1>1, <2>1
    <3>4. Cardinality(s \ {Max(s)}) <= n - 1
      BY <3>2, <3>3
    <3> HIDE DEF S, T
    <3> QED
      BY <3>4
  <2>6. \A s \in D(n - 1) : s \in D(n) /\ jt[s] = it[s]
    <3>1. \A s \in D(n - 1) : s \in D(n)
      BY <1>1, <2>1
    <3>2. \A s \in D(n - 1) : it[s] = Freezing(o, q, s, it)
      BY <2>4
    <3> QED
      BY <3>1, <3>2
  <2>7. \A s \in D(n) : Freezing(o, q, s, it) = Freezing(o, q, s, jt)
    <3> HIDE DEF D, jt
    <3> QED
      BY <2>5, <2>6 DEF Freezing
  <2>8. jt = [s \in D(n) |-> Freezing(o, q, s, jt)]
    BY <2>7
  <2> QED
    BY <2>1, <2>8
<1>4. PICK it : it = [s \in D(Cardinality(S)) |-> Freezing(o, q, s, it)]
  BY <1>0, <1>2
<1>5. D(Cardinality(S)) = SUBSET S
  BY <1>1
<1> QED
  BY <1>4, <1>5 DEF Freezes

(* What the fold returns, one more frozen each time.                       *)
LEMMA FrozenAllIs ==
    ASSUME NEW o, NEW G, NEW n \in Nat, DOMAIN InOrder(G) = 1..n
    PROVE  \E it : /\ FrozenAll(o, G) = it[1..n] /\ it[{}] = pool
                   /\ \A i \in 1..n : it[1..i] = FreezeOf(o, it[1..(i - 1)], InOrder(G)[i])
<1> DEFINE q == InOrder(G)
<1>1. FrozenAll(o, G) = (CHOOSE it : Freezes(o, q, DOMAIN q, it))[DOMAIN q]
  BY DEF FrozenAll, FoldLeft, MapThenFoldSet, Freezes, Freezing, FreezeOf
<1> HIDE DEF q
<1>2. \E it : Freezes(o, q, 1..n, it)
  BY FreezesExist
<1>3. PICK it : Freezes(o, q, 1..n, it) /\ FrozenAll(o, G) = it[1..n]
  <2>1. DOMAIN q = 1..n
    BY DEF q
  <2> QED
    BY <1>1, <1>2, <2>1, Zenon
<1>4. \A s \in SUBSET (1..n) : it[s] = Freezing(o, q, s, it)
  BY <1>3 DEF Freezes
<1>5. it[{}] = pool
  BY <1>4 DEF Freezing
<1>6. ASSUME NEW i \in 1..n PROVE it[1..i] = FreezeOf(o, it[1..(i - 1)], q[i])
  <2> DEFINE s == 1..i
  <2>1. i \in Nat /\ s \subseteq 1..n /\ s \in SUBSET (1..n) /\ s # {}
    <3>1. i \in Nat /\ i >= 1 /\ i <= n
      BY <1>6
    <3>2. s \subseteq 1..n /\ i \in s
      BY <3>1
    <3> QED
      BY <3>1, <3>2
  <2>2. Max(s) = i /\ s \ {i} = 1..(i - 1)
    BY <2>1, MaxUpTo
  <2>3. it[s] = Freezing(o, q, s, it)
    BY <1>4, <2>1
  <2> HIDE DEF s
  <2>4. it[s] = FreezeOf(o, it[s \ {Max(s)}], q[Max(s)])
    BY <2>1, <2>3 DEF Freezing
  <2>5. it[s] = FreezeOf(o, it[1..(i - 1)], q[i])
    BY <2>2, <2>4
  <2> QED
    BY <2>5 DEF s
<1> QED
  BY <1>3, <1>5, <1>6 DEF q

(* The manager once the first i of the n segments of q are frozen.         *)
FrozenUpTo(o, q, n, i, m) ==
    /\ Good(m) /\ m.life = pool.life /\ m.placement = pool.placement
    /\ Len(m.lease) = Len(pool.lease) + i
    /\ \A l \in DOMAIN pool.lease : m.lease[l] = pool.lease[l]
    /\ \A j \in 1..i : m.lease[Len(pool.lease) + j] =
         NewLease(o, q[j], WinnerOf(o, q[j]), NoReplica, "logical", 0, 0)
    /\ \A j \in (i + 1)..n : CanFreeze(m, o, q[j], WinnerOf(o, q[j]))

(* Freezing one segment leaves the others as free as they were.            *)
LEMMA FreezeNext ==
    ASSUME NEW o \in Owners, NEW n \in Nat, NEW q \in [1..n -> Segments],
           \A i, j \in 1..n : q[i] = q[j] => i = j,
           \A j \in 1..n : WinnerOf(o, q[j]) \in Sources,
           pool \in ManagerStates, NEW i \in Nat, i + 1 \in 1..n,
           NEW m, FrozenUpTo(o, q, n, i, m)
    PROVE  FrozenUpTo(o, q, n, i + 1, FreezeOf(o, m, q[i + 1]))
<1> DEFINE g == q[i + 1]
           s == WinnerOf(o, g)
           w == FreezeOf(o, m, g)
           new == NewLease(o, g, s, NoReplica, "logical", 0, 0)
           k == Len(pool.lease)
<1>1. g \in Segments /\ s \in Sources /\ Good(m) /\ m \in ManagerStates
  BY DEF FrozenUpTo, Good
<1>2. CanFreeze(m, o, g, s)
  <2>1. i + 1 \in (i + 1)..n
    OBVIOUS
  <2> QED
    BY <2>1 DEF FrozenUpTo
<1>3. Good(w)
  <2>1. 0 \in Nat
    OBVIOUS
  <2> HIDE DEF g, s
  <2> QED
    BY <1>1, <1>2, <2>1, FreezeGood DEF FreezeOf, s
<1> HIDE DEF g
<1>4. /\ w.life = m.life /\ w.placement = m.placement /\ w.backing = m.backing
      /\ w.source = m.source /\ w.lease = Append(m.lease, new)
      /\ w.frozen = [m.frozen EXCEPT ![o][g] = s]
  <2> HIDE DEF new, s
  <2> QED
    BY <1>1 DEF FreezeOf, FreezeAndAcquireLogical, ManagerStates, new, s
<1> HIDE DEF new, w, s
<1>5. /\ m.lease \in Seq(LeaseRecords) /\ pool.lease \in Seq(LeaseRecords)
      /\ m.frozen \in [Owners -> [Segments -> Sources \cup {NoSource}]]
  BY <1>1 DEF ManagerStates
<1>6. /\ k \in Nat /\ Len(m.lease) = k + i
      /\ DOMAIN pool.lease = 1..k /\ DOMAIN m.lease = 1..(k + i)
  BY <1>5 DEF FrozenUpTo
<1>7. /\ Len(w.lease) = k + (i + 1) /\ w.lease[k + (i + 1)] = new
      /\ \A l \in 1..(k + i) : w.lease[l] = m.lease[l]
  <2>1. Len(w.lease) = Len(m.lease) + 1 /\ w.lease[Len(m.lease) + 1] = new
        /\ \A l \in 1..Len(m.lease) : w.lease[l] = m.lease[l]
    BY <1>4, <1>5
  <2>3. k \in Nat /\ Len(m.lease) = k + i
    BY <1>6
  <2> HIDE DEF k
  <2>2. Len(m.lease) + 1 = k + (i + 1)
    BY <2>3
  <2> QED
    BY <1>6, <2>1, <2>2
<1>8. \A l \in DOMAIN pool.lease : w.lease[l] = pool.lease[l]
  <2>1. \A l \in 1..k : w.lease[l] = m.lease[l]
    BY <1>6, <1>7
  <2> QED
    BY <1>6, <2>1 DEF FrozenUpTo
<1>9. \A j \in 1..(i + 1) : w.lease[k + j] =
        NewLease(o, q[j], WinnerOf(o, q[j]), NoReplica, "logical", 0, 0)
  <2> TAKE j \in 1..(i + 1)
  <2>1. CASE j = i + 1
    BY <1>7, <2>1 DEF new, g, s
  <2>2. CASE j # i + 1
    <3>1. j \in 1..i /\ k + j \in 1..(k + i)
      BY <1>6, <2>2
    <3>2. m.lease[k + j] = NewLease(o, q[j], WinnerOf(o, q[j]), NoReplica, "logical", 0, 0)
      BY <3>1 DEF FrozenUpTo
    <3>3. w.lease[k + j] = m.lease[k + j]
      BY <1>7, <3>1
    <3> QED
      BY <3>2, <3>3
  <2> QED
    BY <2>1, <2>2
<1>10. ASSUME NEW j \in (i + 2)..n PROVE CanFreeze(w, o, q[j], WinnerOf(o, q[j]))
  <2>1. j \in 1..n /\ j \in (i + 1)..n /\ j # i + 1
    OBVIOUS
  <2>2. q[j] # g /\ q[j] \in Segments
    BY <2>1 DEF g
  <2>3. CanFreeze(m, o, q[j], WinnerOf(o, q[j]))
    BY <2>1 DEF FrozenUpTo
  <2>4. w.frozen[o][q[j]] = m.frozen[o][q[j]]
    BY <1>1, <1>4, <1>5, <2>2
  <2>5. HealthyBacking(w, WinnerOf(o, q[j])) = HealthyBacking(m, WinnerOf(o, q[j]))
    BY <1>4 DEF HealthyBacking
  <2> QED
    BY <1>4, <2>3, <2>4, <2>5 DEF CanFreeze
<1>11. (i + 1) + 1 = i + 2
  OBVIOUS
<1>12. w.life = pool.life /\ w.placement = pool.placement
  BY <1>4 DEF FrozenUpTo
<1> HIDE DEF k
<1>13. FrozenUpTo(o, q, n, i + 1, w)
  BY <1>3, <1>7, <1>8, <1>9, <1>10, <1>11, <1>12 DEF FrozenUpTo, k
<1> QED
  BY <1>13 DEF w, g

(* What a request has of the lease table.                                  *)
Owned(m, o) == {l \in Live(m) : m.lease[l].owner = o}

(* The manager m after the segments of G are frozen: a logical lease each. *)
Froze(o, G, m) ==
    /\ Good(m) /\ m.life = pool.life /\ m.placement = pool.placement
    /\ Len(pool.lease) \in Nat /\ Len(m.lease) \in Nat
    /\ DOMAIN pool.lease = 1..Len(pool.lease)
    /\ DOMAIN m.lease = DOMAIN pool.lease \cup NewIn(m)
    /\ DOMAIN pool.lease \cap NewIn(m) = {}
    /\ \A l \in DOMAIN pool.lease : m.lease[l] = pool.lease[l]
    /\ \A l \in NewIn(m) :
         /\ m.lease[l].owner = o /\ m.lease[l].state = "active"
         /\ m.lease[l].replica = NoReplica /\ m.lease[l].segment \in G
         /\ m.lease[l].source = WinnerOf(o, m.lease[l].segment)
    /\ \A g \in G : \E l \in NewIn(m) : m.lease[l].segment = g

(* The loop of freeze_and_predict (v8_orchestration.py:264) freezes them.  *)
LEMMA FrozenAllFroze ==
    ASSUME Good(pool), NEW o \in Owners, NEW G, G \subseteq Segments, IsFiniteSet(G),
           \A g \in G : WinnerOf(o, g) \in Sources /\ Freezable(o, g)
    PROVE  Froze(o, G, FrozenAll(o, G))
<1> DEFINE n == Cardinality(G)
           q == InOrder(G)
           m == FrozenAll(o, G)
           k == Len(pool.lease)
<1>1. /\ n \in Nat /\ q \in [1..n -> G]
      /\ \A i, j \in 1..n : q[i] = q[j] => i = j
      /\ \A g \in G : \E i \in 1..n : q[i] = g
  BY OrderedSegments
<1> HIDE DEF q
<1>2. PICK it : /\ m = it[1..n] /\ it[{}] = pool
                /\ \A i \in 1..n : it[1..i] = FreezeOf(o, it[1..(i - 1)], q[i])
  <2>1. DOMAIN q = 1..n
    BY <1>1
  <2> HIDE DEF n
  <2> QED
    BY <1>1, <2>1, FrozenAllIs DEF q
<1> HIDE DEF n, m
<1>3. pool \in ManagerStates /\ q \in [1..n -> Segments]
      /\ \A j \in 1..n : WinnerOf(o, q[j]) \in Sources /\ Freezable(o, q[j])
  BY <1>1 DEF Good
<1>4. /\ k \in Nat /\ DOMAIN pool.lease = 1..k
  BY <1>3 DEF ManagerStates
<1> HIDE DEF k
<1> DEFINE Wrong == {i \in 0..n : ~FrozenUpTo(o, q, n, i, it[1..i])}
<1>5. Wrong = {}
  <2> SUFFICES ASSUME Wrong # {} PROVE FALSE
    OBVIOUS
  <2>1. PICK i \in Wrong : \A j \in Wrong : i <= j
    <3>1. Wrong \subseteq Nat
      BY <1>1
    <3> HIDE DEF Wrong
    <3> QED
      BY <3>1, LeastNumber
  <2>2. i \in 0..n /\ ~FrozenUpTo(o, q, n, i, it[1..i])
    BY <2>1
  <2>3. i # 0
    <3>1. 1..0 = {}
      OBVIOUS
    <3>2. it[1..0] = pool
      BY <1>2, <3>1
    <3>3. FrozenUpTo(o, q, n, 0, pool)
      BY <1>3, <1>4 DEF FrozenUpTo, Freezable, k
    <3> QED
      BY <2>2, <3>2, <3>3
  <2>4. i - 1 \in Nat /\ i - 1 \in 0..n /\ (i - 1) + 1 = i /\ i \in 1..n
    BY <1>1, <2>2, <2>3
  <2>5. FrozenUpTo(o, q, n, i - 1, it[1..(i - 1)])
    <3>1. i - 1 \notin Wrong
      <4> HIDE DEF Wrong
      <4> QED
        BY <2>1, <2>4
    <3> QED
      BY <2>4, <3>1
  <2> DEFINE h == i - 1
             x == it[1..(i - 1)]
  <2>6. h \in Nat /\ h + 1 = i /\ h + 1 \in 1..n /\ FrozenUpTo(o, q, n, h, x)
    BY <2>4, <2>5
  <2> HIDE DEF h, x, Wrong
  <2>7. FrozenUpTo(o, q, n, h + 1, FreezeOf(o, x, q[h + 1]))
    BY <1>1, <1>3, <2>6, FreezeNext
  <2>8. it[1..i] = FreezeOf(o, x, q[i])
    BY <1>2, <2>4 DEF x
  <2> QED
    BY <2>2, <2>6, <2>7, <2>8
<1>6. FrozenUpTo(o, q, n, n, m)
  <2>1. n \in 0..n
    BY <1>1
  <2> QED
    BY <1>2, <1>5, <2>1
<1>7. /\ Good(m) /\ m \in ManagerStates /\ m.life = pool.life
      /\ m.placement = pool.placement /\ Len(m.lease) = k + n
      /\ \A l \in DOMAIN pool.lease : m.lease[l] = pool.lease[l]
  BY <1>6 DEF FrozenUpTo, Good, k
<1>8. DOMAIN m.lease = 1..(k + n)
  BY <1>7 DEF ManagerStates
<1>9. NewIn(m) = (k + 1)..(k + n)
  BY <1>7 DEF NewIn, k
<1>10. \A j \in 1..n : m.lease[k + j] =
         NewLease(o, q[j], WinnerOf(o, q[j]), NoReplica, "logical", 0, 0)
  BY <1>6 DEF FrozenUpTo, k
<1>11. \A j \in 1..n :
         /\ m.lease[k + j].owner = o /\ m.lease[k + j].state = "active"
         /\ m.lease[k + j].replica = NoReplica /\ m.lease[k + j].segment = q[j]
         /\ m.lease[k + j].source = WinnerOf(o, q[j])
  <2> TAKE j \in 1..n
  <2> DEFINE new == NewLease(o, q[j], WinnerOf(o, q[j]), NoReplica, "logical", 0, 0)
  <2>1. /\ new.owner = o /\ new.state = "active" /\ new.replica = NoReplica
        /\ new.segment = q[j] /\ new.source = WinnerOf(o, q[j])
    BY DEF NewLease
  <2>2. m.lease[k + j] = new
    BY <1>10
  <2> HIDE DEF new
  <2> QED
    BY <2>1, <2>2
<1>12. \A l \in NewIn(m) : \E j \in 1..n : l = k + j
  <2> TAKE l \in NewIn(m)
  <2>1. l - k \in 1..n /\ l = k + (l - k)
    BY <1>1, <1>4, <1>9
  <2> QED
    BY <2>1
<1>13. \A j \in 1..n : k + j \in NewIn(m)
  BY <1>1, <1>4, <1>9
<1>14. ASSUME NEW l \in NewIn(m)
       PROVE  /\ m.lease[l].owner = o /\ m.lease[l].state = "active"
              /\ m.lease[l].replica = NoReplica /\ m.lease[l].segment \in G
              /\ m.lease[l].source = WinnerOf(o, m.lease[l].segment)
  <2>1. PICK j \in 1..n : l = k + j
    BY <1>12
  <2>2. q[j] \in G
    BY <1>1
  <2> QED
    BY <1>11, <2>1, <2>2
<1>15. ASSUME NEW g \in G PROVE \E l \in NewIn(m) : m.lease[l].segment = g
  <2>1. PICK j \in 1..n : q[j] = g
    BY <1>1
  <2> QED
    BY <1>11, <1>13, <2>1
<1>16. /\ DOMAIN m.lease = DOMAIN pool.lease \cup NewIn(m)
       /\ DOMAIN pool.lease \cap NewIn(m) = {}
       /\ k \in Nat /\ Len(m.lease) \in Nat
  BY <1>1, <1>4, <1>7, <1>8, <1>9
<1>17. Froze(o, G, m)
  BY <1>4, <1>7, <1>14, <1>15, <1>16 DEF Froze, k
<1> QED
  BY <1>17 DEF m

(***************************************************************************)
(* The inductive invariant: what a request owns, its state names.          *)
(***************************************************************************)
Options == [replica : Replicas, placement : Nat, forced : BOOLEAN]
OptionTables == UNION {[G -> Options] : G \in SUBSET Segments}
LoopStates == [stage : {"none", "running", "released", "abandoned"},
               logical : SUBSET Nat, physical : SUBSET Nat]

Named(st) == IF st.stage \in {"running", "abandoned"} THEN st.logical \cup st.physical ELSE {}

(* The leases of a running request are on what it locked.                  *)
Bound(m, opt, st) ==
    /\ {m.lease[l].segment : l \in st.logical} = DOMAIN opt
    /\ \A l \in st.logical \cup st.physical :
         m.lease[l].source = SourceOf[opt[m.lease[l].segment].replica]
    /\ \A l \in st.physical :
         /\ m.lease[l].replica \in Replicas
         /\ m.placement[m.lease[l].replica] = opt[m.lease[l].segment].placement

Belongs(m, l, o) == l \in DOMAIN m.lease /\ m.lease[l].owner = o

(* The leases that hold Sources are on no Replica, and a request whose     *)
(* planner raised has no others.                                           *)
OfSources(m, st) ==
    /\ st.stage \in {"running", "abandoned"} => \A l \in st.logical : m.lease[l].replica = NoReplica
    /\ st.stage = "abandoned" => st.physical = {}

LoopFits(m, opt, st, o) ==
    /\ DOMAIN opt \subseteq SegmentsOf[o] /\ Owned(m, o) = Named(st) /\ OfSources(m, st)
    /\ \A l \in st.logical \cup st.physical : Belongs(m, l, o)
    /\ st.stage = "running" => Bound(m, opt, st)

LoopInv ==
    /\ Good(pool)
    /\ option \in [Owners -> OptionTables] /\ loop \in [Owners -> LoopStates]
    /\ \A o \in Owners : LoopFits(pool, option[o], loop[o], o)

(* The leases of p are in n as they were in m, and where they were.        *)
Untouched(p, m, n) ==
    /\ Owned(n, p) = Owned(m, p)
    /\ \A l \in DOMAIN m.lease : Belongs(m, l, p) => Belongs(n, l, p)
    /\ \A l \in Owned(m, p) :
         /\ n.lease[l] = m.lease[l]
         /\ m.lease[l].replica # NoReplica =>
              n.placement[m.lease[l].replica] = m.placement[m.lease[l].replica]

(* So its state still fits.                                                *)
LEMMA UntouchedFits ==
    ASSUME NEW m, NEW n, NEW p, NEW opt, NEW st, Untouched(p, m, n),
           LoopFits(m, opt, st, p)
    PROVE  LoopFits(n, opt, st, p)
<1>1. ASSUME st.stage = "running" PROVE Bound(n, opt, st)
  <2>1. Owned(m, p) = st.logical \cup st.physical /\ Bound(m, opt, st)
    BY <1>1 DEF LoopFits, Named
  <2>2. \A l \in st.logical \cup st.physical : n.lease[l] = m.lease[l]
    BY <2>1 DEF Untouched
  <2>3. {n.lease[l].segment : l \in st.logical} = {m.lease[l].segment : l \in st.logical}
    BY <2>2
  <2>4. ASSUME NEW l \in st.physical
        PROVE  /\ n.lease[l].replica \in Replicas
               /\ n.placement[n.lease[l].replica] = opt[n.lease[l].segment].placement
    <3>1. /\ n.lease[l] = m.lease[l] /\ m.lease[l].replica \in Replicas
          /\ m.placement[m.lease[l].replica] = opt[m.lease[l].segment].placement
      BY <2>1, <2>2 DEF Bound
    <3>2. m.lease[l].replica # NoReplica
      BY <3>1, NullValues
    <3>3. n.placement[m.lease[l].replica] = m.placement[m.lease[l].replica]
      BY <2>1, <3>2 DEF Untouched
    <3> QED
      BY <3>1, <3>3
  <2> QED
    BY <2>1, <2>2, <2>3, <2>4 DEF Bound
<1>2. \A l \in st.logical \cup st.physical : Belongs(n, l, p)
  BY DEF LoopFits, Untouched, Belongs
<1>3. OfSources(n, st)
  BY DEF OfSources, LoopFits, Untouched, Named
<1> QED
  BY <1>1, <1>2, <1>3 DEF LoopFits, Untouched

(* A call for one request that touches nothing of another keeps the        *)
(* invariant if it leaves that request fitting.                            *)
LEMMA LoopStep ==
    ASSUME LoopInv, NEW o \in Owners, NEW m, Good(m),
           \A p \in Owners : p # o => Untouched(p, pool, m),
           NEW opt \in OptionTables, NEW st \in LoopStates, LoopFits(m, opt, st, o),
           pool' = m, option' = [option EXCEPT ![o] = opt], loop' = [loop EXCEPT ![o] = st]
    PROVE  LoopInv'
<1>1. option \in [Owners -> OptionTables] /\ loop \in [Owners -> LoopStates]
  BY DEF LoopInv
<1>2. /\ option' \in [Owners -> OptionTables] /\ loop' \in [Owners -> LoopStates]
      /\ option'[o] = opt /\ loop'[o] = st
      /\ \A p \in Owners : p # o => option'[p] = option[p] /\ loop'[p] = loop[p]
  BY <1>1
<1>3. ASSUME NEW p \in Owners PROVE LoopFits(pool', option'[p], loop'[p], p)
  <2>1. CASE p = o
    BY <1>2, <2>1
  <2>2. CASE p # o
    <3>1. LoopFits(pool, option[p], loop[p], p) /\ Untouched(p, pool, m)
      BY <2>2 DEF LoopInv
    <3>2. LoopFits(m, option[p], loop[p], p)
      BY <3>1, UntouchedFits
    <3> QED
      BY <1>2, <2>2, <3>2
  <2> QED
    BY <2>1, <2>2
<1> QED
  BY <1>2, <1>3 DEF LoopInv

(* Nor does a change of the pool that touches nobody's leases break it.    *)
LEMMA LoopStay ==
    ASSUME LoopInv, Good(pool'), \A p \in Owners : Untouched(p, pool, pool'),
           option' = option, loop' = loop
    PROVE  LoopInv'
<1>1. \A p \in Owners : LoopFits(pool', option[p], loop[p], p)
  BY UntouchedFits DEF LoopInv
<1> QED
  BY <1>1 DEF LoopInv

(* What release() leaves of the lease table.                               *)
LEMMA ReleasedOwned ==
    ASSUME NEW m \in ManagerStates, NEW L
    PROVE  LET n == ReleaseAll(m, L, "request")
           IN  /\ n.placement = m.placement /\ DOMAIN n.lease = DOMAIN m.lease
               /\ \A l \in DOMAIN m.lease : n.lease[l].owner = m.lease[l].owner
               /\ \A o \in Owners :
                    /\ Owned(n, o) = Owned(m, o) \ L
                    /\ \A l \in Owned(n, o) : n.lease[l] = m.lease[l]
<1> DEFINE n == ReleaseAll(m, L, "request")
<1>1. n.placement = m.placement /\ DOMAIN n.lease = DOMAIN m.lease
  BY DEF ReleaseAll, ManagerStates
<1>2. \A l \in DOMAIN m.lease :
        n.lease[l] = IF l \in L /\ l \in Live(m)
                     THEN Released(m.lease[l], "request") ELSE m.lease[l]
  BY DEF ReleaseAll, ManagerStates
<1> HIDE DEF n
<1>3. \A l \in DOMAIN m.lease : l \in L /\ l \in Live(m) => n.lease[l].state = "released"
  <2>1. \A l \in DOMAIN m.lease : m.lease[l] \in LeaseRecords
    BY RecordTypes
  <2>2. \A x \in LeaseRecords : Released(x, "request").state = "released"
    BY DEF Released, LeaseRecords
  <2> QED
    BY <1>2, <2>1, <2>2
<1>4. Live(n) = Live(m) \ L
  BY <1>1, <1>2, <1>3 DEF Live
<1>5. \A l \in Live(n) : n.lease[l] = m.lease[l]
  BY <1>1, <1>2, <1>4 DEF Live
<1>6. \A o \in Owners :
        /\ Owned(n, o) = Owned(m, o) \ L
        /\ \A l \in Owned(n, o) : n.lease[l] = m.lease[l]
  BY <1>4, <1>5 DEF Owned
<1>7. \A l \in DOMAIN m.lease : n.lease[l].owner = m.lease[l].owner
  <2>1. \A l \in DOMAIN m.lease : m.lease[l] \in LeaseRecords
    BY RecordTypes
  <2>2. \A x \in LeaseRecords : Released(x, "request").owner = x.owner
    BY DEF Released, LeaseRecords
  <2> QED
    BY <1>2, <2>1, <2>2
<1> QED
  BY <1>1, <1>6, <1>7 DEF n

(* A request without options, and one with a state.                        *)
LEMMA EmptyOptions ==
    /\ <<>> \in OptionTables /\ DOMAIN <<>> = {}
    /\ Idle \in LoopStates /\ Named(Idle) = {} /\ Idle.stage = "none"
    /\ Idle.logical = {} /\ Idle.physical = {}
<1>1. <<>> \in [{} -> Options] /\ DOMAIN <<>> = {}
  OBVIOUS
<1>2. {} \in SUBSET Segments
  OBVIOUS
<1>3. <<>> \in OptionTables
  BY <1>1, <1>2 DEF OptionTables
<1> QED
  BY <1>1, <1>3 DEF Idle, LoopStates, Named

(* What the options of a request are.                                      *)
LEMMA OptionShape ==
    ASSUME LoopInv, NEW o \in Owners
    PROVE  /\ option[o] \in OptionTables /\ loop[o] \in LoopStates
           /\ Locked(o) \subseteq Segments /\ IsFiniteSet(Locked(o))
           /\ Locked(o) \subseteq SegmentsOf[o]
           /\ \A g \in Locked(o) :
                /\ option[o][g] \in Options /\ option[o][g].replica \in Replicas
                /\ option[o][g].placement \in Nat /\ WinnerOf(o, g) \in Sources
<1>1. option[o] \in OptionTables /\ loop[o] \in LoopStates
  BY DEF LoopInv
<1>2. Locked(o) \subseteq SegmentsOf[o]
  BY DEF LoopInv, LoopFits, Locked
<1>3. SegmentsOf[o] \subseteq Segments /\ IsFiniteSet(SegmentsOf[o])
  BY OrchestratedRequests
<1>4. IsFiniteSet(Locked(o))
  BY <1>2, <1>3, FS_Subset
<1>5. \A g \in Locked(o) : option[o][g] \in Options
  BY <1>1 DEF OptionTables, Locked
<1>6. \A g \in Locked(o) : option[o][g].replica \in Replicas /\ option[o][g].placement \in Nat
  BY <1>5 DEF Options
<1>7. \A g \in Locked(o) : WinnerOf(o, g) \in Sources
  BY <1>6, PoolShape DEF WinnerOf
<1> QED
  BY <1>1, <1>2, <1>3, <1>4, <1>5, <1>6, <1>7

(* Locking the winners of a request that has no state yet.                 *)
LEMMA LockWinnersFits ==
    ASSUME LoopInv, NEW o \in Owners, NEW G \in (SUBSET SegmentsOf[o]) \ {{}},
           NEW w \in [G -> Replicas], NEW F \in SUBSET G, LockWinners(o, w, F)
    PROVE  LoopInv'
<1> DEFINE opt == [g \in G |-> [replica |-> w[g], placement |-> pool.placement[w[g]],
                                forced |-> g \in F]]
<1>1. option' = [option EXCEPT ![o] = opt] /\ pool' = pool /\ loop' = loop
  BY DEF LockWinners
<1>2. \A g \in G : opt[g] \in Options
  <2> TAKE g \in G
  <2>1. w[g] \in Replicas /\ pool.placement[w[g]] \in Nat /\ (g \in F) \in BOOLEAN
    BY DEF LoopInv, Good, ManagerStates
  <2> QED
    BY <2>1 DEF Options
<1>3. G \subseteq Segments
  BY OrchestratedRequests
<1>4. opt \in OptionTables /\ DOMAIN opt = G
  <2>1. opt \in [G -> Options] /\ G \in SUBSET Segments
    BY <1>2, <1>3
  <2> HIDE DEF opt
  <2> QED
    BY <2>1 DEF OptionTables
<1> HIDE DEF opt
<1>5. loop \in [Owners -> LoopStates] /\ loop[o] \in LoopStates /\ loop[o].stage = "none"
      /\ LoopFits(pool, option[o], loop[o], o)
  BY DEF LoopInv, LockWinners
<1>6. LoopFits(pool, opt, loop[o], o)
  BY <1>4, <1>5 DEF LoopFits
<1>7. loop' = [loop EXCEPT ![o] = loop[o]]
  BY <1>1, <1>5
<1>8. Good(pool) /\ \A p \in Owners : p # o => Untouched(p, pool, pool)
  BY DEF LoopInv, Untouched
<1> QED
  BY <1>1, <1>4, <1>5, <1>6, <1>7, <1>8, LoopStep

(* What the loop that freezes grants before the first segment that raises. *)
LEMMA GrantedFroze ==
    ASSUME LoopInv, NEW o \in Owners, NEW G, G \subseteq Granted(o), loop[o].stage = "none"
    PROVE  LET m == FrozenAll(o, G)
           IN  /\ Froze(o, G, m) /\ Owned(m, o) = NewIn(m)
               /\ \A p \in Owners : p # o => Untouched(p, pool, m)
<1> DEFINE m == FrozenAll(o, G)
<1>1. G \subseteq Locked(o) /\ G \subseteq Segments /\ IsFiniteSet(G)
  <2>1. G \in SUBSET Locked(o)
    BY DEF Granted
  <2> QED
    BY <2>1, OptionShape, FS_Subset
<1>2. \A g \in G : WinnerOf(o, g) \in Sources /\ Freezable(o, g)
  <2> TAKE g \in G
  <2>1. g \in Locked(o) /\ g \in Segments /\ WinnerOf(o, g) \in Sources
    BY <1>1, OptionShape
  <2>2. RankOfSegment[g] <= RankOfSegment[g]
    BY <2>1, OrchestratedRequests
  <2> QED
    BY <2>1, <2>2 DEF Granted
<1>3. Good(pool)
  BY DEF LoopInv
<1>4. Froze(o, G, m)
  BY <1>1, <1>2, <1>3, FrozenAllFroze
<1> HIDE DEF m
<1>5. Owned(pool, o) = {}
  BY DEF LoopInv, LoopFits, Named
<1>6. \A l \in DOMAIN m.lease : l \in DOMAIN pool.lease \/ l \in NewIn(m)
  BY <1>4 DEF Froze
<1>7. Owned(m, o) = NewIn(m)
  <2>1. \A l \in Owned(m, o) : l \in NewIn(m)
    BY <1>4, <1>5, <1>6 DEF Owned, Live, Froze
  <2>2. \A l \in NewIn(m) : l \in Owned(m, o)
    BY <1>4 DEF Owned, Live, Froze
  <2> QED
    BY <2>1, <2>2
<1>8. ASSUME NEW p \in Owners, p # o PROVE Untouched(p, pool, m)
  <2>1. \A l \in Owned(m, p) : l \in Owned(pool, p)
    BY <1>4, <1>6, <1>8 DEF Owned, Live, Froze
  <2>2. \A l \in Owned(pool, p) : l \in Owned(m, p) /\ m.lease[l] = pool.lease[l]
    BY <1>4 DEF Owned, Live, Froze
  <2>3. m.placement = pool.placement
    BY <1>4 DEF Froze
  <2>4. \A l \in DOMAIN pool.lease : Belongs(pool, l, p) => Belongs(m, l, p)
    BY <1>4 DEF Belongs, Froze
  <2> QED
    BY <2>1, <2>2, <2>3, <2>4 DEF Untouched
<1> QED
  BY <1>4, <1>7, <1>8 DEF m

(* A manager that touched nobody else and then took back what it granted.  *)
LEMMA TakenBack ==
    ASSUME LoopInv, NEW o \in Owners, NEW m, Good(m), NEW L, Owned(m, o) \subseteq L,
           \A p \in Owners : p # o => Untouched(p, pool, m) /\ Owned(m, p) \cap L = {},
           pool' = ReleaseAll(m, L, "request"),
           NEW st \in LoopStates, st.stage \in {"none", "released"},
           \A l \in st.logical \cup st.physical : Belongs(m, l, o),
           option' = [option EXCEPT ![o] = <<>>], loop' = [loop EXCEPT ![o] = st]
    PROVE  LoopInv'
<1> DEFINE n == ReleaseAll(m, L, "request")
<1>1. Good(n)
  BY ReleaseGood DEF Reasons
<1>2. /\ n.placement = m.placement /\ DOMAIN n.lease = DOMAIN m.lease
      /\ \A l \in DOMAIN m.lease : n.lease[l].owner = m.lease[l].owner
      /\ \A p \in Owners : /\ Owned(n, p) = Owned(m, p) \ L
                           /\ \A l \in Owned(n, p) : n.lease[l] = m.lease[l]
  BY ReleasedOwned DEF Good
<1>3. pool' = n
  OBVIOUS
<1> HIDE DEF n
<1>4. ASSUME NEW p \in Owners, p # o PROVE Untouched(p, pool, n)
  <2>1. Untouched(p, pool, m) /\ Owned(n, p) = Owned(m, p)
    BY <1>2, <1>4
  <2>2. \A l \in DOMAIN pool.lease : Belongs(pool, l, p) => Belongs(n, l, p)
    BY <1>2, <2>1 DEF Untouched, Belongs
  <2> QED
    BY <1>2, <2>1, <2>2 DEF Untouched
<1>5. Owned(n, o) = {}
  BY <1>2
<1>6. LoopFits(n, <<>>, st, o)
  <2>1. DOMAIN <<>> \subseteq SegmentsOf[o]
    BY EmptyOptions
  <2>2. Named(st) = {} /\ st.stage # "running"
    BY DEF Named
  <2>3. \A l \in st.logical \cup st.physical : Belongs(n, l, o)
    BY <1>2 DEF Belongs
  <2> QED
    BY <1>5, <2>1, <2>2, <2>3 DEF LoopFits, OfSources
<1> QED
  BY <1>1, <1>3, <1>4, <1>6, EmptyOptions, LoopStep

(* The two handlers that give back what was frozen, of some segments or of *)
(* all (v8_orchestration.py:274, 311).                                     *)
LEMMA HandlerFits ==
    ASSUME LoopInv, NEW o \in Owners, NEW G, G \subseteq Granted(o), loop[o].stage = "none",
           Raises(o, ReleaseAll(FrozenAll(o, G), NewIn(FrozenAll(o, G)), "request"), Idle)
    PROVE  LoopInv'
<1> DEFINE m == FrozenAll(o, G)
           L == NewIn(m)
<1>1. /\ Froze(o, G, m) /\ Owned(m, o) = L
      /\ \A p \in Owners : p # o => Untouched(p, pool, m)
  BY GrantedFroze
<1>2. /\ pool' = ReleaseAll(m, L, "request")
      /\ option' = [option EXCEPT ![o] = <<>>] /\ loop' = [loop EXCEPT ![o] = Idle]
  BY DEF Raises
<1> HIDE DEF m
<1>3. Good(m) /\ \A l \in L : m.lease[l].owner = o
  BY <1>1 DEF Froze
<1>4. \A p \in Owners : p # o => Owned(m, p) \cap L = {}
  BY <1>3 DEF Owned
<1>5. Idle \in LoopStates /\ Idle.stage = "none" /\ Idle.logical = {} /\ Idle.physical = {}
  BY EmptyOptions
<1> HIDE DEF L
<1> QED
  BY <1>1, <1>2, <1>3, <1>4, <1>5, TakenBack

(* The planner raises: the leases stay, and no state names them but ours.  *)
LEMMA PlannerFits ==
    ASSUME LoopInv, NEW o \in Owners, loop[o].stage = "none", PlannerRaises(o)
    PROVE  LoopInv'
<1> DEFINE m == FrozenAll(o, Locked(o))
           st == Abandoned(NewIn(m))
<1>1. Locked(o) \subseteq Granted(o)
  BY DEF PlannerRaises
<1>2. /\ Froze(o, Locked(o), m) /\ Owned(m, o) = NewIn(m)
      /\ \A p \in Owners : p # o => Untouched(p, pool, m)
  BY <1>1, GrantedFroze
<1>3. /\ pool' = m /\ option' = [option EXCEPT ![o] = <<>>]
      /\ loop' = [loop EXCEPT ![o] = st]
  BY DEF PlannerRaises, Raises
<1> HIDE DEF m
<1>4. NewIn(m) \in SUBSET Nat
  BY <1>2 DEF NewIn, Froze
<1>5. st \in LoopStates /\ st.stage = "abandoned" /\ Named(st) = NewIn(m)
      /\ st.logical = NewIn(m) /\ st.physical = {}
      /\ st.logical \cup st.physical = NewIn(m)
  BY <1>4 DEF Abandoned, Idle, LoopStates, Named
<1> HIDE DEF st
<1>6. LoopFits(m, <<>>, st, o)
  <2>1. DOMAIN <<>> \subseteq SegmentsOf[o]
    BY EmptyOptions
  <2>2. \A l \in NewIn(m) : Belongs(m, l, o)
    BY <1>2 DEF Belongs, Froze
  <2>3. OfSources(m, st)
    BY <1>2, <1>5 DEF OfSources, Froze
  <2> QED
    BY <1>2, <1>5, <2>1, <2>2, <2>3 DEF LoopFits
<1>7. Good(m) /\ <<>> \in OptionTables
  BY <1>2, EmptyOptions DEF Froze
<1> QED
  BY <1>2, <1>3, <1>5, <1>6, <1>7, LoopStep

(* A plan's batch is of the locked segments in order, each for execution   *)
(* on the Replica of its option.                                           *)
LEMMA BatchShape ==
    ASSUME LoopInv, NEW o \in Owners, NEW P, P \subseteq Locked(o)
    PROVE  LET reqs == BatchOf(o, P)
           IN  /\ reqs \in Seq(BatchRequests)
               /\ \A i \in DOMAIN reqs :
                    /\ reqs[i].segment \in Locked(o)
                    /\ reqs[i].source = WinnerOf(o, reqs[i].segment)
                    /\ reqs[i].replica \in Replicas
                    /\ reqs[i].placement = option[o][reqs[i].segment].placement
<1> DEFINE n == Cardinality(P)
           q == InOrder(P)
           reqs == BatchOf(o, P)
           Of == [g \in P |->
                    [segment |-> g, source |-> WinnerOf(o, g), replica |-> option[o][g].replica,
                     placement |-> option[o][g].placement, purpose |-> "execution"]]
<1>1. P \subseteq Segments /\ IsFiniteSet(P) /\ P \in SUBSET Locked(o)
  BY OptionShape, FS_Subset
<1>2. n \in Nat /\ q \in [1..n -> P]
  BY <1>1, OrderedSegments
<1>3. reqs = [i \in 1..n |-> Of[q[i]]]
  BY <1>2 DEF BatchOf
<1> HIDE DEF reqs, q, n
<1>4. ASSUME NEW g \in P
      PROVE  /\ Of[g] \in BatchRequests /\ Of[g].segment = g
             /\ Of[g].source = WinnerOf(o, g) /\ Of[g].replica \in Replicas
             /\ Of[g].placement = option[o][g].placement
  <2>1. /\ g \in Segments /\ WinnerOf(o, g) \in Sources
        /\ option[o][g].replica \in Replicas /\ option[o][g].placement \in Nat
    BY <1>1, OptionShape
  <2> QED
    BY <2>1 DEF BatchRequests, Purposes
<1> HIDE DEF Of
<1>5. reqs \in [1..n -> BatchRequests]
  BY <1>2, <1>3, <1>4
<1>6. reqs \in Seq(BatchRequests) /\ DOMAIN reqs = 1..n
  BY <1>2, <1>5
<1>7. ASSUME NEW i \in DOMAIN reqs
      PROVE  /\ reqs[i].segment \in Locked(o)
             /\ reqs[i].source = WinnerOf(o, reqs[i].segment)
             /\ reqs[i].replica \in Replicas
             /\ reqs[i].placement = option[o][reqs[i].segment].placement
  <2>1. q[i] \in P /\ reqs[i] = Of[q[i]]
    BY <1>2, <1>3, <1>6
  <2> QED
    BY <1>1, <1>4, <2>1
<1> QED
  BY <1>6, <1>7 DEF reqs

(* What the batch adds to the lease table.                                 *)
LEMMA BatchAdds ==
    ASSUME NEW m, Good(m), NEW o \in Owners, NEW reqs \in Seq(BatchRequests),
           NEW n, n = LeaseBatch(m, o, reqs, 0, 0)
    PROVE  /\ DOMAIN n.lease = DOMAIN m.lease \cup {Len(m.lease) + i : i \in DOMAIN reqs}
           /\ \A i \in DOMAIN reqs : Len(m.lease) + i \notin DOMAIN m.lease
           /\ \A l \in DOMAIN m.lease : n.lease[l] = m.lease[l]
           /\ \A i \in DOMAIN reqs :
                n.lease[Len(m.lease) + i] = BatchLease(o, reqs[i], 0, 0)
<1> DEFINE Table(x, left, t) ==
             /\ DOMAIN x.lease = DOMAIN m.lease \cup {Len(m.lease) + i : i \in DOMAIN reqs}
             /\ \A i \in DOMAIN reqs : Len(m.lease) + i \notin DOMAIN m.lease
             /\ \A l \in DOMAIN m.lease : x.lease[l] = m.lease[l]
             /\ \A i \in DOMAIN reqs :
                  x.lease[Len(m.lease) + i] = BatchLease(o, reqs[i], left, t)
<1>1. m \in ManagerStates /\ 0 \in Nat
  BY DEF Good
<1>2. ASSUME NEW left \in Nat, NEW t \in Nat
      PROVE  Table(LeaseBatch(m, o, reqs, left, t), left, t)
  BY <1>1, BatchTable
<1> HIDE DEF Table
<1>3. Table(n, 0, 0)
  BY <1>1, <1>2
<1> QED
  BY <1>3 DEF Table

(* The call returns: every locked segment has a logical lease, every one   *)
(* of the plan an executing one (v8_orchestration.py:316).                 *)
LEMMA PredictFits ==
    ASSUME LoopInv, NEW o \in Owners, NEW P \in SUBSET Locked(o), loop[o].stage = "none",
           FreezeAndPredict(o, P)
    PROVE  LoopInv'
<1> DEFINE m == FrozenAll(o, Locked(o))
           reqs == BatchOf(o, P)
           n == IF P = {} THEN m ELSE LeaseBatch(m, o, reqs, 0, 0)
           L == NewIn(m)
           K == NewIn(n) \ NewIn(m)
           st == Running(L, K)
           opt == option[o]
<1>1. Locked(o) \subseteq Granted(o)
  BY DEF FreezeAndPredict
<1>2. /\ Froze(o, Locked(o), m) /\ Owned(m, o) = L
      /\ \A p \in Owners : p # o => Untouched(p, pool, m)
  BY <1>1, GrantedFroze
<1>3. /\ P = {} \/ CanLeaseBatch(m, o, reqs, HbmCap)
      /\ pool' = n /\ loop' = [loop EXCEPT ![o] = st] /\ option' = option
  BY DEF FreezeAndPredict
<1>4. /\ reqs \in Seq(BatchRequests)
      /\ \A i \in DOMAIN reqs :
           /\ reqs[i].segment \in Locked(o)
           /\ reqs[i].source = WinnerOf(o, reqs[i].segment)
           /\ reqs[i].replica \in Replicas
           /\ reqs[i].placement = option[o][reqs[i].segment].placement
  BY BatchShape
<1> HIDE DEF m, reqs
<1>5. Good(m) /\ m \in ManagerStates /\ Len(m.lease) \in Nat /\ DOMAIN m.lease = 1..Len(m.lease)
  BY <1>2 DEF Froze, Good, ManagerStates
<1> DEFINE k == Len(m.lease)
           (* What the batch adds to the table.                            *)
           Adds == /\ Good(n) /\ n.placement = m.placement
                   /\ DOMAIN n.lease = DOMAIN m.lease \cup K
                   /\ DOMAIN m.lease \cap K = {}
                   /\ \A l \in DOMAIN m.lease : n.lease[l] = m.lease[l]
                   /\ K \subseteq Nat
                   /\ \A l \in K :
                        /\ n.lease[l].owner = o /\ n.lease[l].state = "active"
                        /\ n.lease[l].segment \in Locked(o)
                        /\ n.lease[l].source = WinnerOf(o, n.lease[l].segment)
                        /\ n.lease[l].replica \in Replicas
                        /\ n.placement[n.lease[l].replica] = opt[n.lease[l].segment].placement
<1>6. Adds
  <2>1. CASE P = {}
    <3>1. n = m /\ K = {}
      BY <2>1
    <3> HIDE DEF n, K
    <3> QED
      BY <1>5, <3>1
  <2>2. CASE P # {}
    <3>1. n = LeaseBatch(m, o, reqs, 0, 0) /\ CanLeaseBatch(m, o, reqs, HbmCap) /\ 0 \in Nat
      BY <1>3, <2>2
    <3> HIDE DEF n
    <3>2. Good(n) /\ n \in ManagerStates
      BY <1>4, <1>5, <3>1, BatchGood DEF Good
    <3>3. /\ DOMAIN n.lease = DOMAIN m.lease \cup {k + i : i \in DOMAIN reqs}
          /\ \A i \in DOMAIN reqs : k + i \notin DOMAIN m.lease
          /\ \A l \in DOMAIN m.lease : n.lease[l] = m.lease[l]
          /\ \A i \in DOMAIN reqs : n.lease[k + i] = BatchLease(o, reqs[i], 0, 0)
      BY <1>4, <1>5, <3>1, BatchAdds
    <3>4. n.placement = m.placement
      BY <1>5, <3>1 DEF LeaseBatch, ManagerStates
    <3>5. Len(n.lease) \in Nat /\ DOMAIN n.lease = 1..Len(n.lease)
      BY <3>2 DEF ManagerStates
    <3>6. NewIn(m) = (Len(pool.lease) + 1)..k /\ NewIn(n) = (Len(pool.lease) + 1)..Len(n.lease)
          /\ Len(pool.lease) \in Nat /\ DOMAIN pool.lease = 1..Len(pool.lease)
          /\ DOMAIN m.lease = DOMAIN pool.lease \cup NewIn(m)
      BY <1>2 DEF NewIn, Froze
    <3>7. \A l \in DOMAIN n.lease : l \in K \/ l \in DOMAIN m.lease
      BY <3>5, <3>6
    <3>8. \A l \in K : l \in DOMAIN n.lease /\ l \notin DOMAIN m.lease /\ l \in Nat
      BY <1>5, <3>5, <3>6
    <3>9. \A l \in DOMAIN m.lease : l \in DOMAIN n.lease
      BY <3>3
    <3> HIDE DEF K, k
    <3>10. ASSUME NEW l \in K
           PROVE  /\ n.lease[l].owner = o /\ n.lease[l].state = "active"
                  /\ n.lease[l].segment \in Locked(o)
                  /\ n.lease[l].source = WinnerOf(o, n.lease[l].segment)
                  /\ n.lease[l].replica \in Replicas
                  /\ n.placement[n.lease[l].replica] = opt[n.lease[l].segment].placement
      <4>1. PICK i \in DOMAIN reqs : l = k + i
        BY <3>3, <3>8
      <4> DEFINE new == BatchLease(o, reqs[i], 0, 0)
      <4>2. n.lease[l] = new
        BY <3>3, <4>1
      <4>3. /\ new.owner = o /\ new.state = "active" /\ new.segment = reqs[i].segment
            /\ new.source = reqs[i].source /\ new.replica = reqs[i].replica
        BY DEF BatchLease, NewLease
      <4> HIDE DEF new
      <4>4. m.placement[reqs[i].replica] = reqs[i].placement
        BY <3>1 DEF CanLeaseBatch, Bindable
      <4> QED
        BY <1>4, <3>4, <4>2, <4>3, <4>4
    <3>11. DOMAIN n.lease = DOMAIN m.lease \cup K /\ DOMAIN m.lease \cap K = {} /\ K \subseteq Nat
      BY <3>7, <3>8, <3>9
    <3> QED
      BY <3>2, <3>3, <3>4, <3>10, <3>11
  <2> QED
    BY <2>1, <2>2
<1> HIDE DEF n, K, st
<1>7. Owned(n, o) = L \cup K
  <2>1. \A l \in DOMAIN m.lease : l \in Owned(n, o) <=> l \in Owned(m, o)
    BY <1>6 DEF Owned, Live
  <2>2. \A l \in K : l \in Owned(n, o)
    BY <1>6 DEF Owned, Live
  <2>3. \A l \in Owned(n, o) : l \in DOMAIN m.lease \/ l \in K
    BY <1>6 DEF Owned, Live
  <2>4. \A l \in Owned(m, o) : l \in DOMAIN m.lease
    BY DEF Owned, Live
  <2> HIDE DEF L
  <2> QED
    BY <1>2, <2>1, <2>2, <2>3, <2>4
<1>8. ASSUME NEW p \in Owners, p # o PROVE Untouched(p, pool, n)
  <2>1. Untouched(p, pool, m)
    BY <1>2, <1>8
  <2>2. \A l \in Owned(n, p) : l \in Owned(m, p)
    BY <1>6, <1>8 DEF Owned, Live
  <2>3. \A l \in Owned(m, p) : l \in Owned(n, p) /\ n.lease[l] = m.lease[l]
    BY <1>6 DEF Owned, Live
  <2>4. n.placement = m.placement
    BY <1>6
  <2>5. \A l \in DOMAIN pool.lease : Belongs(pool, l, p) => Belongs(n, l, p)
    BY <1>6, <2>1 DEF Untouched, Belongs
  <2> QED
    BY <2>1, <2>2, <2>3, <2>4, <2>5 DEF Untouched
<1>9. /\ st.stage = "running" /\ st.logical = L /\ st.physical = K /\ st \in LoopStates
      /\ Named(st) = L \cup K
  <2>1. L \subseteq Nat /\ K \subseteq Nat
    <3>1. L \subseteq DOMAIN m.lease
      BY <1>2 DEF Froze
    <3> HIDE DEF L
    <3> QED
      BY <1>5, <1>6, <3>1
  <2> HIDE DEF L
  <2> QED
    BY <2>1 DEF st, Running, LoopStates, Named
<1>10. \A l \in L : /\ n.lease[l] = m.lease[l] /\ m.lease[l].segment \in Locked(o)
                    /\ m.lease[l].source = WinnerOf(o, m.lease[l].segment)
                    /\ m.lease[l].replica = NoReplica
  BY <1>2, <1>6 DEF Froze
<1>11. \A g \in Locked(o) : \E l \in L : n.lease[l].segment = g
  BY <1>2, <1>10 DEF Froze
<1> HIDE DEF L
<1>12. Bound(n, opt, st)
  <2>1. {n.lease[l].segment : l \in L} = Locked(o)
    BY <1>10, <1>11
  <2>2. DOMAIN opt = Locked(o)
    BY DEF Locked
  <2>3. \A l \in L \cup K : n.lease[l].source = SourceOf[opt[n.lease[l].segment].replica]
    BY <1>6, <1>10 DEF WinnerOf
  <2> QED
    BY <1>6, <1>9, <2>1, <2>2, <2>3 DEF Bound
<1>13. LoopFits(n, opt, st, o)
  <2>1. \A l \in L \cup K : Belongs(n, l, o)
    BY <1>7 DEF Belongs, Owned, Live
  <2>2. OfSources(n, st)
    BY <1>9, <1>10 DEF OfSources
  <2> QED
    BY <1>7, <1>9, <1>12, <2>1, <2>2 DEF LoopFits, LoopInv
<1>14. /\ opt \in OptionTables /\ option' = [option EXCEPT ![o] = opt]
  BY <1>3 DEF LoopInv
<1>15. Good(n)
  BY <1>6
<1> HIDE DEF opt
<1> QED
  BY <1>3, <1>8, <1>9, <1>13, <1>14, <1>15, LoopStep

(* release_request, called once or again (v8_orchestration.py:344).        *)
LEMMA ReleaseRequestFits ==
    ASSUME LoopInv, NEW o \in Owners, ReleaseRequest(o)
    PROVE  LoopInv'
<1> DEFINE L == loop[o].physical \cup loop[o].logical
           st == [loop[o] EXCEPT !.stage = "released"]
<1>1. loop[o] \in LoopStates /\ loop \in [Owners -> LoopStates]
      /\ LoopFits(pool, option[o], loop[o], o) /\ Good(pool)
  BY DEF LoopInv
<1>2. /\ pool' = ReleaseAll(pool, L, "request") /\ loop[o].stage \in {"running", "released"}
      /\ option' = [option EXCEPT ![o] = <<>>] /\ loop' = [loop EXCEPT ![o] = st]
  BY <1>1 DEF ReleaseRequest
<1>3. st \in LoopStates /\ st.stage = "released"
      /\ st.logical = loop[o].logical /\ st.physical = loop[o].physical
  BY <1>1 DEF LoopStates
<1> HIDE DEF st
<1>4. Owned(pool, o) \subseteq L
  <2>1. Owned(pool, o) = Named(loop[o])
    BY <1>1 DEF LoopFits
  <2> QED
    BY <2>1 DEF Named
<1>5. \A l \in L : Belongs(pool, l, o)
  BY <1>1 DEF LoopFits
<1>6. \A p \in Owners : p # o => Untouched(p, pool, pool) /\ Owned(pool, p) \cap L = {}
  BY <1>5 DEF Untouched, Belongs, Owned
<1> HIDE DEF L
<1>7. \A l \in st.logical \cup st.physical : Belongs(pool, l, o)
  BY <1>3, <1>5 DEF L
<1> QED
  BY <1>1, <1>2, <1>3, <1>4, <1>6, <1>7, TakenBack

(* Whoever holds a Replica keeps it where it is: a leased one is there, so *)
(* it is not placed again, and it is held, so it is not displaced.         *)
LEMMA PoolChangeFits ==
    ASSUME LoopInv, NEW r \in Replicas, PlaceAgain(r) \/ Displace(r)
    PROVE  LoopInv'
<1>1. Good(pool) /\ pool \in ManagerStates /\ option' = option /\ loop' = loop
  BY DEF LoopInv, Good, PlaceAgain, Displace
<1>2. /\ Good(pool') /\ pool'.lease = pool.lease
      /\ \A q \in Replicas : q # r \/ Present(pool, q) => pool'.placement[q] = pool.placement[q]
  <2>1. CASE PlaceAgain(r)
    <3>1. /\ CanRegisterReplica(pool, r, TierOf[r] = "cpu") /\ ~Present(pool, r)
          /\ pool' = RegisterReplica(pool, r, TierOf[r] = "cpu", "ready")
      BY <2>1 DEF PlaceAgain
    <3>2. \A b \in BOOLEAN : CanRegisterReplica(pool, r, b) => Good(RegisterReplica(pool, r, b, "ready"))
      BY <1>1, RegisterReplicaGood
    <3>3. (TierOf[r] = "cpu") \in BOOLEAN
      OBVIOUS
    <3>4. Good(pool')
      BY <3>1, <3>2, <3>3, Zenon
    <3>5. pool'.lease = pool.lease
          /\ pool'.placement = [pool.placement EXCEPT ![r] = @ + 1]
      BY <1>1, <3>1 DEF RegisterReplica, ManagerStates
    <3>6. pool.placement \in [Replicas -> Nat]
      BY <1>1 DEF ManagerStates
    <3> QED
      BY <3>1, <3>4, <3>5, <3>6
  <2>2. CASE Displace(r)
    <3>1. CanEvictReplica(pool, r) /\ pool' = EvictReplica(pool, r)
      BY <2>2 DEF Displace
    <3>2. pool'.lease = pool.lease /\ pool'.placement = pool.placement
      BY <1>1, <3>1 DEF EvictReplica, ManagerStates
    <3> QED
      BY <1>1, <3>1, <3>2, EvictGood
  <2> QED
    BY <2>1, <2>2
<1>3. ASSUME NEW p \in Owners PROVE Untouched(p, pool, pool')
  <2>1. \A l \in Owned(pool, p) : pool.lease[l].replica # NoReplica =>
          pool'.placement[pool.lease[l].replica] = pool.placement[pool.lease[l].replica]
    <3> TAKE l \in Owned(pool, p)
    <3> HAVE pool.lease[l].replica # NoReplica
    <3>1. l \in Live(pool) /\ l \in DOMAIN pool.lease
      BY DEF Owned, Live
    <3>2. pool.lease[l].replica \in Replicas
      BY <1>1, <3>1, RecordTypes
    <3>3. Present(pool, pool.lease[l].replica)
      BY <1>1, <3>1 DEF Good, LeasesProtect, Present
    <3> QED
      BY <1>2, <3>2, <3>3
  <2> QED
    BY <1>2, <2>1 DEF Untouched, Owned, Live, Belongs
<1> QED
  BY <1>1, <1>2, <1>3, LoopStay

(* Every matched Replica is placed once, and nothing is leased.            *)
LEMMA OrchestratorStarts == OrchestratorInit => LoopInv
<1> SUFFICES ASSUME OrchestratorInit PROVE LoopInv
  OBVIOUS
<1>1. pool \in ManagerStates
  <2> DEFINE source == [s \in Sources |-> "active"]
             life == [r \in Replicas |-> IF r \in Matched THEN "ready" ELSE "absent"]
             backing == [r \in Replicas |-> r \in Matched /\ TierOf[r] = "cpu"]
             placement == [r \in Replicas |-> IF r \in Matched THEN 1 ELSE 0]
  <2>1. EmptyManager \in ManagerStates
    BY DEF EmptyManager, NewManager, ManagerStates, SourceStates, ReplicaStates
  <2>2. pool = [EmptyManager EXCEPT !.source = source, !.life = life,
                                    !.backing = backing, !.placement = placement]
    BY DEF OrchestratorInit
  <2>3. /\ source \in [Sources -> SourceStates] /\ life \in [Replicas -> ReplicaStates]
        /\ backing \in [Replicas -> BOOLEAN] /\ placement \in [Replicas -> Nat]
    BY DEF SourceStates, ReplicaStates
  <2> HIDE DEF source, life, backing, placement
  <2> QED
    BY <2>1, <2>2, <2>3 DEF ManagerStates
<1>2. /\ pool.lease = <<>> /\ pool.logical = [s \in Sources |-> 0]
      /\ pool.refs = [r \in Replicas |-> 0] /\ pool.copies = [r \in Replicas |-> 0]
      /\ pool.execs = [r \in Replicas |-> 0]
  BY DEF OrchestratorInit, EmptyManager, NewManager
<1>3. DOMAIN pool.lease = {} /\ Live(pool) = {}
  BY <1>2 DEF Live
<1>4. CountersMatch(pool)
  <2>1. /\ \A s \in Sources : LogicalHolders(pool, s) = {}
        /\ \A r \in Replicas : /\ Holders(pool, r) = {} /\ Copiers(pool, r) = {}
                               /\ Executors(pool, r) = {}
    BY <1>3 DEF LogicalHolders, Holders, Copiers, Executors
  <2>2. /\ \A s \in Sources : Cardinality(LogicalHolders(pool, s)) = 0
        /\ \A r \in Replicas : /\ Cardinality(Holders(pool, r)) = 0
                               /\ Cardinality(Copiers(pool, r)) = 0
                               /\ Cardinality(Executors(pool, r)) = 0
    BY <2>1, FS_EmptySet, Zenon
  <2> QED
    BY <1>2, <2>2 DEF CountersMatch
<1>5. Good(pool)
  BY <1>1, <1>3, <1>4 DEF Good, Shape, LeasesProtect
<1>6. /\ option \in [Owners -> OptionTables] /\ loop \in [Owners -> LoopStates]
      /\ \A o \in Owners : option[o] = <<>> /\ loop[o] = Idle
  BY EmptyOptions DEF OrchestratorInit
<1>7. ASSUME NEW o \in Owners PROVE LoopFits(pool, option[o], loop[o], o)
  <2>1. Owned(pool, o) = {}
    BY <1>3 DEF Owned
  <2>2. DOMAIN <<>> \subseteq SegmentsOf[o] /\ Idle.stage # "running"
        /\ Named(Idle) = {} /\ Idle.logical \cup Idle.physical = {}
    BY EmptyOptions
  <2>3. LoopFits(pool, <<>>, Idle, o)
    BY <2>1, <2>2 DEF LoopFits, OfSources
  <2> QED
    BY <1>6, <2>3
<1> QED
  BY <1>5, <1>6, <1>7 DEF LoopInv

(* No step breaks it.                                                      *)
LEMMA OrchestratorKept == LoopInv /\ [OrchestratorNext]_orchestratorVars => LoopInv'
<1> SUFFICES ASSUME LoopInv, [OrchestratorNext]_orchestratorVars PROVE LoopInv'
  OBVIOUS
<1>1. ASSUME NEW o \in Owners, CallReturns(o) PROVE LoopInv'
  <2>1. loop[o].stage = "none"
    BY <1>1 DEF CallReturns
  <2>2. CASE FreezeRaises(o)
    <3>1. Raises(o, ReleaseAll(FrozenAll(o, Granted(o)),
                               NewIn(FrozenAll(o, Granted(o))), "request"), Idle)
      BY <2>2 DEF FreezeRaises
    <3> QED
      BY <2>1, <3>1, HandlerFits
  <2>3. CASE PlannerRaises(o)
    BY <2>1, <2>3, PlannerFits
  <2>4. ASSUME NEW P \in SUBSET Locked(o), LeaseRaises(o, P) PROVE LoopInv'
    <3>1. Locked(o) \subseteq Granted(o)
          /\ Raises(o, ReleaseAll(FrozenAll(o, Locked(o)),
                                  NewIn(FrozenAll(o, Locked(o))), "request"), Idle)
      BY <2>4 DEF LeaseRaises, RolledBack
    <3> QED
      BY <2>1, <3>1, HandlerFits
  <2>5. ASSUME NEW P \in SUBSET Locked(o), FreezeAndPredict(o, P) PROVE LoopInv'
    BY <2>1, <2>5, PredictFits
  <2> QED
    BY <1>1, <2>2, <2>3, <2>4, <2>5 DEF CallReturns
<1>2. CASE UNCHANGED orchestratorVars
  <2>1. pool' = pool /\ option' = option /\ loop' = loop
    BY <1>2 DEF orchestratorVars
  <2>2. Good(pool') /\ \A p \in Owners : Untouched(p, pool, pool')
    BY <2>1 DEF LoopInv, Untouched
  <2> QED
    BY <2>1, <2>2, LoopStay
<1>3. Matched \subseteq Replicas /\ \A G : [G -> Matched] \subseteq [G -> Replicas]
  BY DEF Matched
<1>4. CASE OrchestratorNext
  BY <1>1, <1>3, <1>4, LockWinnersFits, ReleaseRequestFits, PoolChangeFits DEF OrchestratorNext
<1> QED
  BY <1>2, <1>4

(* What a request holds is what its state names, on the Sources it locked  *)
(* and on Replicas placed as when it chose them, however the calls of      *)
(* freeze_and_predict and release_request fail and interleave              *)
(* (v8_orchestration.py:236).  Where the planner raised, what was taken    *)
(* before stays, and is on no Replica (v8_orchestration.py:279).           *)
THEOREM ClosedLoopKept == OrchestratorSpec => []ClosedLoopHolds
<1>1. LoopInv => ClosedLoopHolds
  <2> SUFFICES ASSUME LoopInv, NEW o \in Owners
               PROVE  /\ {l \in Live(pool) : pool.lease[l].owner = o}
                           = IF loop[o].stage \in {"running", "abandoned"}
                             THEN loop[o].logical \cup loop[o].physical ELSE {}
                      /\ OfSources(pool, loop[o])
                      /\ loop[o].stage = "running" =>
                           /\ {pool.lease[l].segment : l \in loop[o].logical} = Locked(o)
                           /\ \A l \in loop[o].logical \cup loop[o].physical :
                                pool.lease[l].source = WinnerOf(o, pool.lease[l].segment)
                           /\ \A l \in loop[o].physical :
                                LET g == pool.lease[l].segment
                                IN  /\ pool.life[pool.lease[l].replica] = "ready"
                                    /\ pool.placement[pool.lease[l].replica]
                                         = option[o][g].placement
    BY DEF ClosedLoopHolds, OfSources
  <2>1. LoopFits(pool, option[o], loop[o], o) /\ Good(pool)
    BY DEF LoopInv
  <2>2. Owned(pool, o) = Named(loop[o]) /\ OfSources(pool, loop[o])
    BY <2>1 DEF LoopFits
  <2>3. ASSUME loop[o].stage = "running"
        PROVE  /\ {pool.lease[l].segment : l \in loop[o].logical} = Locked(o)
               /\ \A l \in loop[o].logical \cup loop[o].physical :
                    pool.lease[l].source = WinnerOf(o, pool.lease[l].segment)
               /\ \A l \in loop[o].physical :
                    /\ pool.life[pool.lease[l].replica] = "ready"
                    /\ pool.placement[pool.lease[l].replica]
                         = option[o][pool.lease[l].segment].placement
    <3>1. Bound(pool, option[o], loop[o]) /\ Named(loop[o]) = loop[o].logical \cup loop[o].physical
      BY <2>1, <2>3 DEF LoopFits, Named
    <3>2. \A l \in loop[o].physical : pool.life[pool.lease[l].replica] = "ready"
      <4> TAKE l \in loop[o].physical
      <4>1. l \in Live(pool) /\ pool.lease[l].replica \in Replicas
        BY <2>2, <3>1 DEF Owned, Bound
      <4>2. pool.lease[l].replica # NoReplica
        BY <4>1, NullValues
      <4> QED
        BY <2>1, <4>1, <4>2 DEF Good, LeasesProtect
    <3> QED
      BY <3>1, <3>2 DEF Bound, WinnerOf, Locked
  <2> QED
    BY <2>2, <2>3 DEF Owned, Named
<1> QED
  BY <1>1, OrchestratorStarts, OrchestratorKept, PTL DEF OrchestratorSpec
=============================================================================
