--------------------------- MODULE LeaseOpsProofs ---------------------------
(***************************************************************************)
(* Lemmas about the lease manager's operators, for any sets of requests,   *)
(* segments, Source Variants and Replicas and every ttl_floor_s and        *)
(* orphan_grace_s.  Good is what every method keeps: the checked claims    *)
(* and what their proofs need of each record (Shape: a live record with a  *)
(* copy or an execution is physical, a binding belongs to its Source and   *)
(* the frozen map names it); Timely adds the times (a lease expires no     *)
(* earlier than one TTL floor after its last heartbeat).  One lemma per    *)
(* manager method shows that the method keeps it.  Whoever composes the    *)
(* operators cites them: LeasesProofs, RequestProofs.                      *)
(***************************************************************************)
EXTENDS LeaseOps, FiniteSetTheorems, TLAPS

(* Subsets of the lease table are finite. *)
LEMMA TableFinite ==
    ASSUME NEW m \in ManagerStates, NEW L, L \subseteq DOMAIN m.lease
    PROVE  IsFiniteSet(L) /\ Cardinality(L) \in Nat
<1>1. m.lease \in Seq(LeaseRecords)
  BY DEF ManagerStates
<1>2. DOMAIN m.lease = 1..Len(m.lease) /\ Len(m.lease) \in Nat
  BY <1>1
<1>3. IsFiniteSet(DOMAIN m.lease)
  BY <1>2, FS_Interval
<1> QED
  BY <1>3, FS_Subset, FS_CardinalityType

(* What a record of the lease table consists of. *)
LEMMA RecordTypes ==
    ASSUME NEW m \in ManagerStates
    PROVE  \A l \in DOMAIN m.lease :
             /\ m.lease[l] \in LeaseRecords
             /\ m.lease[l].owner \in Owners
             /\ m.lease[l].segment \in Segments
             /\ m.lease[l].source \in Sources
             /\ m.lease[l].replica \in Replicas \cup {NoReplica}
             /\ m.lease[l].heartbeat \in Nat
             /\ m.lease[l].expires \in Nat
             /\ m.lease[l].suspectAt \in Nat \cup {NoTime}
             /\ m.lease[l].state \in LeaseStates
<1>1. \A l \in DOMAIN m.lease : m.lease[l] \in LeaseRecords
  BY DEF ManagerStates
<1>2. \A x \in LeaseRecords :
        /\ x.owner \in Owners /\ x.segment \in Segments /\ x.source \in Sources
        /\ x.replica \in Replicas \cup {NoReplica}
        /\ x.heartbeat \in Nat /\ x.expires \in Nat
        /\ x.suspectAt \in Nat \cup {NoTime} /\ x.state \in LeaseStates
  BY DEF LeaseRecords
<1> QED
  BY <1>1, <1>2

(* Moving a finite set of positions along by n keeps its size. *)
LEMMA ShiftCardinality ==
    ASSUME NEW n \in Nat, NEW S \in SUBSET Nat, IsFiniteSet(S)
    PROVE  LET T == {n + i : i \in S}
           IN  IsFiniteSet(T) /\ Cardinality(T) = Cardinality(S)
<1> DEFINE T == {n + i : i \in S}
           f == [i \in S |-> n + i]
<1>1. f \in Bijection(S, T)
  BY DEF Bijection, Injection, Surjection, IsInjective
<1> QED
  BY <1>1, FS_Bijection DEF ExistsBijection

(* ReleaseAll takes exactly the leases of L out of every view. *)
LEMMA ReleasedViews ==
    ASSUME NEW m \in ManagerStates, NEW L, NEW reason
    PROVE  LET n == ReleaseAll(m, L, reason)
           IN  /\ \A r \in Replicas :
                    /\ Holders(n, r) = Holders(m, r) \ L
                    /\ Copiers(n, r) = Copiers(m, r) \ L
                    /\ Executors(n, r) = Executors(m, r) \ L
               /\ \A s \in Sources : LogicalHolders(n, s) = LogicalHolders(m, s) \ L
<1> DEFINE n == ReleaseAll(m, L, reason)
<1>1. DOMAIN n.lease = DOMAIN m.lease
  BY DEF ReleaseAll, ManagerStates
<1>2. \A l \in DOMAIN m.lease :
        n.lease[l] = IF l \in L /\ l \in Live(m)
                     THEN Released(m.lease[l], reason) ELSE m.lease[l]
  BY DEF ReleaseAll, ManagerStates
<1>3. \A l \in DOMAIN m.lease : m.lease[l] \in LeaseRecords
  BY DEF ManagerStates
<1>4. \A l \in DOMAIN m.lease : l \in L /\ l \in Live(m) =>
        n.lease[l].state = "released"
  BY <1>2, <1>3 DEF Released, LeaseRecords
<1>5. Live(n) = Live(m) \ L
  BY <1>1, <1>2, <1>4 DEF Live
<1>6. \A l \in Live(n) : n.lease[l] = m.lease[l]
  BY <1>1, <1>2, <1>5 DEF Live
<1> QED
  BY <1>5, <1>6 DEF Holders, Copiers, Executors, LogicalHolders

(***************************************************************************)
(* The inductive invariant of the manager's state.                         *)
(***************************************************************************)
(* What every record of the lease table keeps: it names the frozen Source  *)
(* of its segment, a physical one a Replica of that Source, and only a     *)
(* physical one copies or executes, not the latter while speculative.      *)
Shape(m) ==
    \A l \in DOMAIN m.lease :
        LET lease == m.lease[l]
        IN  /\ m.frozen[lease.owner][lease.segment] = lease.source
            /\ lease.replica = NoReplica =>
                 lease.purpose = "logical" /\ ~lease.copy /\ ~lease.exec
            /\ lease.replica # NoReplica =>
                 SourceOf[lease.replica] = lease.source /\ lease.purpose # "logical"
            /\ lease.purpose = "speculative" => ~lease.exec

Good(m) == m \in ManagerStates /\ CountersMatch(m) /\ Shape(m) /\ LeasesProtect(m)

(* Changing only the times of leases, and their state among the live ones, *)
(* keeps the invariant: the sweep's renewals and suspicions, heartbeats.   *)
LEMMA RetimedGood ==
    ASSUME NEW m, Good(m), NEW T \in Seq(LeaseRecords),
           DOMAIN T = DOMAIN m.lease,
           \A l \in DOMAIN T :
             /\ T[l].owner = m.lease[l].owner
             /\ T[l].segment = m.lease[l].segment
             /\ T[l].source = m.lease[l].source
             /\ T[l].replica = m.lease[l].replica
             /\ T[l].purpose = m.lease[l].purpose
             /\ T[l].copy = m.lease[l].copy
             /\ T[l].exec = m.lease[l].exec
             /\ T[l].state = "released" <=> m.lease[l].state = "released"
    PROVE  Good([m EXCEPT !.lease = T])
<1> DEFINE n == [m EXCEPT !.lease = T]
<1>1. m \in ManagerStates
  BY DEF Good
<1>2. /\ n \in ManagerStates
      /\ n.lease = T
      /\ n.logical = m.logical /\ n.refs = m.refs
      /\ n.copies = m.copies /\ n.execs = m.execs
      /\ n.life = m.life /\ n.backing = m.backing
      /\ n.source = m.source /\ n.frozen = m.frozen
  BY <1>1 DEF ManagerStates
<1> HIDE DEF n
<1>3. Live(n) = Live(m)
  BY <1>2 DEF Live
<1>4. /\ \A r \in Replicas : /\ Holders(n, r) = Holders(m, r)
                              /\ Copiers(n, r) = Copiers(m, r)
                              /\ Executors(n, r) = Executors(m, r)
      /\ \A s \in Sources : LogicalHolders(n, s) = LogicalHolders(m, s)
  BY <1>2, <1>3 DEF Holders, Copiers, Executors, LogicalHolders, Live
<1>5. CountersMatch(n)
  BY <1>2, <1>4 DEF CountersMatch, Good
<1>6. Shape(n)
  BY <1>2 DEF Shape, Good
<1>7. \A s : HealthyBacking(n, s) = HealthyBacking(m, s)
  BY <1>2 DEF HealthyBacking
<1>8. LeasesProtect(n)
  BY <1>2, <1>3, <1>7 DEF LeasesProtect, Good, Live
<1> QED
  BY <1>2, <1>5, <1>6, <1>8 DEF Good, n

(* Releasing any set of leases gives back exactly their counters           *)
(* (release, v8_leases.py:336).                                            *)
LEMMA ReleaseGood ==
    ASSUME NEW m, Good(m), NEW L, NEW reason \in Reasons
    PROVE  Good(ReleaseAll(m, L, reason))
<1> DEFINE n == ReleaseAll(m, L, reason)
<1>1. m \in ManagerStates
  BY DEF Good
<1>2. /\ n.life = m.life /\ n.backing = m.backing
      /\ n.source = m.source /\ n.frozen = m.frozen
      /\ n.placement = m.placement
      /\ DOMAIN n.lease = DOMAIN m.lease
      /\ \A l \in DOMAIN m.lease :
           n.lease[l] = IF l \in L /\ l \in Live(m)
                        THEN Released(m.lease[l], reason) ELSE m.lease[l]
  BY <1>1 DEF ReleaseAll, ManagerStates
<1>3. \A l \in DOMAIN m.lease : m.lease[l] \in LeaseRecords
  BY <1>1 DEF ManagerStates
<1>4. \A l \in DOMAIN m.lease : Released(m.lease[l], reason) \in LeaseRecords
  BY <1>3 DEF Released, LeaseRecords, LeaseStates
<1>5. n.lease \in Seq(LeaseRecords)
  <2>1. n.lease = [l \in DOMAIN m.lease |->
                     IF l \in L \cap Live(m) THEN Released(m.lease[l], reason)
                     ELSE m.lease[l]]
    BY <1>1 DEF ReleaseAll, ManagerStates
  <2>2. Len(m.lease) \in Nat /\ DOMAIN m.lease = 1..Len(m.lease)
    BY <1>1 DEF ManagerStates
  <2>3. n.lease \in [1..Len(m.lease) -> LeaseRecords]
    BY <2>1, <2>2, <1>3, <1>4
  <2> QED
    BY <2>2, <2>3
<1>6. /\ \A s \in Sources :
           n.logical[s] = m.logical[s] - Cardinality(L \cap LogicalHolders(m, s))
      /\ \A r \in Replicas :
           /\ n.refs[r] = m.refs[r] - Cardinality(L \cap Holders(m, r))
           /\ n.copies[r] = m.copies[r] - Cardinality(L \cap Copiers(m, r))
           /\ n.execs[r] = m.execs[r] - Cardinality(L \cap Executors(m, r))
  BY <1>1 DEF ReleaseAll, ManagerStates
<1>7. \A V \in SUBSET (DOMAIN m.lease) :
        /\ Cardinality(V \ L) = Cardinality(V) - Cardinality(L \cap V)
        /\ Cardinality(V \ L) \in Nat
  <2> TAKE V \in SUBSET (DOMAIN m.lease)
  <2>1. IsFiniteSet(V)
    BY <1>1, TableFinite
  <2>2. Cardinality(V \ L) \in Nat
    BY <1>1, TableFinite
  <2>3. V \cap L = L \cap V
    OBVIOUS
  <2> QED
    BY <2>1, <2>2, <2>3, FS_Difference
<1>8. /\ \A s \in Sources : LogicalHolders(m, s) \in SUBSET (DOMAIN m.lease)
      /\ \A r \in Replicas : /\ Holders(m, r) \in SUBSET (DOMAIN m.lease)
                             /\ Copiers(m, r) \in SUBSET (DOMAIN m.lease)
                             /\ Executors(m, r) \in SUBSET (DOMAIN m.lease)
  BY DEF LogicalHolders, Holders, Copiers, Executors, Live
<1>9. CountersMatch(m)
  BY DEF Good
<1>10. /\ \A s \in Sources : /\ n.logical[s] = Cardinality(LogicalHolders(n, s))
                             /\ n.logical[s] \in Nat
       /\ \A r \in Replicas :
            /\ n.refs[r] = Cardinality(Holders(n, r)) /\ n.refs[r] \in Nat
            /\ n.copies[r] = Cardinality(Copiers(n, r)) /\ n.copies[r] \in Nat
            /\ n.execs[r] = Cardinality(Executors(n, r)) /\ n.execs[r] \in Nat
  <2>1. /\ \A r \in Replicas : /\ Holders(n, r) = Holders(m, r) \ L
                               /\ Copiers(n, r) = Copiers(m, r) \ L
                               /\ Executors(n, r) = Executors(m, r) \ L
        /\ \A s \in Sources : LogicalHolders(n, s) = LogicalHolders(m, s) \ L
    BY <1>1, ReleasedViews
  <2> HIDE DEF n
  <2>2. ASSUME NEW s \in Sources
        PROVE  /\ n.logical[s] = Cardinality(LogicalHolders(n, s))
               /\ n.logical[s] \in Nat
    BY <2>1, <1>6, <1>7, <1>8, <1>9 DEF CountersMatch
  <2>3. ASSUME NEW r \in Replicas
        PROVE  n.refs[r] = Cardinality(Holders(n, r)) /\ n.refs[r] \in Nat
    <3>1. Holders(n, r) = Holders(m, r) \ L
      BY <2>1
    <3>2. n.refs[r] = Cardinality(Holders(m, r)) - Cardinality(L \cap Holders(m, r))
      BY <1>6, <1>9 DEF CountersMatch
    <3> QED
      BY <3>1, <3>2, <1>7, <1>8
  <2>4. ASSUME NEW r \in Replicas
        PROVE  n.copies[r] = Cardinality(Copiers(n, r)) /\ n.copies[r] \in Nat
    <3>1. Copiers(n, r) = Copiers(m, r) \ L
      BY <2>1
    <3>2. n.copies[r] = Cardinality(Copiers(m, r)) - Cardinality(L \cap Copiers(m, r))
      BY <1>6, <1>9 DEF CountersMatch
    <3> QED
      BY <3>1, <3>2, <1>7, <1>8
  <2>5. ASSUME NEW r \in Replicas
        PROVE  n.execs[r] = Cardinality(Executors(n, r)) /\ n.execs[r] \in Nat
    <3>1. Executors(n, r) = Executors(m, r) \ L
      BY <2>1
    <3>2. n.execs[r] = Cardinality(Executors(m, r)) - Cardinality(L \cap Executors(m, r))
      BY <1>6, <1>9 DEF CountersMatch
    <3> QED
      BY <3>1, <3>2, <1>7, <1>8
  <2> QED
    BY <2>2, <2>3, <2>4, <2>5
<1>11. n \in ManagerStates
  <2>1. n.logical \in [Sources -> Nat]
    <3>1. n.logical = [s \in Sources |-> n.logical[s]]
      BY <1>1 DEF ReleaseAll, ManagerStates
    <3> QED BY <3>1, <1>10
  <2>2. /\ n.refs = [r \in Replicas |-> n.refs[r]]
        /\ n.copies = [r \in Replicas |-> n.copies[r]]
        /\ n.execs = [r \in Replicas |-> n.execs[r]]
    BY <1>1 DEF ReleaseAll, ManagerStates
  <2>3. /\ n.refs \in [Replicas -> Nat] /\ n.copies \in [Replicas -> Nat]
        /\ n.execs \in [Replicas -> Nat]
    BY <2>2, <1>10
  <2>4. n = [m EXCEPT !.lease = n.lease, !.logical = n.logical, !.refs = n.refs,
                      !.copies = n.copies, !.execs = n.execs]
    BY <1>1 DEF ReleaseAll, ManagerStates
  <2> HIDE DEF n
  <2> QED
    BY <1>1, <1>5, <2>1, <2>3, <2>4 DEF ManagerStates
<1>12. Live(n) = Live(m) \ L
  <2>1. \A l \in DOMAIN m.lease : l \in L /\ l \in Live(m) =>
          n.lease[l].state = "released"
    BY <1>2, <1>3 DEF Released, LeaseRecords
  <2> QED
    BY <1>2, <2>1 DEF Live
<1>13. \A l \in DOMAIN m.lease :
         /\ n.lease[l].owner = m.lease[l].owner
         /\ n.lease[l].segment = m.lease[l].segment
         /\ n.lease[l].source = m.lease[l].source
         /\ n.lease[l].replica = m.lease[l].replica
         /\ n.lease[l].purpose = m.lease[l].purpose
         /\ n.lease[l].copy => m.lease[l].copy
         /\ n.lease[l].exec => m.lease[l].exec
  BY <1>2, <1>3 DEF Released, LeaseRecords
<1>14. Shape(n)
  BY <1>2, <1>13 DEF Shape, Good
<1>15. \A s : HealthyBacking(n, s) = HealthyBacking(m, s)
  BY <1>2 DEF HealthyBacking
<1>16. LeasesProtect(n)
  BY <1>2, <1>12, <1>13, <1>15 DEF LeasesProtect, Good, Live
<1> QED
  BY <1>10, <1>11, <1>14, <1>16 DEF Good, CountersMatch

(* _new_lease (v8_leases.py:164) makes a record of the right type.         *)
LEMMA NewLeaseType ==
    ASSUME NEW o \in Owners, NEW g \in Segments, NEW s \in Sources,
           NEW r \in Replicas \cup {NoReplica}, NEW purpose \in Purposes,
           NEW remaining \in Nat, NEW t \in Nat
    PROVE  NewLease(o, g, s, r, purpose, remaining, t) \in LeaseRecords
<1>1. TtlFor(remaining) \in Nat
  BY RecoveryTiming DEF TtlFor
<1>2. t + TtlFor(remaining) \in Nat
  BY <1>1
<1> QED
  BY <1>2 DEF NewLease, LeaseRecords, LeaseStates, Reasons

(* freeze_and_acquire_logical (v8_leases.py:193) keeps the invariant: it   *)
(* grants only on an active Source with a healthy backing.                 *)
LEMMA FreezeGood ==
    ASSUME NEW m, Good(m), NEW o \in Owners, NEW g \in Segments, NEW s \in Sources,
           NEW remaining \in Nat, NEW t \in Nat, CanFreeze(m, o, g, s)
    PROVE  Good(FreezeAndAcquireLogical(m, o, g, s, remaining, t))
<1> DEFINE n == FreezeAndAcquireLogical(m, o, g, s, remaining, t)
           new == NewLease(o, g, s, NoReplica, "logical", remaining, t)
           k == Len(m.lease) + 1
<1>1. m \in ManagerStates
  BY DEF Good
<1>2. new \in LeaseRecords
  BY NewLeaseType DEF Purposes
<1>3. /\ new.owner = o /\ new.segment = g /\ new.source = s
      /\ new.replica = NoReplica /\ new.purpose = "logical"
      /\ new.state = "active" /\ ~new.copy /\ ~new.exec
  BY DEF NewLease
<1> HIDE DEF new
<1>4. /\ n.life = m.life /\ n.backing = m.backing /\ n.source = m.source
      /\ n.refs = m.refs /\ n.copies = m.copies /\ n.execs = m.execs
      /\ n.logical = [m.logical EXCEPT ![s] = @ + 1]
      /\ n.frozen = [m.frozen EXCEPT ![o][g] = s]
      /\ n.lease = Append(m.lease, new)
  BY <1>1 DEF FreezeAndAcquireLogical, ManagerStates, new
<1>5. n \in ManagerStates
  <2>1. m.logical \in [Sources -> Nat] /\ m.lease \in Seq(LeaseRecords)
        /\ m.frozen \in [Owners -> [Segments -> Sources \cup {NoSource}]]
    BY <1>1 DEF ManagerStates
  <2>2. n.logical \in [Sources -> Nat]
    BY <1>4, <2>1
  <2>3. n.frozen \in [Owners -> [Segments -> Sources \cup {NoSource}]]
    BY <1>4, <2>1
  <2>4. n.lease \in Seq(LeaseRecords)
    BY <1>4, <2>1, <1>2
  <2>5. n = [m EXCEPT !.lease = n.lease, !.frozen = n.frozen, !.logical = n.logical]
    BY <1>1, <1>4 DEF FreezeAndAcquireLogical, ManagerStates, new
  <2> HIDE DEF n
  <2> QED
    BY <1>1, <2>2, <2>3, <2>4, <2>5 DEF ManagerStates
<1> HIDE DEF n
<1>6. /\ DOMAIN m.lease = 1..Len(m.lease) /\ Len(m.lease) \in Nat
      /\ DOMAIN n.lease = DOMAIN m.lease \cup {k} /\ k \notin DOMAIN m.lease
      /\ \A l \in DOMAIN m.lease : n.lease[l] = m.lease[l]
      /\ n.lease[k] = new
  BY <1>1, <1>2, <1>4 DEF ManagerStates
<1>7. Live(n) = Live(m) \cup {k}
  BY <1>3, <1>6 DEF Live
<1>8. /\ \A r \in Replicas : /\ Holders(n, r) = Holders(m, r)
                             /\ Copiers(n, r) = Copiers(m, r)
                             /\ Executors(n, r) = Executors(m, r)
      /\ LogicalHolders(n, s) = LogicalHolders(m, s) \cup {k}
      /\ \A x \in Sources \ {s} : LogicalHolders(n, x) = LogicalHolders(m, x)
  <2>1. \A r \in Replicas : new.replica # r
    BY <1>3, NullValues
  <2>2. k \notin Live(m)
    BY <1>6 DEF Live
  <2>3. \A l \in Live(m) : n.lease[l] = m.lease[l]
    BY <1>6 DEF Live
  <2> QED
    BY <1>3, <1>6, <1>7, <2>1, <2>2, <2>3
    DEF Holders, Copiers, Executors, LogicalHolders
<1>9. CountersMatch(n)
  <2>1. k \notin LogicalHolders(m, s) /\ LogicalHolders(m, s) \subseteq DOMAIN m.lease
    BY <1>6 DEF LogicalHolders, Live
  <2>2. Cardinality(LogicalHolders(n, s)) = Cardinality(LogicalHolders(m, s)) + 1
    BY <1>1, <1>8, <2>1, TableFinite, FS_AddElement
  <2>3. n.logical[s] = m.logical[s] + 1
        /\ \A x \in Sources \ {s} : n.logical[x] = m.logical[x]
    BY <1>1, <1>4 DEF ManagerStates
  <2> QED
    BY <1>4, <1>8, <2>2, <2>3 DEF CountersMatch, Good
<1>10. Shape(n)
  <2>1. n.frozen[o][g] = s
        /\ \A x \in Owners, y \in Segments :
             x # o \/ y # g => n.frozen[x][y] = m.frozen[x][y]
    BY <1>1, <1>4 DEF ManagerStates
  <2>2. m.frozen[o][g] = s \/ m.frozen[o][g] = NoSource
    BY DEF CanFreeze
  <2>3. \A l \in DOMAIN m.lease : /\ m.lease[l].owner \in Owners
                                  /\ m.lease[l].segment \in Segments
                                  /\ m.lease[l].source \in Sources
    BY <1>1, RecordTypes
  <2>4. \A l \in DOMAIN m.lease :
          m.frozen[m.lease[l].owner][m.lease[l].segment] = m.lease[l].source
    BY DEF Good, Shape
  <2>5. \A l \in DOMAIN m.lease :
          n.frozen[m.lease[l].owner][m.lease[l].segment] = m.lease[l].source
    <3> TAKE l \in DOMAIN m.lease
    <3>1. CASE m.lease[l].owner = o /\ m.lease[l].segment = g
      BY <3>1, <2>1, <2>2, <2>3, <2>4, NullValues
    <3>2. CASE ~(m.lease[l].owner = o /\ m.lease[l].segment = g)
      BY <3>2, <2>1, <2>3, <2>4
    <3> QED
      BY <3>1, <3>2
  <2>6. ASSUME NEW l \in DOMAIN n.lease
        PROVE  LET lease == n.lease[l]
               IN  /\ n.frozen[lease.owner][lease.segment] = lease.source
                   /\ lease.replica = NoReplica =>
                        lease.purpose = "logical" /\ ~lease.copy /\ ~lease.exec
                   /\ lease.replica # NoReplica =>
                        /\ SourceOf[lease.replica] = lease.source
                        /\ lease.purpose # "logical"
                   /\ lease.purpose = "speculative" => ~lease.exec
    <3>1. CASE l = k
      BY <3>1, <1>3, <1>6, <2>1
    <3>2. CASE l \in DOMAIN m.lease
      BY <3>2, <1>6, <2>5 DEF Good, Shape
    <3> QED
      BY <1>6, <3>1, <3>2
  <2> QED
    BY <2>6 DEF Shape
<1>11. \A x : HealthyBacking(n, x) = HealthyBacking(m, x)
  BY <1>4 DEF HealthyBacking
<1>12. LeasesProtect(n)
  BY <1>3, <1>4, <1>6, <1>7, <1>11 DEF LeasesProtect, Good, Live, CanFreeze
<1> QED
  BY <1>5, <1>9, <1>10, <1>12 DEF Good, n

(* Well-typed requests of a batch. *)
BatchRequests == [segment : Segments, source : Sources, replica : Replicas,
                  placement : Nat, purpose : Purposes \ {"logical"}]

(* A batch appends its leases to the table and leaves the rest as it is. *)
LEMMA BatchTable ==
    ASSUME NEW m \in ManagerStates, NEW o \in Owners, NEW reqs \in Seq(BatchRequests),
           NEW remaining \in Nat, NEW t \in Nat
    PROVE  LET n == LeaseBatch(m, o, reqs, remaining, t)
               k == Len(m.lease)
           IN  /\ n.lease \in Seq(LeaseRecords)
               /\ k \in Nat /\ DOMAIN m.lease = 1..k
               /\ DOMAIN n.lease = DOMAIN m.lease \cup {k + i : i \in DOMAIN reqs}
               /\ \A i \in DOMAIN reqs : k + i \notin DOMAIN m.lease
               /\ \A l \in DOMAIN m.lease : n.lease[l] = m.lease[l]
               /\ \A i \in DOMAIN reqs :
                    n.lease[k + i] = BatchLease(o, reqs[i], remaining, t)
<1> DEFINE n == LeaseBatch(m, o, reqs, remaining, t)
           k == Len(m.lease)
           T == [i \in DOMAIN reqs |-> BatchLease(o, reqs[i], remaining, t)]
<1>1. k \in Nat /\ DOMAIN m.lease = 1..k /\ m.lease \in Seq(LeaseRecords)
  BY DEF ManagerStates
<1>2. DOMAIN reqs = 1..Len(reqs) /\ Len(reqs) \in Nat
      /\ \A i \in DOMAIN reqs : reqs[i] \in BatchRequests
  OBVIOUS
<1>3. \A i \in DOMAIN reqs : BatchLease(o, reqs[i], remaining, t) \in LeaseRecords
  <2> TAKE i \in DOMAIN reqs
  <2>1. /\ reqs[i].segment \in Segments /\ reqs[i].source \in Sources
        /\ reqs[i].replica \in Replicas /\ reqs[i].purpose \in Purposes
    BY <1>2 DEF BatchRequests
  <2> QED
    BY <2>1, NewLeaseType DEF BatchLease
<1>4. T \in Seq(LeaseRecords) /\ DOMAIN T = DOMAIN reqs /\ Len(T) = Len(reqs)
      /\ \A i \in DOMAIN reqs : T[i] = BatchLease(o, reqs[i], remaining, t)
  <2> HIDE DEF BatchLease
  <2>1. T \in [1..Len(reqs) -> LeaseRecords]
    BY <1>2, <1>3
  <2> QED
    BY <1>2, <2>1
<1>5. n.lease = m.lease \o T
  BY DEF LeaseBatch, ManagerStates
<1> HIDE DEF T, n
<1>6. DOMAIN n.lease = 1..(k + Len(reqs)) /\ n.lease \in Seq(LeaseRecords)
  BY <1>1, <1>2, <1>4, <1>5
<1>7. \A l \in DOMAIN m.lease : n.lease[l] = m.lease[l]
  BY <1>1, <1>4, <1>5
<1>8. \A i \in DOMAIN reqs : n.lease[k + i] = BatchLease(o, reqs[i], remaining, t)
  <2> TAKE i \in DOMAIN reqs
  <2>1. k + i \in 1..(k + Len(T)) /\ ~(k + i <= k) /\ (k + i) - k = i
    BY <1>1, <1>2, <1>4
  <2>2. n.lease[k + i] = T[(k + i) - k]
    BY <2>1, <1>1, <1>4, <1>5
  <2> QED
    BY <2>1, <2>2, <1>4
<1>9. /\ DOMAIN n.lease = DOMAIN m.lease \cup {k + i : i \in DOMAIN reqs}
      /\ \A i \in DOMAIN reqs : k + i \notin DOMAIN m.lease
  <2>1. {k + i : i \in 1..Len(reqs)} = (k + 1)..(k + Len(reqs))
    <3>1. \A l \in (k + 1)..(k + Len(reqs)) : l - k \in 1..Len(reqs) /\ l = k + (l - k)
      BY <1>1, <1>2
    <3>2. \A i \in 1..Len(reqs) : k + i \in (k + 1)..(k + Len(reqs))
      BY <1>1, <1>2
    <3> QED
      BY <3>1, <3>2
  <2>2. 1..(k + Len(reqs)) = 1..k \cup (k + 1)..(k + Len(reqs))
    BY <1>1, <1>2
  <2>3. \A i \in 1..Len(reqs) : k + i \notin 1..k
    BY <1>1, <1>2
  <2> QED
    BY <1>1, <1>2, <1>6, <2>1, <2>2, <2>3
<1> QED
  BY <1>1, <1>6, <1>7, <1>8, <1>9 DEF n

(* A view that gains, for each request of S, the lease it was granted      *)
(* grows by the size of S.                                                 *)
LEMMA GrownView ==
    ASSUME NEW m \in ManagerStates, NEW V \in SUBSET (DOMAIN m.lease),
           NEW top \in Nat, NEW S \in SUBSET (1..top)
    PROVE  /\ Cardinality(V \cup {Len(m.lease) + i : i \in S})
                = Cardinality(V) + Cardinality(S)
           /\ Cardinality(S) \in Nat
<1> DEFINE N == {Len(m.lease) + i : i \in S}
<1>1. Len(m.lease) \in Nat /\ DOMAIN m.lease = 1..Len(m.lease)
  BY DEF ManagerStates
<1>2. IsFiniteSet(S) /\ Cardinality(S) \in Nat
  <2>1. IsFiniteSet(1..top)
    BY FS_Interval
  <2> QED
    BY <2>1, FS_Subset, FS_CardinalityType
<1>3. IsFiniteSet(V) /\ Cardinality(V) \in Nat
  BY TableFinite
<1>4. IsFiniteSet(N) /\ Cardinality(N) = Cardinality(S)
  <2>1. S \in SUBSET Nat
    OBVIOUS
  <2> QED
    BY <1>1, <1>2, <2>1, ShiftCardinality
<1>5. V \cap N = {}
  <2>1. \A i \in S : Len(m.lease) + i \notin 1..Len(m.lease)
    BY <1>1
  <2> QED
    BY <1>1, <2>1
<1>6. Cardinality(V \cap N) = 0
  BY <1>5, FS_EmptySet, Zenon
<1>7. Cardinality(V \cup N) = Cardinality(V) + Cardinality(N) - Cardinality(V \cap N)
  BY <1>3, <1>4, FS_Union
<1> HIDE DEF N
<1>8. Cardinality(V \cup N) = Cardinality(V) + Cardinality(S)
  BY <1>2, <1>3, <1>4, <1>6, <1>7
<1> QED
  BY <1>2, <1>8 DEF N

(* compare_and_lease_batch (v8_leases.py:225) keeps the invariant: every   *)
(* binding names a healthy Replica of the frozen Source.                   *)
LEMMA BatchGood ==
    ASSUME NEW m, Good(m), NEW o \in Owners, NEW reqs \in Seq(BatchRequests),
           NEW remaining \in Nat, NEW t \in Nat, NEW cap, CanLeaseBatch(m, o, reqs, cap)
    PROVE  Good(LeaseBatch(m, o, reqs, remaining, t))
<1> DEFINE n == LeaseBatch(m, o, reqs, remaining, t)
           k == Len(m.lease)
           Of(r, kinds) == {i \in DOMAIN reqs :
                              reqs[i].replica = r /\ reqs[i].purpose \in kinds}
           Copying == {"copy", "speculative"}
<1>1. m \in ManagerStates
  BY DEF Good
<1>2. /\ n.lease \in Seq(LeaseRecords)
      /\ DOMAIN n.lease = DOMAIN m.lease \cup {k + i : i \in DOMAIN reqs}
      /\ \A i \in DOMAIN reqs : k + i \notin DOMAIN m.lease
      /\ \A l \in DOMAIN m.lease : n.lease[l] = m.lease[l]
      /\ \A i \in DOMAIN reqs : n.lease[k + i] = BatchLease(o, reqs[i], remaining, t)
  BY <1>1, BatchTable
<1>3. \A i \in DOMAIN reqs :
        /\ n.lease[k + i].owner = o
        /\ n.lease[k + i].segment = reqs[i].segment
        /\ n.lease[k + i].source = reqs[i].source
        /\ n.lease[k + i].replica = reqs[i].replica
        /\ n.lease[k + i].purpose = reqs[i].purpose
        /\ n.lease[k + i].state = "active"
        /\ n.lease[k + i].copy <=> reqs[i].purpose \in Copying
        /\ n.lease[k + i].exec <=> reqs[i].purpose = "execution"
  <2>1. \A q : LET new == BatchLease(o, q, remaining, t)
               IN  /\ new.owner = o /\ new.segment = q.segment
                   /\ new.source = q.source /\ new.replica = q.replica
                   /\ new.purpose = q.purpose /\ new.state = "active"
                   /\ new.copy <=> q.purpose \in Copying
                   /\ new.exec <=> q.purpose = "execution"
    BY DEF BatchLease, NewLease
  <2> HIDE DEF n, k
  <2> TAKE i \in DOMAIN reqs
  <2>2. n.lease[k + i] = BatchLease(o, reqs[i], remaining, t)
    BY <1>2
  <2>3. LET new == BatchLease(o, reqs[i], remaining, t)
        IN  /\ new.owner = o /\ new.segment = reqs[i].segment
            /\ new.source = reqs[i].source /\ new.replica = reqs[i].replica
            /\ new.purpose = reqs[i].purpose /\ new.state = "active"
            /\ new.copy <=> reqs[i].purpose \in Copying
            /\ new.exec <=> reqs[i].purpose = "execution"
    BY <2>1
  <2> QED
    BY <2>2, <2>3, Zenon
<1>4. /\ n.life = m.life /\ n.backing = m.backing /\ n.source = m.source
      /\ n.frozen = m.frozen /\ n.logical = m.logical
      /\ \A r \in Replicas :
           /\ n.refs[r] = m.refs[r] + Cardinality(Of(r, Purposes))
           /\ n.copies[r] = m.copies[r] + Cardinality(Of(r, Copying))
           /\ n.execs[r] = m.execs[r] + Cardinality(Of(r, {"execution"}))
      /\ n.refs = [r \in Replicas |-> n.refs[r]]
      /\ n.copies = [r \in Replicas |-> n.copies[r]]
      /\ n.execs = [r \in Replicas |-> n.execs[r]]
      /\ n = [m EXCEPT !.lease = n.lease, !.refs = n.refs, !.copies = n.copies,
                       !.execs = n.execs]
  BY <1>1 DEF LeaseBatch, ManagerStates
<1> HIDE DEF n
<1>5. \A i \in DOMAIN reqs :
        /\ reqs[i].replica \in Replicas /\ reqs[i].purpose \in Purposes
        /\ reqs[i].purpose # "logical" /\ reqs[i].replica # NoReplica
        /\ SourceOf[reqs[i].replica] = reqs[i].source
        /\ m.frozen[o][reqs[i].segment] = reqs[i].source
        /\ m.life[reqs[i].replica] = "ready"
  <2>1. \A i \in DOMAIN reqs : reqs[i] \in BatchRequests
    OBVIOUS
  <2>2. \A i \in DOMAIN reqs :
          /\ reqs[i].replica \in Replicas /\ reqs[i].purpose \in Purposes
          /\ reqs[i].purpose # "logical"
    BY <2>1 DEF BatchRequests
  <2> QED
    BY <2>2, NullValues DEF CanLeaseBatch, Bindable
<1>6. Live(n) = Live(m) \cup {k + i : i \in DOMAIN reqs}
  BY <1>2, <1>3 DEF Live
<1>7. ASSUME NEW r \in Replicas
      PROVE  /\ Holders(n, r) = Holders(m, r) \cup {k + i : i \in Of(r, Purposes)}
             /\ Copiers(n, r) = Copiers(m, r) \cup {k + i : i \in Of(r, Copying)}
             /\ Executors(n, r) = Executors(m, r) \cup {k + i : i \in Of(r, {"execution"})}
  <2>1. \A l \in Live(m) : n.lease[l] = m.lease[l]
    BY <1>2 DEF Live
  <2>2. Holders(n, r) = Holders(m, r) \cup {k + i : i \in Of(r, Purposes)}
    BY <2>1, <1>3, <1>5, <1>6 DEF Holders
  <2>3. Copiers(n, r) = Copiers(m, r) \cup {k + i : i \in Of(r, Copying)}
    BY <2>1, <1>3, <1>5, <1>6 DEF Copiers
  <2>4. Executors(n, r) = Executors(m, r) \cup {k + i : i \in Of(r, {"execution"})}
    BY <2>1, <1>3, <1>5, <1>6 DEF Executors
  <2> QED
    BY <2>2, <2>3, <2>4
<1>8. ASSUME NEW s \in Sources
      PROVE  LogicalHolders(n, s) = LogicalHolders(m, s)
  <2>1. \A l \in Live(m) : n.lease[l] = m.lease[l]
    BY <1>2 DEF Live
  <2>2. \A i \in DOMAIN reqs : n.lease[k + i].replica # NoReplica
    BY <1>3, <1>5
  <2> QED
    BY <2>1, <2>2, <1>6 DEF LogicalHolders
<1>9. ASSUME NEW r \in Replicas
      PROVE  /\ n.refs[r] = Cardinality(Holders(n, r)) /\ n.refs[r] \in Nat
             /\ n.copies[r] = Cardinality(Copiers(n, r)) /\ n.copies[r] \in Nat
             /\ n.execs[r] = Cardinality(Executors(n, r)) /\ n.execs[r] \in Nat
  <2>1. /\ m.refs[r] = Cardinality(Holders(m, r)) /\ m.refs[r] \in Nat
        /\ m.copies[r] = Cardinality(Copiers(m, r)) /\ m.copies[r] \in Nat
        /\ m.execs[r] = Cardinality(Executors(m, r)) /\ m.execs[r] \in Nat
    BY <1>1 DEF Good, CountersMatch, ManagerStates
  <2>2. Len(reqs) \in Nat /\ DOMAIN reqs = 1..Len(reqs)
    OBVIOUS
  <2>3. /\ Holders(m, r) \subseteq DOMAIN m.lease
        /\ Copiers(m, r) \subseteq DOMAIN m.lease
        /\ Executors(m, r) \subseteq DOMAIN m.lease
    BY DEF Holders, Copiers, Executors, Live
  <2>4. \A kinds : Of(r, kinds) \subseteq 1..Len(reqs)
    BY <2>2
  <2>5. n.refs[r] = Cardinality(Holders(n, r)) /\ n.refs[r] \in Nat
    <3>1. /\ Of(r, Purposes) \in SUBSET (1..Len(reqs))
          /\ Holders(m, r) \in SUBSET (DOMAIN m.lease)
      BY <2>3, <2>4
    <3>2. Holders(n, r) = Holders(m, r) \cup {Len(m.lease) + i : i \in Of(r, Purposes)}
      BY <1>7
    <3>3. /\ Cardinality(Holders(m, r) \cup {Len(m.lease) + i : i \in Of(r, Purposes)})
               = Cardinality(Holders(m, r)) + Cardinality(Of(r, Purposes))
          /\ Cardinality(Of(r, Purposes)) \in Nat
      <4> HIDE DEF Of, Copying
      <4> QED
        BY <1>1, <2>2, <3>1, GrownView
    <3>4. Cardinality(Holders(n, r)) = Cardinality(Holders(m, r)) + Cardinality(Of(r, Purposes))
      BY <3>2, <3>3, Zenon
    <3>5. n.refs[r] = m.refs[r] + Cardinality(Of(r, Purposes))
      BY <1>4
    <3> HIDE DEF Of
    <3> QED
      BY <3>3, <3>4, <3>5, <2>1
  <2>6. n.copies[r] = Cardinality(Copiers(n, r)) /\ n.copies[r] \in Nat
    <3>1. /\ Of(r, Copying) \in SUBSET (1..Len(reqs))
          /\ Copiers(m, r) \in SUBSET (DOMAIN m.lease)
      BY <2>3, <2>4
    <3>2. Copiers(n, r) = Copiers(m, r) \cup {Len(m.lease) + i : i \in Of(r, Copying)}
      BY <1>7
    <3>3. /\ Cardinality(Copiers(m, r) \cup {Len(m.lease) + i : i \in Of(r, Copying)})
               = Cardinality(Copiers(m, r)) + Cardinality(Of(r, Copying))
          /\ Cardinality(Of(r, Copying)) \in Nat
      <4> HIDE DEF Of, Copying
      <4> QED
        BY <1>1, <2>2, <3>1, GrownView
    <3>4. Cardinality(Copiers(n, r)) = Cardinality(Copiers(m, r)) + Cardinality(Of(r, Copying))
      BY <3>2, <3>3, Zenon
    <3>5. n.copies[r] = m.copies[r] + Cardinality(Of(r, Copying))
      BY <1>4
    <3> HIDE DEF Of
    <3> QED
      BY <3>3, <3>4, <3>5, <2>1
  <2>7. n.execs[r] = Cardinality(Executors(n, r)) /\ n.execs[r] \in Nat
    <3>1. /\ Of(r, {"execution"}) \in SUBSET (1..Len(reqs))
          /\ Executors(m, r) \in SUBSET (DOMAIN m.lease)
      BY <2>3, <2>4
    <3>2. Executors(n, r) = Executors(m, r) \cup {Len(m.lease) + i : i \in Of(r, {"execution"})}
      BY <1>7
    <3>3. /\ Cardinality(Executors(m, r) \cup {Len(m.lease) + i : i \in Of(r, {"execution"})})
               = Cardinality(Executors(m, r)) + Cardinality(Of(r, {"execution"}))
          /\ Cardinality(Of(r, {"execution"})) \in Nat
      <4> HIDE DEF Of, Copying
      <4> QED
        BY <1>1, <2>2, <3>1, GrownView
    <3>4. Cardinality(Executors(n, r)) = Cardinality(Executors(m, r)) + Cardinality(Of(r, {"execution"}))
      BY <3>2, <3>3, Zenon
    <3>5. n.execs[r] = m.execs[r] + Cardinality(Of(r, {"execution"}))
      BY <1>4
    <3> HIDE DEF Of
    <3> QED
      BY <3>3, <3>4, <3>5, <2>1
  <2> QED
    BY <2>5, <2>6, <2>7
<1>10. CountersMatch(n)
  BY <1>4, <1>8, <1>9 DEF CountersMatch, Good
<1>11. n \in ManagerStates
  <2>1. /\ n.refs \in [Replicas -> Nat] /\ n.copies \in [Replicas -> Nat]
        /\ n.execs \in [Replicas -> Nat]
    BY <1>4, <1>9
  <2> QED
    BY <1>1, <1>2, <1>4, <2>1 DEF ManagerStates
<1>12. Shape(n)
  <2>1. ASSUME NEW l \in DOMAIN n.lease
        PROVE  LET lease == n.lease[l]
               IN  /\ n.frozen[lease.owner][lease.segment] = lease.source
                   /\ lease.replica = NoReplica =>
                        lease.purpose = "logical" /\ ~lease.copy /\ ~lease.exec
                   /\ lease.replica # NoReplica =>
                        /\ SourceOf[lease.replica] = lease.source
                        /\ lease.purpose # "logical"
                   /\ lease.purpose = "speculative" => ~lease.exec
    <3>1. CASE l \in DOMAIN m.lease
      BY <3>1, <1>2, <1>4 DEF Good, Shape
    <3>2. CASE \E i \in DOMAIN reqs : l = k + i
      <4> PICK i \in DOMAIN reqs : l = k + i
        BY <3>2
      <4>1. /\ n.lease[l].owner = o /\ n.lease[l].segment = reqs[i].segment
            /\ n.lease[l].source = reqs[i].source
            /\ n.lease[l].replica = reqs[i].replica
            /\ n.lease[l].purpose = reqs[i].purpose
            /\ n.lease[l].exec <=> reqs[i].purpose = "execution"
        BY <1>3
      <4>2. n.frozen[o][reqs[i].segment] = reqs[i].source
        BY <1>4, <1>5
      <4> QED
        BY <4>1, <4>2, <1>5
    <3> QED
      BY <3>1, <3>2, <1>2
  <2> QED
    BY <2>1 DEF Shape
<1>13. LeasesProtect(n)
  <2>1. \A x : HealthyBacking(n, x) = HealthyBacking(m, x)
    BY <1>4 DEF HealthyBacking
  <2>2. ASSUME NEW l \in Live(m)
        PROVE  LET lease == n.lease[l]
               IN  IF lease.replica # NoReplica
                   THEN n.life[lease.replica] = "ready"
                   ELSE /\ n.source[lease.source] = "active"
                        /\ HealthyBacking(n, lease.source) # {}
    <3>1. n.lease[l] = m.lease[l]
      BY <1>2 DEF Live
    <3>2. LeasesProtect(m)
      BY DEF Good
    <3> QED
      BY <3>1, <3>2, <1>4, <2>1 DEF LeasesProtect
  <2>3. ASSUME NEW i \in DOMAIN reqs
        PROVE  n.lease[k + i].replica # NoReplica
               /\ n.life[n.lease[k + i].replica] = "ready"
    <3>1. n.life = m.life
      BY <1>4
    <3>2. n.lease[k + i].replica = reqs[i].replica
      BY <1>3
    <3>3. reqs[i].replica # NoReplica /\ m.life[reqs[i].replica] = "ready"
      BY <1>5
    <3> QED
      BY <3>1, <3>2, <3>3, Zenon
  <2> QED
    BY <1>6, <2>2, <2>3 DEF LeasesProtect
<1> QED
  BY <1>10, <1>11, <1>12, <1>13 DEF Good, n

(* mark_physical_ready (v8_leases.py:288) moves a lease out of the copiers *)
(* together with the Replica's copy counter.                               *)
LEMMA MarkReadyGood ==
    ASSUME NEW m, Good(m), NEW l \in DOMAIN m.lease, CanMarkReady(m, l)
    PROVE  Good(MarkPhysicalReady(m, l))
<1> DEFINE n == MarkPhysicalReady(m, l)
           r == m.lease[l].replica
<1>1. CASE m.lease[l].ready
  BY <1>1 DEF MarkPhysicalReady
<1>2. CASE ~m.lease[l].ready
  <2>1. m \in ManagerStates /\ m.lease \in Seq(LeaseRecords) /\ m.lease[l] \in LeaseRecords
    BY RecordTypes DEF Good, ManagerStates
  <2>2. r \in Replicas /\ m.lease[l].state = "active" /\ m.lease[l].copy
    BY <1>2, <2>1, RecordTypes DEF CanMarkReady
  <2>3. /\ n.life = m.life /\ n.backing = m.backing /\ n.source = m.source
        /\ n.refs = m.refs /\ n.logical = m.logical /\ n.execs = m.execs
        /\ n.frozen = m.frozen
        /\ n.copies = [m.copies EXCEPT ![r] = @ - 1]
        /\ n.lease = [m.lease EXCEPT ![l] = [m.lease[l] EXCEPT !.copy = FALSE,
                                                               !.ready = TRUE]]
    BY <1>2, <2>1 DEF MarkPhysicalReady, ManagerStates
  <2>4. [m.lease[l] EXCEPT !.copy = FALSE, !.ready = TRUE] \in LeaseRecords
    BY <2>1 DEF LeaseRecords
  <2>5. n.lease \in Seq(LeaseRecords) /\ DOMAIN n.lease = DOMAIN m.lease
    BY <2>1, <2>3, <2>4
  <2>6. /\ \A k \in DOMAIN m.lease :
             /\ n.lease[k].owner = m.lease[k].owner
             /\ n.lease[k].segment = m.lease[k].segment
             /\ n.lease[k].source = m.lease[k].source
             /\ n.lease[k].replica = m.lease[k].replica
             /\ n.lease[k].purpose = m.lease[k].purpose
             /\ n.lease[k].state = m.lease[k].state
             /\ n.lease[k].exec = m.lease[k].exec
             /\ k # l => n.lease[k].copy = m.lease[k].copy
        /\ ~n.lease[l].copy
    <3>1. \A k \in DOMAIN m.lease : k # l => n.lease[k] = m.lease[k]
      BY <2>3
    <3>2. n.lease[l] = [m.lease[l] EXCEPT !.copy = FALSE, !.ready = TRUE]
      BY <2>1, <2>3
    <3>3. LET x == m.lease[l]
              y == [m.lease[l] EXCEPT !.copy = FALSE, !.ready = TRUE]
          IN  /\ y.owner = x.owner /\ y.segment = x.segment /\ y.source = x.source
              /\ y.replica = x.replica /\ y.purpose = x.purpose
              /\ y.state = x.state /\ y.exec = x.exec /\ ~y.copy
      BY <2>1 DEF LeaseRecords
    <3> HIDE DEF n
    <3> QED
      BY <3>1, <3>2, <3>3
  <2>7. n = [m EXCEPT !.lease = n.lease, !.copies = n.copies]
    BY <1>2, <2>1 DEF MarkPhysicalReady, ManagerStates
  <2> HIDE DEF n
  <2>8. Live(n) = Live(m)
    BY <2>5, <2>6 DEF Live
  <2>9. /\ \A q \in Replicas : /\ Holders(n, q) = Holders(m, q)
                               /\ Executors(n, q) = Executors(m, q)
                               /\ q # r => Copiers(n, q) = Copiers(m, q)
        /\ Copiers(n, r) = Copiers(m, r) \ {l}
        /\ \A s \in Sources : LogicalHolders(n, s) = LogicalHolders(m, s)
    BY <2>6, <2>8 DEF Holders, Copiers, Executors, LogicalHolders, Live
  <2>10. l \in Copiers(m, r) /\ Copiers(m, r) \subseteq DOMAIN m.lease
    BY <2>2 DEF Copiers, Live
  <2>11. /\ Cardinality(Copiers(n, r)) = Cardinality(Copiers(m, r)) - 1
         /\ Cardinality(Copiers(n, r)) \in Nat
    <3>1. /\ Cardinality(Copiers(m, r) \ {l}) = Cardinality(Copiers(m, r)) - 1
          /\ Cardinality(Copiers(m, r) \ {l}) \in Nat
      BY <2>1, <2>10, TableFinite, FS_RemoveElement
    <3> QED
      BY <2>9, <3>1, Zenon
  <2>12. CountersMatch(m) /\ m.copies \in [Replicas -> Nat]
    BY <2>1 DEF Good, ManagerStates
  <2>13. n.copies[r] = Cardinality(Copiers(n, r))
         /\ \A q \in Replicas : q # r => n.copies[q] = m.copies[q]
    BY <2>2, <2>3, <2>11, <2>12 DEF CountersMatch
  <2>14. CountersMatch(n)
    <3>1. \A q \in Replicas : n.copies[q] = Cardinality(Copiers(n, q))
      BY <2>9, <2>12, <2>13 DEF CountersMatch
    <3> QED
      BY <2>3, <2>9, <2>12, <3>1 DEF CountersMatch
  <2>15. n \in ManagerStates
    <3>1. n.copies \in [Replicas -> Nat]
      BY <2>2, <2>3, <2>11, <2>12, <2>13
    <3> QED
      BY <2>1, <2>5, <2>7, <3>1 DEF ManagerStates
  <2>16. Shape(n)
    BY <2>2, <2>3, <2>5, <2>6 DEF Good, Shape
  <2>17. \A s : HealthyBacking(n, s) = HealthyBacking(m, s)
    BY <2>3 DEF HealthyBacking
  <2>18. LeasesProtect(n)
    BY <2>3, <2>6, <2>8, <2>17 DEF LeasesProtect, Good, Live
  <2> QED
    BY <2>14, <2>15, <2>16, <2>18 DEF Good, n
<1> QED
  BY <1>1, <1>2

(* promote_speculative_to_execution (v8_leases.py:306) adds the lease to the*)
(* executors together with the Replica's execution counter.                *)
LEMMA PromoteGood ==
    ASSUME NEW m, Good(m), NEW l \in DOMAIN m.lease, CanPromote(m, l)
    PROVE  Good(PromoteSpeculative(m, l))
<1> DEFINE n == PromoteSpeculative(m, l)
           r == m.lease[l].replica
<1>1. m \in ManagerStates /\ m.lease \in Seq(LeaseRecords) /\ m.lease[l] \in LeaseRecords
  BY RecordTypes DEF Good, ManagerStates
<1>2. /\ m.lease[l].state = "active" /\ m.lease[l].purpose = "speculative"
      /\ r \in Replicas /\ ~m.lease[l].exec
  BY <1>1, RecordTypes DEF CanPromote, Good, Shape
<1>3. /\ n.life = m.life /\ n.backing = m.backing /\ n.source = m.source
      /\ n.refs = m.refs /\ n.logical = m.logical /\ n.copies = m.copies
      /\ n.frozen = m.frozen
      /\ n.execs = [m.execs EXCEPT ![r] = @ + 1]
      /\ n.lease = [m.lease EXCEPT ![l] = [m.lease[l] EXCEPT !.purpose = "execution",
                                                             !.exec = TRUE]]
  BY <1>1 DEF PromoteSpeculative, ManagerStates
<1>4. [m.lease[l] EXCEPT !.purpose = "execution", !.exec = TRUE] \in LeaseRecords
  BY <1>1 DEF LeaseRecords, Purposes
<1>5. n.lease \in Seq(LeaseRecords) /\ DOMAIN n.lease = DOMAIN m.lease
  BY <1>1, <1>3, <1>4
<1>6. /\ \A k \in DOMAIN m.lease :
           /\ n.lease[k].owner = m.lease[k].owner
           /\ n.lease[k].segment = m.lease[k].segment
           /\ n.lease[k].source = m.lease[k].source
           /\ n.lease[k].replica = m.lease[k].replica
           /\ n.lease[k].copy = m.lease[k].copy
           /\ n.lease[k].state = m.lease[k].state
           /\ k # l => /\ n.lease[k].exec = m.lease[k].exec
                       /\ n.lease[k].purpose = m.lease[k].purpose
      /\ n.lease[l].exec /\ n.lease[l].purpose = "execution"
  <2>1. \A k \in DOMAIN m.lease : k # l => n.lease[k] = m.lease[k]
    BY <1>3
  <2>2. n.lease[l] = [m.lease[l] EXCEPT !.purpose = "execution", !.exec = TRUE]
    BY <1>1, <1>3
  <2>3. LET x == m.lease[l]
            y == [m.lease[l] EXCEPT !.purpose = "execution", !.exec = TRUE]
        IN  /\ y.owner = x.owner /\ y.segment = x.segment /\ y.source = x.source
            /\ y.replica = x.replica /\ y.copy = x.copy /\ y.state = x.state
            /\ y.exec /\ y.purpose = "execution"
    BY <1>1 DEF LeaseRecords
  <2> HIDE DEF n
  <2> QED
    BY <2>1, <2>2, <2>3
<1>7. n = [m EXCEPT !.lease = n.lease, !.execs = n.execs]
  BY <1>1 DEF PromoteSpeculative, ManagerStates
<1> HIDE DEF n
<1>8. Live(n) = Live(m)
  BY <1>5, <1>6 DEF Live
<1>9. /\ \A q \in Replicas : /\ Holders(n, q) = Holders(m, q)
                             /\ Copiers(n, q) = Copiers(m, q)
                             /\ q # r => Executors(n, q) = Executors(m, q)
      /\ Executors(n, r) = Executors(m, r) \cup {l}
      /\ \A s \in Sources : LogicalHolders(n, s) = LogicalHolders(m, s)
  BY <1>2, <1>6, <1>8 DEF Holders, Copiers, Executors, LogicalHolders, Live
<1>10. l \notin Executors(m, r) /\ Executors(m, r) \subseteq DOMAIN m.lease
  BY <1>2 DEF Executors, Live
<1>11. Cardinality(Executors(n, r)) = Cardinality(Executors(m, r)) + 1
  <2>1. Cardinality(Executors(m, r) \cup {l}) = Cardinality(Executors(m, r)) + 1
    BY <1>1, <1>10, TableFinite, FS_AddElement
  <2> QED
    BY <1>9, <2>1, Zenon
<1>12. CountersMatch(m) /\ m.execs \in [Replicas -> Nat]
  BY <1>1 DEF Good, ManagerStates
<1>13. n.execs[r] = Cardinality(Executors(n, r)) /\ n.execs \in [Replicas -> Nat]
       /\ \A q \in Replicas : q # r => n.execs[q] = m.execs[q]
  BY <1>2, <1>3, <1>11, <1>12 DEF CountersMatch
<1>14. CountersMatch(n)
  <2>1. \A q \in Replicas : n.execs[q] = Cardinality(Executors(n, q))
    BY <1>9, <1>12, <1>13 DEF CountersMatch
  <2> QED
    BY <1>3, <1>9, <1>12, <2>1 DEF CountersMatch
<1>15. n \in ManagerStates
  BY <1>1, <1>5, <1>7, <1>13 DEF ManagerStates
<1>16. Shape(n)
  <2>1. \A k \in DOMAIN n.lease :
          /\ n.lease[k].replica = NoReplica => k # l
          /\ n.lease[k].purpose = "speculative" => k # l
    BY <1>2, <1>5, <1>6, NullValues
  <2> QED
    BY <1>2, <1>3, <1>5, <1>6, <2>1 DEF Good, Shape
<1>17. \A s : HealthyBacking(n, s) = HealthyBacking(m, s)
  BY <1>3 DEF HealthyBacking
<1>18. LeasesProtect(n)
  BY <1>3, <1>6, <1>8, <1>17 DEF LeasesProtect, Good, Live
<1> QED
  BY <1>14, <1>15, <1>16, <1>18 DEF Good, n

(* A pool step that leaves the lease table, the counters and the frozen    *)
(* Sources alone keeps the invariant if it keeps the leases protected.     *)
LEMMA PoolStepGood ==
    ASSUME NEW m, Good(m), NEW n \in ManagerStates,
           n.lease = m.lease, n.frozen = m.frozen, n.logical = m.logical,
           \A r \in Replicas : n.refs[r] = m.refs[r] /\ n.copies[r] = m.copies[r]
                               /\ n.execs[r] = m.execs[r],
           LeasesProtect(n)
    PROVE  Good(n)
<1>1. Live(n) = Live(m)
  BY DEF Live
<1>2. /\ \A r \in Replicas : /\ Holders(n, r) = Holders(m, r)
                             /\ Copiers(n, r) = Copiers(m, r)
                             /\ Executors(n, r) = Executors(m, r)
      /\ \A s \in Sources : LogicalHolders(n, s) = LogicalHolders(m, s)
  BY <1>1 DEF Holders, Copiers, Executors, LogicalHolders
<1>3. CountersMatch(n)
  BY <1>2 DEF Good, CountersMatch
<1>4. Shape(n)
  BY DEF Good, Shape
<1> QED
  BY <1>3, <1>4 DEF Good

(* A counter at zero means there is no such lease. *)
LEMMA NoHolders ==
    ASSUME NEW m, Good(m)
    PROVE  /\ \A r \in Replicas : m.refs[r] = 0 => Holders(m, r) = {}
           /\ \A s \in Sources : m.logical[s] = 0 => LogicalHolders(m, s) = {}
<1>1. m \in ManagerStates /\ CountersMatch(m)
  BY DEF Good
<1>2. \A V \in SUBSET (DOMAIN m.lease) : Cardinality(V) = 0 => V = {}
  BY <1>1, TableFinite, FS_EmptySet
<1>3. /\ \A r \in Replicas : Holders(m, r) \in SUBSET (DOMAIN m.lease)
      /\ \A s \in Sources : LogicalHolders(m, s) \in SUBSET (DOMAIN m.lease)
  BY DEF Holders, LogicalHolders, Live
<1> QED
  BY <1>1, <1>2, <1>3 DEF CountersMatch

(* register_source (v8_leases.py:128) disturbs no lease.                   *)
LEMMA RegisterSourceGood ==
    ASSUME NEW m, Good(m), NEW s \in Sources
    PROVE  Good(RegisterSource(m, s))
<1> DEFINE n == RegisterSource(m, s)
<1>1. m \in ManagerStates
  BY DEF Good
<1>2. /\ n.life = m.life /\ n.backing = m.backing /\ n.lease = m.lease
      /\ n.frozen = m.frozen /\ n.logical = m.logical
      /\ n.refs = m.refs /\ n.copies = m.copies /\ n.execs = m.execs
      /\ \A x \in Sources : m.source[x] = "active" => n.source[x] = "active"
      /\ n \in ManagerStates
  BY <1>1 DEF RegisterSource, ManagerStates, SourceStates
<1> HIDE DEF n
<1>3. Live(n) = Live(m)
  BY <1>2 DEF Live
<1>4. \A x : HealthyBacking(n, x) = HealthyBacking(m, x)
  BY <1>2 DEF HealthyBacking
<1>5. LeasesProtect(n)
  <2>1. \A l \in Live(m) : m.lease[l].source \in Sources
    BY <1>1, RecordTypes DEF Live
  <2> QED
    BY <1>2, <1>3, <1>4, <2>1 DEF LeasesProtect, Good
<1> QED
  BY <1>2, <1>5, PoolStepGood DEF n

(* register_replica (v8_leases.py:142) never replaces a Replica some live  *)
(* lease holds, so the fresh counters are right.                           *)
LEMMA RegisterReplicaGood ==
    ASSUME NEW m, Good(m), NEW r \in Replicas, NEW isBacking \in BOOLEAN,
           NEW lifecycle \in {"allocating", "ready"}, CanRegisterReplica(m, r, isBacking)
    PROVE  Good(RegisterReplica(m, r, isBacking, lifecycle))
<1> DEFINE n == RegisterReplica(m, r, isBacking, lifecycle)
<1>1. m \in ManagerStates
  BY DEF Good
<1>2. ~Present(m, r)
  BY DEF CanRegisterReplica
<1>3. Holders(m, r) = {}
  <2>1. \A l \in Holders(m, r) : m.life[r] = "ready"
    BY NullValues DEF Holders, Good, LeasesProtect
  <2> QED
    BY <1>2, <2>1 DEF Present
<1>4. m.refs[r] = 0 /\ m.copies[r] = 0 /\ m.execs[r] = 0
  <2>1. Copiers(m, r) = {} /\ Executors(m, r) = {}
    BY <1>3 DEF Holders, Copiers, Executors
  <2>2. /\ Cardinality(Holders(m, r)) = 0 /\ Cardinality(Copiers(m, r)) = 0
        /\ Cardinality(Executors(m, r)) = 0
    BY <1>3, <2>1, FS_EmptySet, Zenon
  <2> QED
    BY <2>2 DEF Good, CountersMatch
<1>5. /\ n \in ManagerStates
      /\ n.lease = m.lease /\ n.frozen = m.frozen /\ n.logical = m.logical
      /\ n.source = m.source
      /\ n.life = [m.life EXCEPT ![r] = lifecycle]
      /\ n.backing = [m.backing EXCEPT ![r] = isBacking]
      /\ n.refs = [m.refs EXCEPT ![r] = 0] /\ n.copies = [m.copies EXCEPT ![r] = 0]
      /\ n.execs = [m.execs EXCEPT ![r] = 0]
  <2>1. /\ n.source = m.source /\ n.logical = m.logical
        /\ n.lease = m.lease /\ n.frozen = m.frozen
        /\ n.life = [m.life EXCEPT ![r] = lifecycle]
        /\ n.backing = [m.backing EXCEPT ![r] = isBacking]
        /\ n.placement = [m.placement EXCEPT ![r] = @ + 1]
        /\ n.refs = [m.refs EXCEPT ![r] = 0] /\ n.copies = [m.copies EXCEPT ![r] = 0]
        /\ n.execs = [m.execs EXCEPT ![r] = 0]
        /\ n = [m EXCEPT !.life = n.life, !.backing = n.backing,
                         !.placement = n.placement, !.refs = n.refs,
                         !.copies = n.copies, !.execs = n.execs]
    BY <1>1 DEF RegisterReplica, ManagerStates
  <2>2. /\ m.life \in [Replicas -> ReplicaStates] /\ m.backing \in [Replicas -> BOOLEAN]
        /\ m.placement \in [Replicas -> Nat] /\ m.refs \in [Replicas -> Nat]
        /\ m.copies \in [Replicas -> Nat] /\ m.execs \in [Replicas -> Nat]
    BY <1>1 DEF ManagerStates
  <2> HIDE DEF n
  <2>3. /\ n.life \in [Replicas -> ReplicaStates] /\ n.backing \in [Replicas -> BOOLEAN]
        /\ n.placement \in [Replicas -> Nat] /\ n.refs \in [Replicas -> Nat]
        /\ n.copies \in [Replicas -> Nat] /\ n.execs \in [Replicas -> Nat]
    BY <2>1, <2>2 DEF ReplicaStates
  <2>4. n \in ManagerStates
    BY <1>1, <2>1, <2>3 DEF ManagerStates
  <2> QED
    BY <2>1, <2>4
<1> HIDE DEF n
<1>6. \A q \in Replicas : n.refs[q] = m.refs[q] /\ n.copies[q] = m.copies[q]
                          /\ n.execs[q] = m.execs[q]
  BY <1>1, <1>4, <1>5 DEF ManagerStates
<1>7. \A q \in Replicas : q # r => n.life[q] = m.life[q] /\ n.backing[q] = m.backing[q]
  BY <1>1, <1>5 DEF ManagerStates
<1>8. \A x : HealthyBacking(m, x) \subseteq HealthyBacking(n, x)
  BY <1>2, <1>7 DEF HealthyBacking, Present
<1>9. LeasesProtect(n)
  <2>1. Live(n) = Live(m)
    BY <1>5 DEF Live
  <2>2. ASSUME NEW l \in Live(m), m.lease[l].replica # NoReplica
        PROVE  n.life[m.lease[l].replica] = "ready"
    <3>1. m.lease[l].replica \in Replicas /\ m.life[m.lease[l].replica] = "ready"
      BY <1>1, <2>2, RecordTypes DEF Live, Good, LeasesProtect
    <3> QED
      BY <3>1, <1>2, <1>7 DEF Present
  <2>3. ASSUME NEW l \in Live(m), m.lease[l].replica = NoReplica
        PROVE  /\ n.source[m.lease[l].source] = "active"
               /\ HealthyBacking(n, m.lease[l].source) # {}
    <3>1. /\ m.source[m.lease[l].source] = "active"
          /\ HealthyBacking(m, m.lease[l].source) # {}
      BY <2>3 DEF Good, LeasesProtect
    <3> QED
      BY <3>1, <1>5, <1>8
  <2> QED
    BY <1>5, <2>1, <2>2, <2>3 DEF LeasesProtect
<1> QED
  BY <1>5, <1>6, <1>9, PoolStepGood DEF n

(* evict_replica (v8_leases.py:389) takes no Replica from under a lease.   *)
LEMMA EvictGood ==
    ASSUME NEW m, Good(m), NEW r \in Replicas, CanEvictReplica(m, r)
    PROVE  Good(EvictReplica(m, r))
<1> DEFINE n == EvictReplica(m, r)
<1>1. m \in ManagerStates /\ SourceOf[r] \in Sources
  BY PoolShape DEF Good
<1>2. Holders(m, r) = {}
  BY NoHolders DEF CanEvictReplica, Busy
<1>3. m.backing[r] => LogicalHolders(m, SourceOf[r]) = {}
  <2>1. m.backing[r] => m.logical[SourceOf[r]] = 0
    BY <1>1 DEF CanEvictReplica, ManagerStates
  <2> QED
    BY <1>1, <2>1, NoHolders
<1>4. /\ n \in ManagerStates
      /\ n.lease = m.lease /\ n.frozen = m.frozen /\ n.logical = m.logical
      /\ n.source = m.source /\ n.backing = m.backing
      /\ n.refs = m.refs /\ n.copies = m.copies /\ n.execs = m.execs
      /\ n.life = [m.life EXCEPT ![r] = "deleted"]
  BY <1>1 DEF EvictReplica, ManagerStates, ReplicaStates
<1> HIDE DEF n
<1>5. \A q \in Replicas : q # r => n.life[q] = m.life[q]
  BY <1>1, <1>4 DEF ManagerStates
<1>6. LeasesProtect(n)
  <2>1. Live(n) = Live(m)
    BY <1>4 DEF Live
  <2>2. ASSUME NEW l \in Live(m), m.lease[l].replica # NoReplica
        PROVE  n.life[m.lease[l].replica] = "ready"
    <3>1. m.lease[l].replica \in Replicas /\ m.life[m.lease[l].replica] = "ready"
      BY <1>1, <2>2, RecordTypes DEF Live, Good, LeasesProtect
    <3>2. m.lease[l].replica # r
      BY <1>2 DEF Holders
    <3> QED
      BY <3>1, <3>2, <1>5
  <2>3. ASSUME NEW l \in Live(m), m.lease[l].replica = NoReplica
        PROVE  /\ n.source[m.lease[l].source] = "active"
               /\ HealthyBacking(n, m.lease[l].source) # {}
    <3>1. /\ m.source[m.lease[l].source] = "active"
          /\ HealthyBacking(m, m.lease[l].source) # {}
      BY <2>3 DEF Good, LeasesProtect
    <3>2. r \notin HealthyBacking(m, m.lease[l].source)
      BY <1>3, <2>3 DEF HealthyBacking, LogicalHolders
    <3>3. HealthyBacking(m, m.lease[l].source) \subseteq HealthyBacking(n, m.lease[l].source)
      BY <3>2, <1>4, <1>5 DEF HealthyBacking
    <3> QED
      BY <3>1, <3>3, <1>4
  <2> QED
    BY <1>4, <2>1, <2>2, <2>3 DEF LeasesProtect
<1> QED
  BY <1>4, <1>6, PoolStepGood DEF n

(* purge_namespace (v8_leases.py:398) waits for all leases of its Sources. *)
LEMMA PurgeGood ==
    ASSUME NEW m, Good(m), NEW ns, CanPurgeNamespace(m, ns)
    PROVE  Good(PurgeNamespace(m, ns))
<1> DEFINE n == PurgeNamespace(m, ns)
           targets == NamespaceSources(m, ns)
<1>1. m \in ManagerStates
  BY DEF Good
<1>2. targets \subseteq Sources
  BY DEF NamespaceSources
<1>3. \A s \in targets : LogicalHolders(m, s) = {}
  BY <1>2, NoHolders DEF CanPurgeNamespace
<1>4. \A r \in Replicas : SourceOf[r] \in targets => Holders(m, r) = {}
  BY NoHolders DEF CanPurgeNamespace, Busy
<1>5. /\ n \in ManagerStates
      /\ n.lease = m.lease /\ n.frozen = m.frozen /\ n.logical = m.logical
      /\ n.backing = m.backing
      /\ n.refs = m.refs /\ n.copies = m.copies /\ n.execs = m.execs
      /\ n.source = [s \in Sources |-> IF s \in targets THEN "purged" ELSE m.source[s]]
      /\ n.life = [r \in Replicas |-> IF SourceOf[r] \in targets /\ m.life[r] # "absent"
                                      THEN "deleted" ELSE m.life[r]]
  <2> HIDE DEF targets
  <2> QED
    BY <1>1 DEF PurgeNamespace, ManagerStates, ReplicaStates, SourceStates, targets
<1> HIDE DEF n, targets
<1>6. LeasesProtect(n)
  <2>1. Live(n) = Live(m)
    BY <1>5 DEF Live
  <2>2. ASSUME NEW l \in Live(m), m.lease[l].replica # NoReplica
        PROVE  n.life[m.lease[l].replica] = "ready"
    <3>1. m.lease[l].replica \in Replicas /\ m.life[m.lease[l].replica] = "ready"
      BY <1>1, <2>2, RecordTypes DEF Live, Good, LeasesProtect
    <3>2. SourceOf[m.lease[l].replica] \notin targets
      BY <3>1, <1>4 DEF Holders
    <3> QED
      BY <3>1, <3>2, <1>5
  <2>3. ASSUME NEW l \in Live(m), m.lease[l].replica = NoReplica
        PROVE  /\ n.source[m.lease[l].source] = "active"
               /\ HealthyBacking(n, m.lease[l].source) # {}
    <3>1. /\ m.source[m.lease[l].source] = "active"
          /\ HealthyBacking(m, m.lease[l].source) # {}
          /\ m.lease[l].source \in Sources
      BY <1>1, <2>3, RecordTypes DEF Good, LeasesProtect, Live
    <3>2. m.lease[l].source \notin targets
      BY <1>3, <2>3 DEF LogicalHolders
    <3>3. HealthyBacking(m, m.lease[l].source) \subseteq HealthyBacking(n, m.lease[l].source)
      BY <3>2, <1>5 DEF HealthyBacking
    <3> QED
      BY <3>1, <3>2, <3>3, <1>5
  <2> QED
    BY <1>5, <2>1, <2>2, <2>3 DEF LeasesProtect
<1> QED
  BY <1>5, <1>6, PoolStepGood DEF n

(* The times of a lease: it is valid for at least the TTL floor after its  *)
(* last heartbeat, suspected only once that time is over, and has no       *)
(* release reason while it lives.                                          *)
Timely(m) ==
    \A l \in DOMAIN m.lease :
        LET lease == m.lease[l]
        IN  /\ lease.expires >= lease.heartbeat + TtlFloor
            /\ lease.state = "suspect" =>
                 /\ lease.suspectAt \in Nat
                 /\ lease.suspectAt >= lease.expires
            /\ lease.state # "released" => lease.reason = "none"

(* A renewed lease is active, of the right type and valid for the floor. *)
LEMMA RenewedLease ==
    ASSUME NEW x \in LeaseRecords, NEW t \in Nat, x.expires >= x.heartbeat + TtlFloor
    PROVE  LET y == Renewed(x, t)
           IN  /\ y \in LeaseRecords
               /\ y.owner = x.owner /\ y.segment = x.segment /\ y.source = x.source
               /\ y.replica = x.replica /\ y.purpose = x.purpose
               /\ y.copy = x.copy /\ y.exec = x.exec
               /\ y.state = "active" /\ y.heartbeat = t
               /\ y.expires >= t + TtlFloor
               /\ y.reason = x.reason
<1> DEFINE ttl == x.expires - x.heartbeat
           span == IF ttl > TtlFloor THEN ttl ELSE TtlFloor
           y == [x EXCEPT !.heartbeat = t, !.expires = t + span,
                          !.state = "active", !.suspectAt = NoTime]
<1>1. x.expires \in Nat /\ x.heartbeat \in Nat /\ TtlFloor \in Nat
  BY RecoveryTiming DEF LeaseRecords
<1>2. span \in Nat /\ span >= TtlFloor
  BY <1>1
<1>3. t + span \in Nat /\ t + span >= t + TtlFloor
  BY <1>1, <1>2
<1>4. y = Renewed(x, t)
  BY DEF Renewed
<1> HIDE DEF span
<1>5. /\ y \in LeaseRecords
      /\ y.owner = x.owner /\ y.segment = x.segment /\ y.source = x.source
      /\ y.replica = x.replica /\ y.purpose = x.purpose
      /\ y.copy = x.copy /\ y.exec = x.exec
      /\ y.state = "active" /\ y.heartbeat = t /\ y.expires = t + span
      /\ y.reason = x.reason
  BY <1>3 DEF LeaseRecords, LeaseStates
<1> QED
  BY <1>3, <1>4, <1>5

(* heartbeat (v8_leases.py:324) only moves the times of its lease.         *)
LEMMA HeartbeatGood ==
    ASSUME NEW m, Good(m), Timely(m), NEW l \in DOMAIN m.lease, NEW t \in Nat,
           CanHeartbeat(m, l)
    PROVE  Good(Heartbeat(m, l, t)) /\ Timely(Heartbeat(m, l, t))
<1> DEFINE T == [m.lease EXCEPT ![l] = Renewed(m.lease[l], t)]
           y == Renewed(m.lease[l], t)
<1>1. m \in ManagerStates /\ m.lease \in Seq(LeaseRecords) /\ m.lease[l] \in LeaseRecords
  BY RecordTypes DEF Good, ManagerStates
<1>2. /\ y \in LeaseRecords
      /\ y.owner = m.lease[l].owner /\ y.segment = m.lease[l].segment
      /\ y.source = m.lease[l].source /\ y.replica = m.lease[l].replica
      /\ y.purpose = m.lease[l].purpose
      /\ y.copy = m.lease[l].copy /\ y.exec = m.lease[l].exec
      /\ y.state = "active" /\ y.heartbeat = t /\ y.expires >= t + TtlFloor
  BY <1>1, RenewedLease DEF Timely
<1>2a. y.reason = "none"
  BY <1>1, RenewedLease DEF Timely, CanHeartbeat
<1> HIDE DEF y
<1>3. T = [m.lease EXCEPT ![l] = y] /\ Heartbeat(m, l, t) = [m EXCEPT !.lease = T]
  BY <1>1 DEF y, Heartbeat, ManagerStates
<1> HIDE DEF T
<1>4. /\ T \in Seq(LeaseRecords) /\ DOMAIN T = DOMAIN m.lease
      /\ T[l] = y /\ \A k \in DOMAIN m.lease : k # l => T[k] = m.lease[k]
  BY <1>1, <1>2, <1>3
<1>5. m.lease[l].state # "released"
  BY DEF CanHeartbeat
<1>6. \A k \in DOMAIN T :
         /\ T[k].owner = m.lease[k].owner
         /\ T[k].segment = m.lease[k].segment
         /\ T[k].source = m.lease[k].source
         /\ T[k].replica = m.lease[k].replica
         /\ T[k].purpose = m.lease[k].purpose
         /\ T[k].copy = m.lease[k].copy
         /\ T[k].exec = m.lease[k].exec
         /\ T[k].state = "released" <=> m.lease[k].state = "released"
  BY <1>2, <1>4, <1>5
<1>7. Good([m EXCEPT !.lease = T])
  BY <1>4, <1>6, RetimedGood
<1>8. [m EXCEPT !.lease = T].lease = T
  BY <1>1 DEF ManagerStates
<1>9. Timely([m EXCEPT !.lease = T])
  <2>1. \A k \in DOMAIN T :
          /\ T[k].expires >= T[k].heartbeat + TtlFloor
          /\ T[k].state = "suspect" => /\ T[k].suspectAt \in Nat
                                       /\ T[k].suspectAt >= T[k].expires
          /\ T[k].state # "released" => T[k].reason = "none"
    BY <1>2, <1>2a, <1>4 DEF Timely
  <2> QED
    BY <1>8, <2>1 DEF Timely
<1> QED
  BY <1>3, <1>7, <1>9

(* A step that leaves the times of the leases alone, suspects none and     *)
(* grants only timely ones keeps the table timely.                         *)
LEMMA TimelyKept ==
    ASSUME NEW m, Timely(m), NEW n,
           \A l \in DOMAIN n.lease :
             \/ /\ l \in DOMAIN m.lease
                /\ n.lease[l].heartbeat = m.lease[l].heartbeat
                /\ n.lease[l].expires = m.lease[l].expires
                /\ n.lease[l].suspectAt = m.lease[l].suspectAt
                /\ n.lease[l].state = "suspect" => m.lease[l].state = "suspect"
                /\ n.lease[l].state # "released" =>
                     m.lease[l].state # "released" /\ n.lease[l].reason = m.lease[l].reason
             \/ /\ n.lease[l].expires >= n.lease[l].heartbeat + TtlFloor
                /\ n.lease[l].state = "active" /\ n.lease[l].reason = "none"
    PROVE  Timely(n)
<1>1. ASSUME NEW l \in DOMAIN n.lease
      PROVE  /\ n.lease[l].expires >= n.lease[l].heartbeat + TtlFloor
             /\ n.lease[l].state = "suspect" =>
                  /\ n.lease[l].suspectAt \in Nat
                  /\ n.lease[l].suspectAt >= n.lease[l].expires
             /\ n.lease[l].state # "released" => n.lease[l].reason = "none"
  BY DEF Timely
<1> QED
  BY <1>1 DEF Timely

(* A granted lease is valid for the TTL floor at least.                    *)
LEMMA NewLeaseTimely ==
    ASSUME NEW o, NEW g, NEW s, NEW r, NEW purpose, NEW remaining \in Nat, NEW t \in Nat
    PROVE  LET new == NewLease(o, g, s, r, purpose, remaining, t)
           IN  /\ new.expires >= new.heartbeat + TtlFloor
               /\ new.state = "active" /\ new.reason = "none"
BY RecoveryTiming DEF NewLease, TtlFor

(* freeze_and_acquire_logical keeps the table timely.                      *)
LEMMA FreezeTimely ==
    ASSUME NEW m \in ManagerStates, Timely(m), NEW o \in Owners, NEW g \in Segments,
           NEW s \in Sources, NEW remaining \in Nat, NEW t \in Nat
    PROVE  Timely(FreezeAndAcquireLogical(m, o, g, s, remaining, t))
<1> DEFINE n == FreezeAndAcquireLogical(m, o, g, s, remaining, t)
           new == NewLease(o, g, s, NoReplica, "logical", remaining, t)
<1>1. new \in LeaseRecords
  BY NewLeaseType DEF Purposes
<1>2. new.expires >= new.heartbeat + TtlFloor /\ new.state = "active" /\ new.reason = "none"
  BY NewLeaseTimely
<1> HIDE DEF new
<1>3. n.lease = Append(m.lease, new) /\ m.lease \in Seq(LeaseRecords)
  BY DEF FreezeAndAcquireLogical, ManagerStates, new
<1> HIDE DEF n
<1>4. \A l \in DOMAIN n.lease :
        (l \in DOMAIN m.lease /\ n.lease[l] = m.lease[l]) \/ n.lease[l] = new
  BY <1>1, <1>3
<1>5. Timely(n)
  BY <1>2, <1>4, TimelyKept
<1> QED
  BY <1>5 DEF n

(* compare_and_lease_batch keeps the table timely.                         *)
LEMMA BatchTimely ==
    ASSUME NEW m \in ManagerStates, Timely(m), NEW o \in Owners,
           NEW reqs \in Seq(BatchRequests), NEW remaining \in Nat, NEW t \in Nat
    PROVE  Timely(LeaseBatch(m, o, reqs, remaining, t))
<1> DEFINE n == LeaseBatch(m, o, reqs, remaining, t)
<1>1. /\ \A l \in DOMAIN n.lease :
           l \in DOMAIN m.lease \/ \E i \in DOMAIN reqs : l = Len(m.lease) + i
      /\ \A l \in DOMAIN m.lease : n.lease[l] = m.lease[l]
      /\ \A i \in DOMAIN reqs :
           n.lease[Len(m.lease) + i] = BatchLease(o, reqs[i], remaining, t)
  BY BatchTable
<1>2. \A q : LET new == BatchLease(o, q, remaining, t)
             IN  /\ new.expires >= new.heartbeat + TtlFloor
                 /\ new.state = "active" /\ new.reason = "none"
  BY NewLeaseTimely DEF BatchLease
<1> HIDE DEF n
<1>3. \A l \in DOMAIN n.lease :
        \/ l \in DOMAIN m.lease /\ n.lease[l] = m.lease[l]
        \/ n.lease[l].expires >= n.lease[l].heartbeat + TtlFloor
           /\ n.lease[l].state = "active" /\ n.lease[l].reason = "none"
  BY <1>1, <1>2
<1>4. Timely(n)
  BY <1>3, TimelyKept
<1> QED
  BY <1>4 DEF n

(* mark_physical_ready and promote_speculative_to_execution leave the      *)
(* times of all leases alone.                                              *)
LEMMA ReadyPromoteTimely ==
    ASSUME NEW m \in ManagerStates, Timely(m), NEW l \in DOMAIN m.lease
    PROVE  Timely(MarkPhysicalReady(m, l)) /\ Timely(PromoteSpeculative(m, l))
<1> DEFINE a == [m.lease EXCEPT ![l] = [m.lease[l] EXCEPT !.copy = FALSE, !.ready = TRUE]]
           b == [m.lease EXCEPT ![l] = [m.lease[l] EXCEPT !.purpose = "execution",
                                                          !.exec = TRUE]]
<1>1. \/ MarkPhysicalReady(m, l) = m
      \/ MarkPhysicalReady(m, l).lease = a
  BY DEF MarkPhysicalReady, ManagerStates
<1>2. PromoteSpeculative(m, l).lease = b
  BY DEF PromoteSpeculative, ManagerStates
<1>3. m.lease[l] \in LeaseRecords
  BY RecordTypes
<1>4. /\ DOMAIN a = DOMAIN m.lease /\ DOMAIN b = DOMAIN m.lease
      /\ \A k \in DOMAIN m.lease : k # l => a[k] = m.lease[k] /\ b[k] = m.lease[k]
      /\ a[l] = [m.lease[l] EXCEPT !.copy = FALSE, !.ready = TRUE]
      /\ b[l] = [m.lease[l] EXCEPT !.purpose = "execution", !.exec = TRUE]
  OBVIOUS
<1> HIDE DEF a, b
<1>5. /\ a[l].heartbeat = m.lease[l].heartbeat /\ a[l].expires = m.lease[l].expires
      /\ a[l].suspectAt = m.lease[l].suspectAt /\ a[l].state = m.lease[l].state
      /\ b[l].heartbeat = m.lease[l].heartbeat /\ b[l].expires = m.lease[l].expires
      /\ b[l].suspectAt = m.lease[l].suspectAt /\ b[l].state = m.lease[l].state
      /\ a[l].reason = m.lease[l].reason /\ b[l].reason = m.lease[l].reason
  BY <1>3, <1>4 DEF LeaseRecords
<1>6. \A k \in DOMAIN m.lease :
        /\ a[k].heartbeat = m.lease[k].heartbeat /\ a[k].expires = m.lease[k].expires
        /\ a[k].suspectAt = m.lease[k].suspectAt /\ a[k].state = m.lease[k].state
        /\ b[k].heartbeat = m.lease[k].heartbeat /\ b[k].expires = m.lease[k].expires
        /\ b[k].suspectAt = m.lease[k].suspectAt /\ b[k].state = m.lease[k].state
        /\ a[k].reason = m.lease[k].reason /\ b[k].reason = m.lease[k].reason
  BY <1>4, <1>5
<1>7. \A n : n.lease = a => Timely(n)
  BY <1>4, <1>6, TimelyKept
<1>8. \A n : n.lease = b => Timely(n)
  BY <1>4, <1>6, TimelyKept
<1> QED
  BY <1>1, <1>2, <1>7, <1>8

(* release() by the request keeps the table timely.                        *)
LEMMA ReleaseTimely ==
    ASSUME NEW m \in ManagerStates, Timely(m), NEW L, NEW reason
    PROVE  Timely(ReleaseAll(m, L, reason))
<1> DEFINE n == ReleaseAll(m, L, reason)
<1>1. /\ DOMAIN n.lease = DOMAIN m.lease
      /\ \A l \in DOMAIN m.lease :
           n.lease[l] = Released(m.lease[l], reason) \/ n.lease[l] = m.lease[l]
  BY DEF ReleaseAll, ManagerStates
<1>2. \A x \in LeaseRecords :
        LET y == Released(x, reason)
        IN  /\ y.heartbeat = x.heartbeat /\ y.expires = x.expires
            /\ y.suspectAt = x.suspectAt /\ y.state = "released"
  BY DEF Released, LeaseRecords
<1> HIDE DEF n
<1>3. \A l \in DOMAIN m.lease :
        /\ n.lease[l].heartbeat = m.lease[l].heartbeat
        /\ n.lease[l].expires = m.lease[l].expires
        /\ n.lease[l].suspectAt = m.lease[l].suspectAt
        /\ n.lease[l].state = "suspect" => m.lease[l].state = "suspect"
        /\ n.lease[l].state # "released" => n.lease[l] = m.lease[l]
  BY <1>1, <1>2, RecordTypes
<1>4. Timely(n)
  BY <1>1, <1>3, TimelyKept
<1> QED
  BY <1>4 DEF n

(* A sweep of recover_expired (v8_leases.py:359) is retiming followed by   *)
(* releasing, so it keeps the invariant.                                   *)
LEMMA RecoverGood ==
    ASSUME NEW m, Good(m), Timely(m), NEW liveOwners, NEW t \in Nat
    PROVE  Good(RecoverExpired(m, liveOwners, t)) /\ Timely(RecoverExpired(m, liveOwners, t))
<1> DEFINE reclaimed == Reclaimed(m, liveOwners, t)
           again == Expired(m, t) \ reclaimed
           T == [l \in DOMAIN m.lease |->
                   IF l \in again THEN Swept(m.lease[l], liveOwners, t) ELSE m.lease[l]]
           swept == [m EXCEPT !.lease = T]
<1>1. m \in ManagerStates /\ m.lease \in Seq(LeaseRecords)
  BY DEF Good, ManagerStates
<1>2. RecoverExpired(m, liveOwners, t) = ReleaseAll(swept, reclaimed, "orphan_recovery")
  BY DEF RecoverExpired
<1>3. \A l \in again : l \in DOMAIN m.lease /\ m.lease[l].state # "released"
                       /\ t >= m.lease[l].expires
  BY DEF Expired, Live
<1> HIDE DEF again, reclaimed
<1>4. ASSUME NEW l \in again
      PROVE  LET x == m.lease[l]
                 y == Swept(x, liveOwners, t)
             IN  /\ y \in LeaseRecords
                 /\ y.owner = x.owner /\ y.segment = x.segment /\ y.source = x.source
                 /\ y.replica = x.replica /\ y.purpose = x.purpose
                 /\ y.copy = x.copy /\ y.exec = x.exec
                 /\ y.state # "released"
                 /\ y.expires >= y.heartbeat + TtlFloor
                 /\ y.state = "suspect" => y.suspectAt \in Nat /\ y.suspectAt >= y.expires
                 /\ y.reason = "none"
  <2> DEFINE x == m.lease[l]
  <2>1. x \in LeaseRecords /\ x.expires >= x.heartbeat + TtlFloor
        /\ (x.state = "suspect" => x.suspectAt \in Nat /\ x.suspectAt >= x.expires)
        /\ x.state # "released" /\ x.reason = "none" /\ t >= x.expires
    BY <1>1, <1>3, RecordTypes DEF Timely
  <2> HIDE DEF x
  <2>2. CASE x.owner \in liveOwners
    <3>1. Swept(x, liveOwners, t) = Renewed(x, t)
      BY <2>2 DEF Swept
    <3> QED
      BY <2>1, <3>1, RenewedLease DEF x
  <2>3. CASE x.owner \notin liveOwners /\ x.state = "active"
    <3>1. Swept(x, liveOwners, t) = [x EXCEPT !.state = "suspect", !.suspectAt = t]
      BY <2>3 DEF Swept
    <3> DEFINE y == [x EXCEPT !.state = "suspect", !.suspectAt = t]
    <3>2. /\ y \in LeaseRecords
          /\ y.owner = x.owner /\ y.segment = x.segment /\ y.source = x.source
          /\ y.replica = x.replica /\ y.purpose = x.purpose
          /\ y.copy = x.copy /\ y.exec = x.exec
          /\ y.state = "suspect" /\ y.suspectAt = t
          /\ y.expires = x.expires /\ y.heartbeat = x.heartbeat
          /\ y.reason = x.reason
      BY <2>1 DEF LeaseRecords, LeaseStates
    <3> QED
      BY <2>1, <3>1, <3>2 DEF x
  <2>4. CASE x.owner \notin liveOwners /\ x.state # "active"
    <3>1. Swept(x, liveOwners, t) = x
      BY <2>4 DEF Swept
    <3> QED
      BY <2>1, <3>1 DEF x
  <2> QED
    BY <2>2, <2>3, <2>4
<1>5. /\ DOMAIN T = DOMAIN m.lease
      /\ \A l \in DOMAIN m.lease : T[l] \in LeaseRecords
      /\ \A l \in DOMAIN m.lease : l \notin again => T[l] = m.lease[l]
      /\ \A l \in again : T[l] = Swept(m.lease[l], liveOwners, t)
  BY <1>1, <1>3, <1>4, RecordTypes
<1>6. T \in Seq(LeaseRecords)
  <2>1. Len(m.lease) \in Nat /\ DOMAIN m.lease = 1..Len(m.lease)
    BY <1>1
  <2>2. T \in [1..Len(m.lease) -> LeaseRecords]
    BY <2>1, <1>5
  <2> QED
    BY <2>1, <2>2
<1> HIDE DEF T
<1>7. \A l \in DOMAIN T :
        /\ T[l].owner = m.lease[l].owner
        /\ T[l].segment = m.lease[l].segment
        /\ T[l].source = m.lease[l].source
        /\ T[l].replica = m.lease[l].replica
        /\ T[l].purpose = m.lease[l].purpose
        /\ T[l].copy = m.lease[l].copy
        /\ T[l].exec = m.lease[l].exec
        /\ T[l].state = "released" <=> m.lease[l].state = "released"
  BY <1>3, <1>4, <1>5
<1>8. Good(swept)
  BY <1>5, <1>6, <1>7, RetimedGood
<1>9. swept.lease = T
  BY <1>1 DEF ManagerStates
<1>10. Timely(swept)
  <2>1. ASSUME NEW l \in DOMAIN T
        PROVE  /\ T[l].expires >= T[l].heartbeat + TtlFloor
               /\ T[l].state = "suspect" => /\ T[l].suspectAt \in Nat
                                            /\ T[l].suspectAt >= T[l].expires
               /\ T[l].state # "released" => T[l].reason = "none"
    <3>1. CASE l \in again
      BY <3>1, <1>4, <1>5
    <3>2. CASE l \notin again
      BY <3>2, <1>5 DEF Timely
    <3> QED
      BY <3>1, <3>2
  <2> QED
    BY <1>9, <2>1 DEF Timely
<1>11. Good(ReleaseAll(swept, reclaimed, "orphan_recovery"))
  BY <1>8, ReleaseGood DEF Reasons
<1>12. Timely(ReleaseAll(swept, reclaimed, "orphan_recovery"))
  BY <1>8, <1>10, ReleaseTimely DEF Good
<1> QED
  BY <1>2, <1>11, <1>12

(***************************************************************************)
(* What the operators do to the records there are.                         *)
(***************************************************************************)
(* What every step but a sweep does to the records there are: it leaves a  *)
(* released one as it is and reclaims none.                                *)
Keeps(m, n) ==
    \A l \in DOMAIN m.lease :
        /\ l \in DOMAIN n.lease
        /\ m.lease[l].state = "released" => n.lease[l] = m.lease[l]
        /\ n.lease[l].reason = "orphan_recovery" => m.lease[l].reason = "orphan_recovery"

(* Granting leases leaves the records there are alone.                     *)
LEMMA GrantsKeep ==
    ASSUME NEW m \in ManagerStates, NEW o \in Owners, NEW g \in Segments,
           NEW s \in Sources, NEW reqs \in Seq(BatchRequests),
           NEW remaining \in Nat, NEW t \in Nat
    PROVE  /\ Keeps(m, FreezeAndAcquireLogical(m, o, g, s, remaining, t))
           /\ Keeps(m, LeaseBatch(m, o, reqs, remaining, t))
<1> DEFINE new == NewLease(o, g, s, NoReplica, "logical", remaining, t)
           a == FreezeAndAcquireLogical(m, o, g, s, remaining, t)
           b == LeaseBatch(m, o, reqs, remaining, t)
<1>1. new \in LeaseRecords
  BY NewLeaseType DEF Purposes
<1> HIDE DEF new
<1>2. a.lease = Append(m.lease, new) /\ m.lease \in Seq(LeaseRecords)
  BY DEF FreezeAndAcquireLogical, ManagerStates, new
<1>3. \A l \in DOMAIN m.lease : l \in DOMAIN a.lease /\ a.lease[l] = m.lease[l]
  BY <1>1, <1>2
<1>4. \A l \in DOMAIN m.lease : l \in DOMAIN b.lease /\ b.lease[l] = m.lease[l]
  BY BatchTable
<1> QED
  BY <1>3, <1>4 DEF Keeps

(* Readiness, promotion, heartbeat and release leave every released record *)
(* alone and reclaim nothing as an orphan.                                 *)
LEMMA UpdatesKeep ==
    ASSUME NEW m \in ManagerStates, NEW l \in DOMAIN m.lease
    PROVE  /\ CanMarkReady(m, l) => Keeps(m, MarkPhysicalReady(m, l))
           /\ CanPromote(m, l) => Keeps(m, PromoteSpeculative(m, l))
           /\ \A t \in Nat : CanHeartbeat(m, l) => Keeps(m, Heartbeat(m, l, t))
           /\ Keeps(m, Release(m, l, "request"))
<1>1. m.lease[l] \in LeaseRecords
  BY RecordTypes
<1>2. ASSUME NEW y, y.reason = m.lease[l].reason \/ y.reason = "request",
             m.lease[l].state # "released", NEW n, n.lease = [m.lease EXCEPT ![l] = y]
      PROVE  Keeps(m, n)
  BY <1>2 DEF Keeps
<1>3. ASSUME CanMarkReady(m, l) PROVE Keeps(m, MarkPhysicalReady(m, l))
  <2> DEFINE y == [m.lease[l] EXCEPT !.copy = FALSE, !.ready = TRUE]
  <2>1. y.reason = m.lease[l].reason
    BY <1>1 DEF LeaseRecords
  <2>2. \/ MarkPhysicalReady(m, l) = m
        \/ MarkPhysicalReady(m, l).lease = [m.lease EXCEPT ![l] = y]
    BY DEF MarkPhysicalReady, ManagerStates
  <2>3. Keeps(m, m)
    BY DEF Keeps
  <2> QED
    BY <1>2, <1>3, <2>1, <2>2, <2>3 DEF CanMarkReady
<1>4. ASSUME CanPromote(m, l) PROVE Keeps(m, PromoteSpeculative(m, l))
  <2> DEFINE y == [m.lease[l] EXCEPT !.purpose = "execution", !.exec = TRUE]
  <2>1. y.reason = m.lease[l].reason
    BY <1>1 DEF LeaseRecords
  <2>2. PromoteSpeculative(m, l).lease = [m.lease EXCEPT ![l] = y]
    BY DEF PromoteSpeculative, ManagerStates
  <2> QED
    BY <1>2, <1>4, <2>1, <2>2 DEF CanPromote
<1>5. ASSUME NEW t \in Nat, CanHeartbeat(m, l) PROVE Keeps(m, Heartbeat(m, l, t))
  <2> DEFINE y == Renewed(m.lease[l], t)
  <2>1. y.reason = m.lease[l].reason
    BY <1>1 DEF Renewed, LeaseRecords
  <2>2. Heartbeat(m, l, t).lease = [m.lease EXCEPT ![l] = y]
    BY DEF Heartbeat, ManagerStates
  <2> QED
    BY <1>2, <1>5, <2>1, <2>2 DEF CanHeartbeat
<1>6. Keeps(m, Release(m, l, "request"))
  <2> DEFINE n == Release(m, l, "request")
  <2>1. /\ DOMAIN n.lease = DOMAIN m.lease
        /\ \A k \in DOMAIN m.lease :
             n.lease[k] = IF k = l /\ m.lease[k].state # "released"
                          THEN Released(m.lease[k], "request") ELSE m.lease[k]
    BY DEF Release, ReleaseAll, ManagerStates, Live
  <2>2. Released(m.lease[l], "request").reason = "request"
    BY <1>1 DEF Released, LeaseRecords
  <2> HIDE DEF n
  <2>3. Keeps(m, n)
    BY <2>1, <2>2 DEF Keeps
  <2> QED
    BY <2>3 DEF n
<1> QED
  BY <1>3, <1>4, <1>5, <1>6

(* What a sweep does: it leaves released records alone and reclaims a live *)
(* one only as ReclaimedAfterGrace says.                                   *)
LEMMA SweepKeeps ==
    ASSUME NEW m, Good(m), Timely(m), NEW liveOwners, NEW t \in Nat,
           NEW l \in DOMAIN m.lease
    PROVE  LET n == RecoverExpired(m, liveOwners, t)
           IN  /\ l \in DOMAIN n.lease
               /\ m.lease[l].state = "released" => n.lease[l] = m.lease[l]
               /\ /\ m.lease[l].state # "released"
                  /\ n.lease[l].reason = "orphan_recovery"
                  => t >= m.lease[l].heartbeat + TtlFloor + OrphanGrace
<1> DEFINE reclaimed == Reclaimed(m, liveOwners, t)
           again == Expired(m, t) \ reclaimed
           T == [k \in DOMAIN m.lease |->
                   IF k \in again THEN Swept(m.lease[k], liveOwners, t) ELSE m.lease[k]]
           swept == [m EXCEPT !.lease = T]
           n == ReleaseAll(swept, reclaimed, "orphan_recovery")
           x == m.lease[l]
<1>1. m \in ManagerStates /\ x \in LeaseRecords
  BY RecordTypes DEF Good
<1>2. n = RecoverExpired(m, liveOwners, t)
  BY DEF RecoverExpired
<1>3. swept.lease = T
  BY <1>1 DEF ManagerStates
<1>4. DOMAIN n.lease = DOMAIN T
      /\ \A k \in DOMAIN T :
           n.lease[k] = IF k \in reclaimed /\ T[k].state # "released"
                        THEN Released(T[k], "orphan_recovery") ELSE T[k]
  <2> HIDE DEF T, reclaimed
  <2> QED
    BY <1>1, <1>3 DEF ReleaseAll, ManagerStates, Live
<1>5. DOMAIN T = DOMAIN m.lease
  OBVIOUS
<1>6. CASE m.lease[l].state = "released"
  <2>1. l \notin again /\ l \notin reclaimed
    BY <1>6 DEF Expired, Live, Reclaimed
  <2>2. T[l] = m.lease[l]
    BY <2>1
  <2> HIDE DEF T, n, again, reclaimed
  <2> QED
    BY <1>2, <1>4, <1>5, <1>6, <2>1, <2>2
<1>7. CASE m.lease[l].state # "released" /\ l \in reclaimed
  <2>1. /\ x.state = "suspect" /\ t >= x.suspectAt + OrphanGrace
    BY <1>7 DEF Reclaimed
  <2>2. /\ x.suspectAt \in Nat /\ x.suspectAt >= x.expires
        /\ x.expires >= x.heartbeat + TtlFloor
    BY <2>1 DEF Timely
  <2>3. x.expires \in Nat /\ x.heartbeat \in Nat
    BY <1>1, RecordTypes
  <2>4. t >= x.heartbeat + TtlFloor + OrphanGrace
    BY <2>1, <2>2, <2>3, RecoveryTiming
  <2> QED
    BY <1>2, <1>4, <1>5, <1>7, <2>4
<1>8. CASE m.lease[l].state # "released" /\ l \notin reclaimed
  <2>1. n.lease[l] = T[l]
    BY <1>4, <1>5, <1>8
  <2>2. T[l] = x \/ T[l] = Swept(x, liveOwners, t)
    OBVIOUS
  <2>3. x.reason = "none"
    BY <1>8 DEF Timely
  <2>4. Swept(x, liveOwners, t).reason = x.reason
    BY <1>1 DEF Swept, Renewed, LeaseRecords
  <2>5. n.lease[l].reason # "orphan_recovery"
    BY <2>1, <2>2, <2>3, <2>4
  <2> QED
    BY <1>2, <1>4, <1>5, <1>8, <2>5
<1> QED
  BY <1>6, <1>7, <1>8
=============================================================================
