---------------------------- MODULE EngineProofs ----------------------------
(***************************************************************************)
(* Proofs about the data plane of one request: which rows the engine runs  *)
(* in each layer, which Source rows its layers attend to, and what the     *)
(* executor holds while their copies are under way.                        *)
(***************************************************************************)
EXTENDS ReuseExecutor, FoldLemmas, TLAPS

-----------------------------------------------------------------------------
Plans == [Segments -> [Layers -> 1..100 \cup {NoRatio}]]

Admissions ==
    [prepared : SUBSET Segments, detached : SUBSET Segments, final : SUBSET Segments,
     endpoint : [Segments -> Endpoints]]

EngineTypes ==
    /\ session \in SessionStates
    /\ frozen \in [Segments -> Sources \cup {NoSource}]
    /\ loaded \in [Segments -> 0..TotalLayers \cup {NoTicket}]
    /\ composite \in [Layers -> SUBSET Segments] /\ ran \in [Layers -> SUBSET Positions]
    /\ admitted \in Admissions
    /\ plan = NoPlan \/ (plan \in Plans /\ NonIncreasing(plan))

(* The rows of a segment that the next layer still takes.                  *)
Support(g) == IF g \in Committed(session) THEN session.repair[g] ELSE PositionsOf[g]

(* The session: only a segment with its final admission is committed, at   *)
(* the layer that comes next, and the target of that layer holds exactly   *)
(* the support of every segment.                                           *)
SessionFits ==
    /\ Committed(session) \subseteq admitted.final
    /\ \A g \in Segments :
         /\ session.boundary[g] <= session.layer + 1
         /\ session.repair[g] \subseteq PositionsOf[g]
         /\ session.staged \cap PositionsOf[g] = Support(g)

(* An endpoint or the plan admits a segment, never both.                   *)
AdmissionsFit ==
    \A g \in admitted.final : (admitted.endpoint[g] = "none") = (plan # NoPlan)

(* What the support of a committed segment has to be for the next layer to *)
(* run as admitted: what its endpoint says; at its boundary at least what  *)
(* is planned there; later what the layer before ran, or what is planned   *)
(* next, where a call that found a layer missing has shrunk it already.    *)
SupportFits(g) ==
    LET l == session.layer
        rows == Cardinality(session.repair[g])
        planned == l < TotalLayers /\ plan[g][l + 1] # NoRatio
    IN  IF admitted.endpoint[g] = "r1" THEN session.repair[g] = PositionsOf[g]
        ELSE IF admitted.endpoint[g] = "r0" THEN session.repair[g] = {}
        ELSE IF session.boundary[g] = l + 1
        THEN planned => rows >= AdmittedCount(plan, g, l + 1)
        ELSE \/ session.repair[g] = ran[l] \cap PositionsOf[g]
             \/ planned /\ rows = AdmittedCount(plan, g, l + 1)

EngineFits ==
    /\ EngineTypes /\ SessionFits /\ AdmissionsFit
    /\ ~session.finished =>
         /\ RunsAsAdmitted /\ InstalledWhileAdvancing
         /\ \A g \in Committed(session) : SupportFits(g)

(* The executor admits its segments once, after everything before.         *)
ExecutorFits ==
    /\ EngineFits
    /\ caller = "executor"
         /\ pc \in {"probe", "admit", "authorize", "prefetch", "wait", "plan", "final"}
           => admitted.final = {}

-----------------------------------------------------------------------------
(***************************************************************************)
(* The rows with the most drift.                                           *)
(***************************************************************************)
(* A set of positions is finite. *)
LEMMA PositionsFinite ==
    ASSUME NEW S \in SUBSET Positions
    PROVE  IsFiniteSet(S) /\ Cardinality(S) \in Nat
<1>1. IsFiniteSet(Positions)
  BY DisjointSegments
<1> QED
  BY <1>1, FS_Subset, FS_CardinalityType

(* A nonempty set of positions has one with the least drift. *)
LEMMA LeastDrift ==
    ASSUME NEW S \in SUBSET Positions, S # {}
    PROVE  \E m \in S : \A q \in S \ {m} : Drift[q] > Drift[m]
<1> DEFINE D == {Drift[x] : x \in S}
<1>1. D \subseteq Nat /\ D # {}
  BY DriftRanks
<1>2. PICK d \in D : \A e \in D : d <= e
  <2> HIDE DEF D
  <2> QED
    BY <1>1, LeastNumber
<1>3. PICK m \in S : Drift[m] = d
  OBVIOUS
<1>4. ASSUME NEW q \in S \ {m} PROVE Drift[q] > Drift[m]
  <2>1. Drift[q] \in Nat /\ Drift[m] \in Nat /\ Drift[q] # Drift[m]
    BY DriftRanks
  <2>2. Drift[m] <= Drift[q]
    BY <1>2, <1>3
  <2> QED
    BY <2>1, <2>2
<1> QED
  BY <1>4

(* measured_repair_positions takes as many rows as it is asked for, of     *)
(* those it may take: drifts are pairwise different.                       *)
LEMMA MostDriftedCount ==
    ASSUME NEW S \in SUBSET Positions
    PROVE  \A n \in 0..Cardinality(S) : Cardinality(MostDrifted(S, n)) = n
<1> DEFINE F == {s \in SUBSET S : \A n \in 0..Cardinality(s) : Cardinality(MostDrifted(s, n)) = n}
<1>1. {} \in F
  <2>1. \A n : MostDrifted({}, n) = {}
    BY DEF MostDrifted
  <2> QED
    BY <2>1, FS_EmptySet
<1>2. ASSUME NEW s \in SUBSET S, s # {}, \A x \in s : s \ {x} \in F PROVE s \in F
  <2>1. PICK m \in s : \A q \in s \ {m} : Drift[q] > Drift[m]
    BY <1>2, LeastDrift
  <2> DEFINE r == s \ {m}
  <2>2. \A p \in s : Drift[p] \in Nat
    BY DriftRanks
  <2>3. IsFiniteSet(s) /\ Cardinality(s) \in Nat /\ Cardinality(r) = Cardinality(s) - 1
        /\ Cardinality(r) \in Nat /\ IsFiniteSet(r)
    BY PositionsFinite, FS_RemoveElement
  <2>4. {q \in s : Drift[q] > Drift[m]} = r
    BY <2>1, <2>2
  <2>5. ASSUME NEW p \in r PROVE {q \in s : Drift[q] > Drift[p]} = {q \in r : Drift[q] > Drift[p]}
    BY <2>1, <2>2
  <2>6. ASSUME NEW n \in 0..Cardinality(s), n # Cardinality(s)
        PROVE  Cardinality(MostDrifted(s, n)) = n
    <3>1. m \notin MostDrifted(s, n)
      BY <2>3, <2>4, <2>6 DEF MostDrifted
    <3>2. MostDrifted(s, n) = MostDrifted(r, n)
      BY <2>5, <3>1 DEF MostDrifted
    <3>3. n \in 0..Cardinality(r) /\ r \in F
      BY <1>2, <2>3, <2>6
    <3> QED
      BY <3>2, <3>3
  <2>7. MostDrifted(s, Cardinality(s)) = s
    <3> SUFFICES ASSUME NEW p \in s PROVE p \in MostDrifted(s, Cardinality(s))
      BY DEF MostDrifted
    <3> DEFINE above == {q \in s : Drift[q] > Drift[p]}
    <3>1. above \in SUBSET r \/ above \in SUBSET (s \ {p})
      BY <2>2
    <3>2. p \notin above
      BY <2>2
    <3>3. Cardinality(above) <= Cardinality(s \ {p}) /\ Cardinality(s \ {p}) = Cardinality(s) - 1
          /\ Cardinality(above) \in Nat
      <4>1. above \in SUBSET (s \ {p}) /\ IsFiniteSet(s \ {p})
        BY <2>3, <3>2, FS_RemoveElement
      <4> QED
        BY <2>3, <4>1, FS_RemoveElement, FS_Subset, FS_CardinalityType
    <3>4. Cardinality(above) < Cardinality(s)
      BY <2>3, <3>3
    <3> QED
      BY <3>4 DEF MostDrifted
  <2> QED
    BY <2>3, <2>6, <2>7
<1>3. S \in F
  <2>1. IsFiniteSet(S)
    BY PositionsFinite
  <2> HIDE DEF F
  <2> QED
    BY <1>1, <1>2, <2>1, SubsetInduction
<1> QED
  BY <1>3

(* So it takes all of them, or none. *)
LEMMA MostDriftedIs ==
    ASSUME NEW S \in SUBSET Positions
    PROVE  /\ \A n : MostDrifted(S, n) \subseteq S
           /\ \A n \in 0..Cardinality(S) : Cardinality(MostDrifted(S, n)) = n
           /\ MostDrifted(S, Cardinality(S)) = S
           /\ MostDrifted(S, 0) = {}
<1>1. \A n : MostDrifted(S, n) \subseteq S
  BY DEF MostDrifted
<1>2. IsFiniteSet(S) /\ Cardinality(S) \in Nat
  BY PositionsFinite
<1>3. Cardinality(MostDrifted(S, Cardinality(S))) = Cardinality(S)
      /\ Cardinality(MostDrifted(S, 0)) = 0
  BY <1>2, MostDriftedCount
<1>4. MostDrifted(S, Cardinality(S)) = S
  BY <1>1, <1>2, <1>3, FS_Subset
<1>5. MostDrifted(S, 0) = {}
  <2>1. IsFiniteSet(MostDrifted(S, 0))
    BY <1>1, <1>2, FS_Subset
  <2> QED
    BY <1>3, <2>1, FS_EmptySet
<1> QED
  BY <1>1, <1>4, <1>5, MostDriftedCount

-----------------------------------------------------------------------------
(***************************************************************************)
(* What a plan admits.                                                     *)
(***************************************************************************)
(* The least of two naturals. *)
LEMMA MinOfTwo ==
    ASSUME NEW a \in Nat, NEW b \in Nat
    PROVE  Min({a, b}) = IF a <= b THEN a ELSE b
<1> DEFINE m == IF a <= b THEN a ELSE b
<1>1. m \in {a, b} /\ \A y \in {a, b} : m <= y
  OBVIOUS
<1>2. \E x \in {a, b} : \A y \in {a, b} : x =< y
  BY <1>1
<1>3. Min({a, b}) \in {a, b} /\ \A y \in {a, b} : Min({a, b}) <= y
  <2> HIDE DEF m
  <2> QED
    BY <1>2, Zenon DEF Min
<1> QED
  BY <1>1, <1>3

(* RowCount rounds up, and grows with its ratio. *)
LEMMA RowCountGrows ==
    ASSUME NEW r \in Nat, NEW s \in Nat, NEW n \in Nat, r <= s
    PROVE  RowCount(r, n) \in Nat /\ RowCount(r, n) <= RowCount(s, n)
<1> DEFINE a == r * n
           b == s * n
<1>1. a \in Nat /\ b \in Nat /\ a <= b
  OBVIOUS
<1>2. RowCount(r, n) = (a + 99) \div 100 /\ RowCount(s, n) = (b + 99) \div 100
  BY DEF RowCount
<1> HIDE DEF a, b
<1>3. (a + 99) \div 100 \in Nat /\ (a + 99) \div 100 <= (b + 99) \div 100
  BY <1>1
<1> QED
  BY <1>2, <1>3

(* What a plan admits is at most the segment, and no more in a later layer *)
(* than in an earlier one.                                                 *)
LEMMA AdmittedShrinks ==
    ASSUME NEW sched \in Plans, NonIncreasing(sched), NEW g \in Segments,
           NEW l \in Layers, sched[g][l] # NoRatio
    PROVE  /\ AdmittedCount(sched, g, l) \in 0..Cardinality(PositionsOf[g])
           /\ \A k \in Layers : k >= l /\ sched[g][k] # NoRatio
                => AdmittedCount(sched, g, k) <= AdmittedCount(sched, g, l)
<1> DEFINE n == Cardinality(PositionsOf[g])
<1>1. n \in Nat
  BY DisjointSegments, PositionsFinite
<1> HIDE DEF n
<1>2. \A k \in Layers : sched[g][k] # NoRatio => sched[g][k] \in Nat
  BY DEF Plans
<1>3. \A k \in Layers : sched[g][k] # NoRatio => RowCount(sched[g][k], n) \in Nat
  <2> TAKE k \in Layers
  <2> HAVE sched[g][k] # NoRatio
  <2> DEFINE r == sched[g][k]
  <2>1. r \in Nat
    BY <1>2
  <2> HIDE DEF r
  <2>2. r <= r
    BY <2>1
  <2>3. RowCount(r, n) \in Nat
    BY <1>1, <2>1, <2>2, RowCountGrows
  <2> QED
    BY <2>3 DEF r
<1>4. \A k \in Layers : sched[g][k] # NoRatio =>
        AdmittedCount(sched, g, k) = IF n <= RowCount(sched[g][k], n) THEN n
                                     ELSE RowCount(sched[g][k], n)
  <2> TAKE k \in Layers
  <2> HAVE sched[g][k] # NoRatio
  <2>1. RowCount(sched[g][k], n) \in Nat
    BY <1>3
  <2> QED
    BY <1>1, <2>1, MinOfTwo DEF AdmittedCount, n
<1>5. ASSUME NEW k \in Layers, k >= l, sched[g][k] # NoRatio
      PROVE  RowCount(sched[g][k], n) <= RowCount(sched[g][l], n)
  <2>1. sched[g][k] <= sched[g][l]
    <3>1. CASE k = l
      BY <1>2, <3>1
    <3>2. CASE l < k
      BY <1>5, <3>2 DEF NonIncreasing, PlannedLayers
    <3> QED
      BY <1>5, <3>1, <3>2, SomeLayers DEF Layers
  <2> QED
    BY <1>1, <1>2, <1>5, <2>1, RowCountGrows
<1>6. AdmittedCount(sched, g, l) \in 0..n
  BY <1>1, <1>3, <1>4
<1>7. \A k \in Layers : k >= l /\ sched[g][k] # NoRatio
                => AdmittedCount(sched, g, k) <= AdmittedCount(sched, g, l)
  BY <1>1, <1>3, <1>4, <1>5
<1> QED
  BY <1>6, <1>7 DEF n

-----------------------------------------------------------------------------
(***************************************************************************)
(* The steps of the engine.                                                *)
(***************************************************************************)
SameRows ==
    /\ session'.layer = session.layer /\ session'.staged = session.staged
    /\ session'.boundary = session.boundary /\ session'.repair = session.repair
    /\ session'.finished = session.finished
    /\ UNCHANGED <<composite, ran>>

(* A step that leaves the session's rows, what its layers ran with and the *)
(* admissions of committed segments alone keeps everything.                *)
LEMMA QuietKeeps ==
    ASSUME EngineFits, EngineTypes', SameRows, AdmissionsFit',
           admitted.final \subseteq admitted'.final,
           \A g \in admitted.final : admitted'.endpoint[g] = admitted.endpoint[g],
           plan' = plan \/ Committed(session) = {}
    PROVE  EngineFits'
<1>1. Committed(session)' = Committed(session)
  BY DEF Committed, SameRows
<1>2. Committed(session) \subseteq admitted.final
  BY DEF EngineFits, SessionFits
<1>3. SessionFits'
  BY <1>1, <1>2 DEF EngineFits, SessionFits, Support, SameRows
<1>4. CASE Committed(session) = {}
  BY <1>1, <1>3, <1>4 DEF EngineFits, RunsAsAdmitted, InstalledWhileAdvancing
<1>5. CASE plan' = plan
  <2>1. \A g \in Committed(session) : admitted'.endpoint[g] = admitted.endpoint[g]
    BY <1>2
  <2>2. ASSUME ~session.finished PROVE RunsAsAdmitted'
    <3> SUFFICES ASSUME NEW g \in Committed(session), NEW k \in session.boundary[g]..session.layer
                 PROVE  CASE admitted.endpoint[g] = "r1" -> RowsRun(g, k) = Cardinality(PositionsOf[g])
                          [] admitted.endpoint[g] = "r0" -> RowsRun(g, k) = 0
                          [] OTHER -> RunsAsPlanned(g, k)
      <4>1. \A g, k : RowsRun(g, k)' = RowsRun(g, k) /\ RunsAsPlanned(g, k)' = RunsAsPlanned(g, k)
        BY <1>5 DEF RunsAsPlanned, RowsRun, SameRows
      <4> QED
        BY <1>1, <2>1, <4>1 DEF RunsAsAdmitted, SameRows
    <3> QED
      BY <2>2 DEF EngineFits, RunsAsAdmitted
  <2>3. ASSUME ~session.finished PROVE InstalledWhileAdvancing'
    BY <1>1, <2>3 DEF EngineFits, InstalledWhileAdvancing, SameRows
  <2>4. ASSUME ~session.finished, NEW g \in Committed(session) PROVE SupportFits(g)'
    <3>1. SupportFits(g)
      BY <2>4 DEF EngineFits
    <3> QED
      BY <1>5, <2>1, <3>1 DEF SupportFits, SameRows
  <2>5. session'.finished = session.finished
    BY DEF SameRows
  <2> QED
    BY <1>1, <1>3, <2>2, <2>3, <2>4, <2>5 DEF EngineFits
<1> QED
  BY <1>4, <1>5

(* Freezing a Source leaves the rows alone. *)
LEMMA FreezeKeeps ==
    ASSUME EngineFits, NEW g, NEW src \in Sources, FreezeSource(g, src)
    PROVE  EngineFits'
<1>1. frozen' = [frozen EXCEPT ![g] = src]
      /\ UNCHANGED <<session, loaded, composite, ran, admitted, plan>>
  BY DEF FreezeSource
<1>2. EngineTypes'
  BY <1>1 DEF EngineFits, EngineTypes
<1>3. AdmissionsFit' /\ SameRows
  BY <1>1 DEF EngineFits, AdmissionsFit, SameRows
<1> QED
  BY <1>1, <1>2, <1>3, QuietKeeps

(* So does a step that leaves all of it alone.                             *)
LEMMA StillKeeps ==
    ASSUME EngineFits, UNCHANGED <<session, frozen, loaded, composite, ran, admitted, plan>>
    PROVE  EngineFits'
<1>1. EngineTypes'
  BY DEF EngineFits, EngineTypes
<1>2. AdmissionsFit' /\ SameRows
  BY DEF EngineFits, AdmissionsFit, SameRows
<1> QED
  BY <1>1, <1>2, QuietKeeps

(* Admitting segments to preparation gives no final admission. *)
LEMMA PreparationKeeps ==
    ASSUME EngineFits, NEW G \in SUBSET Segments,
           AdmitDetachedPreparation(G) \/ AdmitPreparation(G)
    PROVE  EngineFits' /\ admitted'.final = admitted.final
<1>1. /\ UNCHANGED <<session, frozen, loaded, composite, ran, plan>>
      /\ \/ admitted' = [admitted EXCEPT !.detached = @ \cup G, !.prepared = @ \cup G]
         \/ admitted' = [admitted EXCEPT !.prepared = @ \cup G]
  BY DEF AdmitDetachedPreparation, AdmitPreparation
<1>2. admitted \in Admissions
  BY DEF EngineFits, EngineTypes
<1>3. admitted' \in Admissions /\ admitted'.final = admitted.final
      /\ admitted'.endpoint = admitted.endpoint
  BY <1>1, <1>2 DEF Admissions
<1>4. EngineTypes'
  BY <1>1, <1>3 DEF EngineFits, EngineTypes
<1>5. AdmissionsFit' /\ SameRows
  BY <1>1, <1>3 DEF EngineFits, AdmissionsFit, SameRows
<1> QED
  BY <1>1, <1>3, <1>4, <1>5, QuietKeeps

(* A prefetch registers the winner of its segment and opens a ticket. *)
LEMMA PrefetchKeeps ==
    ASSUME EngineFits, NEW g \in Segments, NEW src \in Sources \cup {NoSource},
           StartPrefetch(g, src)
    PROVE  EngineFits'
<1>1. /\ loaded' = [loaded EXCEPT ![g] = 0] /\ session' = [session EXCEPT !.winner[g] = src]
      /\ UNCHANGED <<frozen, composite, ran, admitted, plan>>
  BY DEF StartPrefetch, RegisterWinner
<1>2. session \in SessionStates /\ loaded \in [Segments -> 0..TotalLayers \cup {NoTicket}]
  BY DEF EngineFits, EngineTypes
<1>3. session' \in SessionStates
  BY <1>1, <1>2 DEF SessionStates
<1>4. loaded' \in [Segments -> 0..TotalLayers \cup {NoTicket}]
  BY <1>1, <1>2, SomeLayers
<1>5. EngineTypes'
  BY <1>1, <1>3, <1>4 DEF EngineFits, EngineTypes
<1>6. SameRows
  BY <1>1, <1>2 DEF SameRows, SessionStates
<1>7. AdmissionsFit'
  BY <1>1 DEF EngineFits, AdmissionsFit
<1> QED
  BY <1>1, <1>5, <1>6, <1>7, QuietKeeps

(* Another layer of a ticket arrives. *)
LEMMA ArrivalKeeps ==
    ASSUME EngineFits, NEW g \in Segments, LayerArrives(g)
    PROVE  EngineFits'
<1>1. /\ loaded' = [loaded EXCEPT ![g] = loaded[g] + 1] /\ loaded[g] < TotalLayers
      /\ loaded[g] # NoTicket
      /\ UNCHANGED <<session, frozen, composite, ran, admitted, plan>>
  BY DEF LayerArrives, Tickets
<1>2. loaded \in [Segments -> 0..TotalLayers \cup {NoTicket}]
  BY DEF EngineFits, EngineTypes
<1>3. loaded[g] \in 0..TotalLayers
  BY <1>1, <1>2
<1>4. loaded[g] + 1 \in 0..TotalLayers
  BY <1>1, <1>3, SomeLayers
<1>5. EngineTypes'
  BY <1>1, <1>2, <1>4 DEF EngineFits, EngineTypes
<1>6. AdmissionsFit' /\ SameRows
  BY <1>1 DEF EngineFits, AdmissionsFit, SameRows
<1> QED
  BY <1>1, <1>5, <1>6, QuietKeeps

(* A plan is installed before any segment has its final admission. *)
LEMMA InstallKeeps ==
    ASSUME EngineFits, NEW sched \in OfferedPlans, InstallRepairRatioPlan(sched)
    PROVE  EngineFits' /\ admitted' = admitted
<1>1. /\ plan' = sched /\ admitted.final = {}
      /\ UNCHANGED <<session, frozen, loaded, composite, ran, admitted>>
  BY DEF InstallRepairRatioPlan
<1>2. sched \in Plans /\ NonIncreasing(sched)
  BY OfferedPlansAreLegal DEF Plans, PlanLegal
<1>3. EngineTypes'
  BY <1>1, <1>2 DEF EngineFits, EngineTypes
<1>4. AdmissionsFit' /\ SameRows
  BY <1>1 DEF AdmissionsFit, SameRows
<1>5. Committed(session) = {}
  BY <1>1 DEF EngineFits, SessionFits
<1> QED
  BY <1>1, <1>3, <1>4, <1>5, QuietKeeps

(* A final admission of segments that have none leaves the others' alone.  *)
LEMMA FinalKeeps ==
    ASSUME EngineFits, NEW G \in SUBSET Segments, NEW e \in Endpoints,
           AuthorizeFinalCommit(G, e), G \cap admitted.final = {}
    PROVE  EngineFits'
<1> DEFINE endpoint == [g \in Segments |-> IF g \in G THEN e ELSE admitted.endpoint[g]]
<1>1. /\ admitted' = [admitted EXCEPT !.final = @ \cup G, !.endpoint = endpoint]
      /\ (e = "none") = (plan # NoPlan)
      /\ UNCHANGED <<session, frozen, loaded, composite, ran, plan>>
  BY DEF AuthorizeFinalCommit
<1>2. admitted \in Admissions
  BY DEF EngineFits, EngineTypes
<1>3. endpoint \in [Segments -> Endpoints]
      /\ \A g \in Segments : endpoint[g] = IF g \in G THEN e ELSE admitted.endpoint[g]
  BY <1>2 DEF Admissions
<1> HIDE DEF endpoint
<1>4. admitted' \in Admissions /\ admitted'.final = admitted.final \cup G
      /\ admitted'.endpoint = endpoint
  BY <1>1, <1>2, <1>3 DEF Admissions
<1>5. EngineTypes'
  BY <1>1, <1>4 DEF EngineFits, EngineTypes
<1>6. \A g \in admitted.final : admitted'.endpoint[g] = admitted.endpoint[g]
  BY <1>2, <1>3, <1>4 DEF Admissions
<1>7. AdmissionsFit'
  <2> SUFFICES ASSUME NEW g \in admitted'.final
               PROVE  (admitted'.endpoint[g] = "none") = (plan # NoPlan)
    BY <1>1 DEF AdmissionsFit
  <2>1. CASE g \in G
    BY <1>1, <1>3, <1>4, <2>1
  <2>2. CASE g \notin G
    BY <1>4, <1>6, <2>2 DEF EngineFits, AdmissionsFit
  <2> QED
    BY <2>1, <2>2
<1>8. SameRows
  BY <1>1 DEF SameRows
<1>9. admitted.final \subseteq admitted'.final /\ plan' = plan
  BY <1>1, <1>4
<1> QED
  BY <1>5, <1>6, <1>7, <1>8, <1>9, QuietKeeps

-----------------------------------------------------------------------------
(***************************************************************************)
(* The support of the next layer.                                          *)
(***************************************************************************)
(* What the rows of a committed segment have to be for layer l.            *)
NextRows(g, l, rows) ==
    LET planned == plan[g][l] # NoRatio
    IN  IF admitted.endpoint[g] = "r1" THEN rows = PositionsOf[g]
        ELSE IF admitted.endpoint[g] = "r0" THEN rows = {}
        ELSE IF session.boundary[g] = l
        THEN planned => Cardinality(rows) >= AdmittedCount(plan, g, l)
        ELSE IF planned THEN Cardinality(rows) = AdmittedCount(plan, g, l)
        ELSE rows = ran[session.layer] \cap PositionsOf[g]

(* Gradual support takes rows away and leaves those the next layer is      *)
(* admitted to run.                                                        *)
LEMMA ShrunkenRows ==
    ASSUME EngineFits, NEW l \in Layers, l = session.layer + 1, ~Reentry(l),
           ~session.finished, NEW g \in Committed(session)
    PROVE  /\ Shrunken(l)[g] \subseteq session.repair[g]
           /\ NextRows(g, l, Shrunken(l)[g])
<1> DEFINE R == session.repair[g]
           n == Desired(g, l)
           rows == MostDrifted(R, n)
<1>1. /\ g \in Segments /\ g \in admitted.final /\ R \in SUBSET Positions
      /\ R \in SUBSET PositionsOf[g]
      /\ session.layer \in 0..TotalLayers /\ session.boundary[g] \in 0..TotalLayers
      /\ session.boundary[g] <= l /\ session.boundary[g] # 0
  BY DEF EngineFits, EngineTypes, SessionFits, SessionStates, Committed
<1>2. SupportFits(g)
  BY DEF EngineFits
<1>3. (admitted.endpoint[g] = "none") = (plan # NoPlan)
  BY <1>1 DEF EngineFits, AdmissionsFit
<1>4. admitted.endpoint[g] \in Endpoints
  BY <1>1 DEF EngineFits, EngineTypes, Admissions
<1>5. Shrunken(l)[g] = rows
  BY DEF Shrunken
<1>6. /\ rows \subseteq R
      /\ \A k \in 0..Cardinality(R) : Cardinality(MostDrifted(R, k)) = k
      /\ MostDrifted(R, Cardinality(R)) = R
  BY <1>1, MostDriftedIs
<1>7. Cardinality(R) \in Nat
  BY <1>1, PositionsFinite
<1>8. n <= Cardinality(R) \/ n = Cardinality(R) \/ n \notin Int
  <2>1. ~(n > Cardinality(R))
    BY DEF Reentry
  <2> QED
    BY <1>7, <2>1
<1>9. CASE plan = NoPlan
  <2>1. n = Cardinality(R)
    BY <1>9 DEF Desired
  <2>2. rows = R
    BY <1>6, <2>1
  <2>3. admitted.endpoint[g] \in {"r0", "r1"}
    BY <1>3, <1>4, <1>9 DEF Endpoints
  <2> QED
    BY <1>2, <1>5, <1>6, <2>2, <2>3 DEF SupportFits, NextRows
<1>10. CASE plan # NoPlan
  <2>1. plan \in Plans /\ NonIncreasing(plan) /\ admitted.endpoint[g] = "none"
    BY <1>3, <1>10 DEF EngineFits, EngineTypes
  <2>2. CASE session.boundary[g] = l
    <3>1. n = Cardinality(R)
      BY <2>2, SomeLayers DEF Desired, Layers
    <3>2. rows = R
      BY <1>6, <3>1
    <3> QED
      BY <1>1, <1>2, <1>5, <1>6, <2>1, <2>2, <3>2, SomeLayers DEF SupportFits, NextRows, Layers
  <2>3. CASE session.boundary[g] # l /\ plan[g][l] = NoRatio
    <3>1. n = Cardinality(R)
      BY <2>3 DEF Desired
    <3>2. rows = R
      BY <1>6, <3>1
    <3>3. R = ran[session.layer] \cap PositionsOf[g]
      BY <1>2, <2>1, <2>3 DEF SupportFits
    <3> QED
      BY <1>5, <1>6, <2>1, <2>3, <3>2, <3>3 DEF NextRows
  <2>4. CASE session.boundary[g] # l /\ plan[g][l] # NoRatio
    <3>1. ~(session.boundary[g] >= l)
      BY <1>1, <2>4 DEF Layers
    <3>2. n = AdmittedCount(plan, g, l)
      BY <1>10, <2>4, <3>1 DEF Desired
    <3>3. AdmittedCount(plan, g, l) \in 0..Cardinality(PositionsOf[g])
      BY <1>1, <2>1, <2>4, AdmittedShrinks
    <3>4. n \in Nat
      <4>1. Cardinality(PositionsOf[g]) \in Nat
        BY <1>1, DisjointSegments, PositionsFinite
      <4> QED
        BY <3>2, <3>3, <4>1
    <3>5. n \in 0..Cardinality(R)
      BY <1>7, <1>8, <3>4
    <3>6. Cardinality(rows) = n
      BY <1>6, <3>5
    <3> QED
      BY <1>5, <1>6, <2>1, <2>4, <3>2, <3>6 DEF NextRows
  <2> QED
    BY <2>2, <2>3, <2>4
<1> QED
  BY <1>9, <1>10

ShrinkResult(l, s) ==
    /\ s \in SessionStates
    /\ s.layer = session.layer /\ s.active = session.active
    /\ s.boundary = session.boundary /\ s.finished = session.finished
    /\ s.staged \subseteq session.staged
    /\ \A g \in Segments :
          /\ s.repair[g] \subseteq PositionsOf[g]
          /\ g \notin Committed(session) => s.staged \cap PositionsOf[g] = PositionsOf[g]
          /\ g \in Committed(session) => /\ s.staged \cap PositionsOf[g] = s.repair[g]
                                         /\ NextRows(g, l, s.repair[g])

(* The session after gradual support. *)
LEMMA ShrinkFacts ==
    ASSUME EngineFits, NEW l \in Layers, l = session.layer + 1, ~Reentry(l), ~session.finished
    PROVE  ShrinkResult(l, ShrinkSupport(session, Shrunken(l)))
<1> DEFINE C == Committed(session)
           left == Shrunken(l)
           repair == [g \in Segments |-> IF g \in C THEN left[g] ELSE session.repair[g]]
           gone == UNION {session.repair[g] \ left[g] : g \in C}
           staged == session.staged \ gone
           s == ShrinkSupport(session, left)
<1>1. DOMAIN left = C /\ C \subseteq Segments
  BY DEF Shrunken, Committed
<1>2. \A g \in C : left[g] \subseteq session.repair[g] /\ NextRows(g, l, left[g])
  BY ShrunkenRows
<1>3. session \in SessionStates
  BY DEF EngineFits, EngineTypes
<1>4. \A g \in Segments : /\ session.repair[g] \subseteq PositionsOf[g]
                          /\ session.staged \cap PositionsOf[g] = Support(g)
  BY DEF EngineFits, SessionFits
<1>5. s = [session EXCEPT !.repair = repair, !.staged = staged]
  BY <1>1, <1>3 DEF ShrinkSupport, SessionStates
<1> HIDE DEF left
<1>6. repair \in [Segments -> SUBSET Positions]
  BY <1>1, <1>2, <1>3 DEF SessionStates
<1>7. \A g \in Segments : repair[g] = IF g \in C THEN left[g] ELSE session.repair[g]
  OBVIOUS
<1>8. staged \in SUBSET Positions /\ staged \subseteq session.staged
  BY <1>3 DEF SessionStates
<1>9. ASSUME NEW g \in C PROVE staged \cap PositionsOf[g] = left[g]
  <2>1. session.staged \cap PositionsOf[g] = session.repair[g]
    BY <1>1, <1>4 DEF Support
  <2>2. gone \cap PositionsOf[g] = session.repair[g] \ left[g]
    <3>1. \A h \in C : h # g => session.repair[h] \cap PositionsOf[g] = {}
      BY <1>1, <1>4, DisjointSegments
    <3>2. session.repair[g] \subseteq PositionsOf[g]
      BY <1>1, <1>4
    <3> QED
      BY <3>1, <3>2
  <2> QED
    BY <1>2, <2>1, <2>2
<1>10. ASSUME NEW g \in Segments, g \notin C PROVE staged \cap PositionsOf[g] = PositionsOf[g]
  <2>1. session.staged \cap PositionsOf[g] = PositionsOf[g]
    BY <1>4, <1>10 DEF Support
  <2>2. gone \cap PositionsOf[g] = {}
    BY <1>1, <1>4, <1>10, DisjointSegments
  <2> QED
    BY <2>1, <2>2
<1> HIDE DEF repair, staged
<1>11. /\ s.layer = session.layer /\ s.active = session.active /\ s.winner = session.winner
       /\ s.boundary = session.boundary /\ s.finished = session.finished
       /\ s.staged = staged /\ s.repair = repair
  BY <1>3, <1>5 DEF SessionStates
<1>12. s \in SessionStates
  BY <1>3, <1>5, <1>6, <1>8 DEF SessionStates
<1>13. \A g \in Segments : repair[g] \subseteq PositionsOf[g]
  BY <1>2, <1>4, <1>7
<1> HIDE DEF s, C
<1>14. ShrinkResult(l, s)
  BY <1>1, <1>2, <1>7, <1>8, <1>9, <1>10, <1>11, <1>12, <1>13 DEF ShrinkResult, C
<1> QED
  BY <1>14 DEF s, left

-----------------------------------------------------------------------------
(***************************************************************************)
(* Commits and layers.                                                     *)
(***************************************************************************)
(* A commit takes at least the rows its layer is admitted, and leaves      *)
(* every other segment alone.                                              *)
LEMMA CommitKeeps ==
    ASSUME EngineFits, NEW g, NEW b, NEW a, b \in Layers \/ b = a,
           CommitReadySegment(g, b, a)
    PROVE  EngineFits' /\ admitted' = admitted
<1> DEFINE n == ExpectedCount(g, b)
           rows == MostDrifted(PositionsOf[g], n)
           boundary == [session.boundary EXCEPT ![g] = a]
           repair == [session.repair EXCEPT ![g] = rows]
           staged == session.staged \ (PositionsOf[g] \ rows)
<1>1. /\ g \in admitted.final
      /\ admitted.endpoint[g] = "none" => plan[g][b] # NoRatio
      /\ a >= b /\ ReadyForLayer(g, a)
      /\ ~session.finished /\ a = session.layer + 1 /\ g \notin Committed(session)
      /\ session' = [session EXCEPT !.boundary[g] = a, !.repair[g] = rows, !.staged = staged]
      /\ UNCHANGED <<frozen, loaded, composite, ran, admitted, plan>>
  BY DEF CommitReadySegment, CanCommitReuse, CommitReuse
<1>2. /\ session \in SessionStates /\ loaded \in [Segments -> 0..TotalLayers \cup {NoTicket}]
      /\ admitted \in Admissions
      /\ \A h \in Segments : /\ session.boundary[h] <= session.layer + 1
                             /\ session.repair[h] \subseteq PositionsOf[h]
                             /\ session.staged \cap PositionsOf[h] = Support(h)
  BY DEF EngineFits, EngineTypes, SessionFits
<1>3. g \in Segments /\ session.boundary[g] = 0
  BY <1>1, <1>2 DEF Admissions, Committed
<1>4. a \in Layers /\ b \in Layers
  <2>1. loaded[g] \in 0..TotalLayers /\ loaded[g] >= a
    BY <1>1, <1>2, <1>3 DEF ReadyForLayer, Tickets
  <2>2. session.layer \in 0..TotalLayers
    BY <1>2 DEF SessionStates
  <2> QED
    BY <1>1, <2>1, <2>2, SomeLayers DEF Layers
<1>5. PositionsOf[g] \in SUBSET Positions /\ Cardinality(PositionsOf[g]) \in Nat
  BY <1>3, DisjointSegments, PositionsFinite
<1>6. /\ \A k : MostDrifted(PositionsOf[g], k) \subseteq PositionsOf[g]
      /\ \A k \in 0..Cardinality(PositionsOf[g]) : Cardinality(MostDrifted(PositionsOf[g], k)) = k
      /\ MostDrifted(PositionsOf[g], Cardinality(PositionsOf[g])) = PositionsOf[g]
      /\ MostDrifted(PositionsOf[g], 0) = {}
  BY <1>5, MostDriftedIs
<1>7. rows \subseteq PositionsOf[g]
  BY <1>6
<1>8. /\ admitted.endpoint[g] = "r1" => rows = PositionsOf[g]
      /\ admitted.endpoint[g] = "r0" => rows = {}
  BY <1>6 DEF ExpectedCount
<1>9. ASSUME admitted.endpoint[g] \notin {"r0", "r1"}, plan[g][a] # NoRatio
      PROVE  Cardinality(rows) >= AdmittedCount(plan, g, a)
  <2>1. admitted.endpoint[g] = "none"
    BY <1>2, <1>3, <1>9 DEF Admissions, Endpoints
  <2>2. plan \in Plans /\ NonIncreasing(plan)
    BY <1>1, <2>1 DEF EngineFits, EngineTypes, AdmissionsFit
  <2>3. plan[g][b] # NoRatio
    BY <1>1, <2>1
  <2>4. /\ AdmittedCount(plan, g, b) \in 0..Cardinality(PositionsOf[g])
        /\ AdmittedCount(plan, g, a) <= AdmittedCount(plan, g, b)
    BY <1>1, <1>3, <1>4, <1>9, <2>2, <2>3, AdmittedShrinks
  <2>5. n = AdmittedCount(plan, g, b)
    BY <2>1 DEF ExpectedCount
  <2>6. Cardinality(rows) = AdmittedCount(plan, g, b)
    BY <1>6, <2>4, <2>5
  <2>7. AdmittedCount(plan, g, a) \in Nat
    BY <1>3, <1>4, <1>5, <1>9, <2>2, AdmittedShrinks
  <2> QED
    BY <1>5, <2>4, <2>6, <2>7
<1> HIDE DEF n, rows
<1>10. /\ boundary \in [Segments -> 0..TotalLayers] /\ repair \in [Segments -> SUBSET Positions]
       /\ staged \in SUBSET Positions
       /\ \A h \in Segments : /\ boundary[h] = IF h = g THEN a ELSE session.boundary[h]
                              /\ repair[h] = IF h = g THEN rows ELSE session.repair[h]
  <2>1. /\ session.boundary \in [Segments -> 0..TotalLayers]
        /\ session.repair \in [Segments -> SUBSET Positions]
        /\ session.staged \in SUBSET Positions
    BY <1>2 DEF SessionStates
  <2>2. a \in 0..TotalLayers
    BY <1>4, SomeLayers DEF Layers
  <2>3. rows \in SUBSET Positions
    BY <1>5, <1>7
  <2>4. boundary \in [Segments -> 0..TotalLayers] /\ repair \in [Segments -> SUBSET Positions]
    BY <2>1, <2>2, <2>3
  <2>5. staged \in SUBSET Positions
    BY <2>1
  <2> QED
    BY <2>1, <2>4, <2>5
<1>11. \A h \in Segments :
         staged \cap PositionsOf[h] = IF h = g THEN rows ELSE session.staged \cap PositionsOf[h]
  <2>1. session.staged \cap PositionsOf[g] = PositionsOf[g]
    BY <1>1, <1>2, <1>3 DEF Support
  <2>2. \A h \in Segments : h # g => PositionsOf[h] \cap PositionsOf[g] = {}
    BY <1>3, DisjointSegments
  <2> QED
    BY <1>7, <2>1, <2>2
<1> HIDE DEF staged
<1>12. session' = [session EXCEPT !.boundary = boundary, !.repair = repair, !.staged = staged]
  BY <1>1, <1>2 DEF SessionStates
<1> HIDE DEF boundary, repair
<1>13. /\ session'.boundary = boundary /\ session'.repair = repair /\ session'.staged = staged
       /\ session'.layer = session.layer /\ session'.finished = session.finished
       /\ session' \in SessionStates
  BY <1>2, <1>10, <1>12 DEF SessionStates
<1>14. Committed(session)' = Committed(session) \cup {g}
  BY <1>3, <1>4, <1>10, <1>13, SomeLayers DEF Committed, Layers
<1>15. EngineTypes'
  BY <1>1, <1>13 DEF EngineFits, EngineTypes
<1>16. AdmissionsFit'
  BY <1>1 DEF EngineFits, AdmissionsFit
<1>17. SessionFits'
  <2>1. Committed(session)' \subseteq admitted'.final
    BY <1>1, <1>14 DEF EngineFits, SessionFits
  <2>2. ASSUME NEW h \in Segments
        PROVE  /\ session'.boundary[h] <= session'.layer + 1
               /\ session'.repair[h] \subseteq PositionsOf[h]
               /\ session'.staged \cap PositionsOf[h] = Support(h)'
    <3>1. CASE h = g
      <4>1. session.layer \in 0..TotalLayers
        BY <1>2 DEF SessionStates
      <4> QED
        BY <1>1, <1>3, <1>7, <1>10, <1>11, <1>13, <1>14, <3>1, <4>1 DEF Support
    <3>2. CASE h # g
      BY <1>2, <1>10, <1>11, <1>13, <1>14, <3>2 DEF Support
    <3> QED
      BY <3>1, <3>2
  <2> QED
    BY <2>1, <2>2 DEF SessionFits
<1>18. SupportFits(g)'
  BY <1>1, <1>3, <1>4, <1>8, <1>9, <1>10, <1>13 DEF SupportFits
<1>19. ASSUME NEW h \in Committed(session) PROVE SupportFits(h)'
  <2>1. SupportFits(h) /\ h # g /\ h \in Segments
    BY <1>1, <1>19 DEF EngineFits, Committed
  <2>2. session'.repair[h] = session.repair[h] /\ session'.boundary[h] = session.boundary[h]
    BY <1>10, <1>13, <2>1
  <2> QED
    BY <1>1, <1>13, <2>1, <2>2 DEF SupportFits
<1>20. session'.boundary[g]..session'.layer = {}
  <2>1. session.layer \in 0..TotalLayers
    BY <1>2 DEF SessionStates
  <2> QED
    BY <1>1, <1>3, <1>10, <1>13, <2>1, SomeLayers
<1>21. \A h \in Committed(session) :
         h \in Segments /\ h # g /\ session'.boundary[h] = session.boundary[h]
  BY <1>1, <1>10, <1>13 DEF Committed
<1>22. RunsAsAdmitted'
  <2>1. RunsAsAdmitted
    BY <1>1 DEF EngineFits
  <2> QED
    <3> SUFFICES ASSUME NEW h \in Committed(session)', NEW l \in session'.boundary[h]..session'.layer
                 PROVE  CASE admitted.endpoint[h] = "r1" -> RowsRun(h, l) = Cardinality(PositionsOf[h])
                          [] admitted.endpoint[h] = "r0" -> RowsRun(h, l) = 0
                          [] OTHER -> RunsAsPlanned(h, l)'
      BY <1>1 DEF RunsAsAdmitted, RowsRun
    <3>1. h \in Committed(session) /\ h \in Segments /\ session'.boundary[h] = session.boundary[h]
      BY <1>14, <1>20, <1>21
    <3>2. RunsAsPlanned(h, l)' = RunsAsPlanned(h, l)
      BY <1>1, <3>1 DEF RunsAsPlanned, RowsRun
    <3> QED
      BY <1>1, <1>13, <2>1, <3>1, <3>2 DEF RunsAsAdmitted
<1>23. InstalledWhileAdvancing'
  <2>1. InstalledWhileAdvancing
    BY <1>1 DEF EngineFits
  <2> QED
    BY <1>1, <1>13, <1>14, <1>20, <1>21, <2>1 DEF InstalledWhileAdvancing
<1> QED
  BY <1>1, <1>14, <1>15, <1>16, <1>17, <1>18, <1>19, <1>22, <1>23 DEF EngineFits

(* A layer runs the rows its segments are admitted to run, with the Source *)
(* rows of all of them in the buffer.                                      *)
LEMMA AdvanceKeeps ==
    ASSUME EngineFits, AdvanceOneLayer
    PROVE  EngineFits' /\ admitted' = admitted /\ session'.active \subseteq session.active
<1> SUFFICES ASSUME NEW l, l = session.layer + 1
             PROVE  EngineFits' /\ admitted' = admitted /\ session'.active \subseteq session.active
  OBVIOUS
<1> DEFINE s == ShrinkSupport(session, Shrunken(l))
<1>1. session \in SessionStates /\ ran \in [Layers -> SUBSET Positions]
      /\ composite \in [Layers -> SUBSET Segments]
  BY DEF EngineFits, EngineTypes
<1>2. /\ ~session.finished /\ session.layer < TotalLayers /\ session.staged \subseteq session.active
      /\ ~Reentry(l) /\ AllReady(l)
      /\ session' = RunLayer(s)
      /\ ran' = [ran EXCEPT ![l] = session'.active]
      /\ composite' = [composite EXCEPT ![l] = {g \in Committed(session) : ReadyForLayer(g, l)}]
      /\ UNCHANGED <<frozen, loaded, admitted, plan>>
  BY DEF AdvanceOneLayer, CanRunLayer
<1>3. session.layer \in 0..TotalLayers /\ l \in Layers
  BY <1>1, <1>2, SomeLayers DEF SessionStates, Layers
<1>4. ShrinkResult(l, s)
  BY <1>2, <1>3, ShrinkFacts
<1> HIDE DEF s
<1>5. s \in SessionStates
  BY <1>4 DEF ShrinkResult
<1>6. /\ session'.layer = s.layer + 1 /\ session'.active = s.staged
      /\ session'.staged = s.staged /\ session'.boundary = s.boundary
      /\ session'.repair = s.repair /\ session'.finished = s.finished
      /\ session'.winner = s.winner
      /\ session' = [s EXCEPT !.layer = s.layer + 1, !.active = s.staged]
  BY <1>2, <1>5 DEF RunLayer, SessionStates
<1>7. session'.layer = l /\ session'.boundary = session.boundary /\ ~session'.finished
  BY <1>2, <1>4, <1>6 DEF ShrinkResult
<1>8. session' \in SessionStates
  <2>1. s.layer + 1 \in 0..TotalLayers
    BY <1>6, <1>7, <1>3, SomeLayers DEF Layers
  <2> QED
    BY <1>5, <1>6, <2>1 DEF SessionStates
<1>9. Committed(session)' = Committed(session) /\ Committed(session) \subseteq Segments
  BY <1>7 DEF Committed
<1>10. /\ ran' = [ran EXCEPT ![l] = s.staged] /\ ran'[l] = s.staged
       /\ \A k \in Layers : k # l => ran'[k] = ran[k]
       /\ ran' \in [Layers -> SUBSET Positions]
  BY <1>1, <1>2, <1>3, <1>5, <1>6 DEF SessionStates
<1>11. /\ composite' \in [Layers -> SUBSET Segments]
       /\ composite'[l] = Committed(session)
       /\ \A k \in Layers : k # l => composite'[k] = composite[k]
  <2>1. {g \in Committed(session) : ReadyForLayer(g, l)} = Committed(session)
    BY <1>2 DEF AllReady
  <2> QED
    BY <1>1, <1>2, <1>3, <1>9, <2>1
<1>12. EngineTypes'
  BY <1>2, <1>8, <1>10, <1>11 DEF EngineFits, EngineTypes
<1>13. AdmissionsFit'
  BY <1>2 DEF EngineFits, AdmissionsFit
<1>14. SessionFits'
  <2>1. Committed(session)' \subseteq admitted'.final
    BY <1>2, <1>9 DEF EngineFits, SessionFits
  <2>2. ASSUME NEW g \in Segments
        PROVE  /\ session'.boundary[g] <= session'.layer + 1
               /\ session'.repair[g] \subseteq PositionsOf[g]
               /\ session'.staged \cap PositionsOf[g] = Support(g)'
    <3>1. session.boundary[g] <= l /\ session.boundary[g] \in 0..TotalLayers
      BY <1>1 DEF EngineFits, SessionFits, SessionStates
    <3>2. session'.boundary[g] <= session'.layer + 1
      BY <1>3, <1>7, <3>1
    <3> QED
      BY <1>4, <1>6, <1>9, <3>2 DEF ShrinkResult, Support
  <2> QED
    BY <2>1, <2>2 DEF SessionFits
<1>15. ASSUME NEW g \in Committed(session)
       PROVE  /\ g \in Segments /\ ran'[l] \cap PositionsOf[g] = s.repair[g]
              /\ NextRows(g, l, s.repair[g])
              /\ session.boundary[g] \in 1..l
  <2>1. session.boundary[g] <= l /\ session.boundary[g] \in 0..TotalLayers /\ session.boundary[g] # 0
    BY <1>1 DEF EngineFits, SessionFits, SessionStates, Committed
  <2> QED
    BY <1>3, <1>4, <1>9, <1>10, <2>1, SomeLayers DEF ShrinkResult
<1>16. ASSUME NEW g \in Committed(session) PROVE SupportFits(g)'
  BY <1>2, <1>3, <1>6, <1>7, <1>15 DEF SupportFits, NextRows
<1>17. InstalledWhileAdvancing'
  <2>1. InstalledWhileAdvancing
    BY <1>2 DEF EngineFits
  <2> SUFFICES ASSUME NEW g \in Committed(session), NEW k \in session.boundary[g]..l
               PROVE  g \in composite'[k]
    BY <1>7, <1>9 DEF InstalledWhileAdvancing
  <2>2. k \in Layers /\ (k = l \/ k \in session.boundary[g]..session.layer)
    BY <1>3, <1>15, SomeLayers DEF Layers
  <2> QED
    BY <1>2, <1>11, <2>1, <2>2 DEF InstalledWhileAdvancing
<1>18. RunsAsAdmitted'
  <2>1. RunsAsAdmitted
    BY <1>2 DEF EngineFits
  <2> SUFFICES ASSUME NEW g \in Committed(session), NEW k \in session.boundary[g]..l
               PROVE  CASE admitted.endpoint[g] = "r1" -> RowsRun(g, k)' = Cardinality(PositionsOf[g])
                        [] admitted.endpoint[g] = "r0" -> RowsRun(g, k)' = 0
                        [] OTHER -> RunsAsPlanned(g, k)'
    BY <1>2, <1>7, <1>9 DEF RunsAsAdmitted
  <2>2. g \in Segments /\ session.boundary[g] \in 1..l /\ k \in Layers /\ l \in Nat
    BY <1>3, <1>15, SomeLayers DEF Layers
  <2>3. CASE k = l
    <3>1. RowsRun(g, l)' = Cardinality(s.repair[g])
      BY <1>15 DEF RowsRun
    <3>2. CASE admitted.endpoint[g] = "r1"
      BY <1>15, <2>3, <3>1, <3>2 DEF NextRows
    <3>3. CASE admitted.endpoint[g] = "r0"
      BY <1>15, <2>3, <3>1, <3>3, FS_EmptySet DEF NextRows
    <3>4. CASE admitted.endpoint[g] \notin {"r0", "r1"}
      <4>1. CASE session.boundary[g] = l
        <5>1. plan[g][l] # NoRatio => Cardinality(s.repair[g]) >= AdmittedCount(plan, g, l)
          BY <1>15, <3>4, <4>1 DEF NextRows
        <5>2. RunsAsPlanned(g, l)'
          BY <1>2, <1>7, <2>2, <3>1, <4>1, <5>1 DEF RunsAsPlanned
        <5> QED
          BY <2>3, <3>4, <5>2
      <4>2. CASE session.boundary[g] # l
        <5>1. IF plan[g][l] # NoRatio
              THEN Cardinality(s.repair[g]) = AdmittedCount(plan, g, l)
              ELSE s.repair[g] = ran[session.layer] \cap PositionsOf[g]
          BY <1>15, <3>4, <4>2 DEF NextRows
        <5>2. l - 1 = session.layer /\ session.layer \in Layers
          BY <1>3, <2>2, <4>2, SomeLayers DEF Layers
        <5>3. RowsRun(g, l - 1)' = RowsRun(g, session.layer)
          <6>1. session.layer # l
            BY <1>3
          <6>2. ran'[session.layer] = ran[session.layer]
            BY <1>10, <5>2, <6>1
          <6>3. ran'[l - 1] = ran[session.layer]
            BY <5>2, <6>2
          <6> QED
            BY <6>3 DEF RowsRun
        <5>4. Cardinality(s.repair[g]) \in Nat
          <6>1. s.repair[g] \in SUBSET Positions
            BY <1>5, <2>2 DEF SessionStates
          <6> QED
            BY <6>1, PositionsFinite
        <5>5. plan[g][l] = NoRatio => RowsRun(g, l)' = RowsRun(g, l - 1)'
          BY <3>1, <5>1, <5>3 DEF RowsRun
        <5>6. plan[g][l] # NoRatio => /\ RowsRun(g, l)' = AdmittedCount(plan, g, l)
                                      /\ AdmittedCount(plan, g, l) \in Nat
          BY <3>1, <5>1, <5>4
        <5>7. RunsAsPlanned(g, l)'
          <6>1. AdmittedCount(plan, g, l)' = AdmittedCount(plan, g, l) /\ plan' = plan
            BY <1>2
          <6> QED
            BY <5>5, <5>6, <6>1 DEF RunsAsPlanned
        <5> QED
          BY <2>3, <3>4, <5>7
      <4> QED
        BY <4>1, <4>2
    <3> QED
      BY <3>2, <3>3, <3>4
  <2>4. CASE k # l
    <3>1. k \in session.boundary[g]..session.layer
      BY <1>3, <1>15, <2>4
    <3>2. RowsRun(g, k)' = RowsRun(g, k)
      BY <1>10, <2>2, <2>4 DEF RowsRun
    <3>3. k > session.boundary[g] => RowsRun(g, k - 1)' = RowsRun(g, k - 1)
      <4> HAVE k > session.boundary[g]
      <4>1. k - 1 \in Layers /\ k - 1 # l
        BY <1>3, <1>15, <2>2, <3>1, SomeLayers DEF Layers
      <4> QED
        BY <1>10, <4>1 DEF RowsRun
    <3>4. RunsAsPlanned(g, k)' = RunsAsPlanned(g, k)
      BY <1>2, <1>7, <3>2, <3>3 DEF RunsAsPlanned
    <3>5. (CASE admitted.endpoint[g] = "r1" -> RowsRun(g, k) = Cardinality(PositionsOf[g])
             [] admitted.endpoint[g] = "r0" -> RowsRun(g, k) = 0
             [] OTHER -> RunsAsPlanned(g, k))
      BY <1>2, <2>1, <3>1 DEF RunsAsAdmitted
    <3> QED
      BY <3>2, <3>4, <3>5
  <2> QED
    BY <2>3, <2>4
<1>19. session'.active \subseteq session.active
  BY <1>2, <1>4, <1>6 DEF ShrinkResult
<1> QED
  BY <1>2, <1>9, <1>12, <1>13, <1>14, <1>16, <1>17, <1>18, <1>19 DEF EngineFits

(* A call that finds a layer missing has shrunk the support already, and   *)
(* leaves what the next call needs.                                        *)
LEMMA NotReadyKeeps ==
    ASSUME EngineFits, AdvanceNotReady
    PROVE  EngineFits' /\ admitted' = admitted /\ session'.active = session.active
<1> SUFFICES ASSUME NEW l, l = session.layer + 1
             PROVE  EngineFits' /\ admitted' = admitted /\ session'.active = session.active
  OBVIOUS
<1> DEFINE s == ShrinkSupport(session, Shrunken(l))
<1>1. session \in SessionStates /\ composite \in [Layers -> SUBSET Segments]
  BY DEF EngineFits, EngineTypes
<1>2. /\ ~session.finished /\ session.layer < TotalLayers /\ ~Reentry(l)
      /\ session' = s
      /\ UNCHANGED <<frozen, loaded, ran, admitted, plan>>
  BY DEF AdvanceNotReady, CanRunLayer
<1>3. session.layer \in 0..TotalLayers /\ l \in Layers
  BY <1>1, <1>2, SomeLayers DEF SessionStates, Layers
<1>4. ShrinkResult(l, s)
  BY <1>2, <1>3, ShrinkFacts
<1>5. PICK G \in SUBSET Committed(session) : composite' = [composite EXCEPT ![l] = @ \cup G]
  BY DEF AdvanceNotReady
<1> HIDE DEF s
<1>6. Committed(session)' = Committed(session) /\ Committed(session) \subseteq Segments
  BY <1>2, <1>4 DEF Committed, ShrinkResult
<1>7. composite' \in [Layers -> SUBSET Segments]
      /\ \A k \in Layers : composite[k] \subseteq composite'[k]
  BY <1>1, <1>3, <1>5, <1>6
<1>8. EngineTypes'
  BY <1>2, <1>4, <1>7 DEF EngineFits, EngineTypes, ShrinkResult
<1>9. AdmissionsFit'
  BY <1>2 DEF EngineFits, AdmissionsFit
<1>10. /\ session'.layer = session.layer /\ session'.boundary = session.boundary
       /\ session'.finished = session.finished /\ session'.active = session.active
  BY <1>2, <1>4 DEF ShrinkResult
<1>11. SessionFits'
  BY <1>2, <1>4, <1>6, <1>10 DEF EngineFits, SessionFits, Support, ShrinkResult
<1>12. ASSUME NEW g \in Committed(session) PROVE SupportFits(g)'
  <2>1. NextRows(g, l, session'.repair[g])
    BY <1>2, <1>4, <1>6 DEF ShrinkResult
  <2> QED
    BY <1>2, <1>3, <1>10, <2>1 DEF SupportFits, NextRows
<1>13. RunsAsAdmitted'
  <2>1. RunsAsAdmitted
    BY <1>2 DEF EngineFits
  <2> SUFFICES ASSUME NEW g \in Committed(session), NEW k \in session.boundary[g]..session.layer
               PROVE  CASE admitted.endpoint[g] = "r1" -> RowsRun(g, k)' = Cardinality(PositionsOf[g])
                        [] admitted.endpoint[g] = "r0" -> RowsRun(g, k)' = 0
                        [] OTHER -> RunsAsPlanned(g, k)'
    BY <1>2, <1>6, <1>10 DEF RunsAsAdmitted
  <2>2. RowsRun(g, k)' = RowsRun(g, k)
    BY <1>2 DEF RowsRun
  <2>3. RunsAsPlanned(g, k)' = RunsAsPlanned(g, k)
    BY <1>2, <1>10 DEF RunsAsPlanned, RowsRun
  <2> QED
    BY <1>2, <2>1, <2>2, <2>3 DEF RunsAsAdmitted
<1>14. InstalledWhileAdvancing'
  <2> SUFFICES ASSUME NEW g \in Committed(session), NEW k \in session.boundary[g]..session.layer
               PROVE  g \in composite'[k]
    BY <1>6, <1>10 DEF InstalledWhileAdvancing
  <2>1. session.boundary[g] \in 1..TotalLayers
    BY <1>1, SomeLayers DEF SessionStates, Committed
  <2>2. k \in Layers
    BY <1>3, <2>1, SomeLayers DEF Layers
  <2>3. g \in composite[k]
    BY <1>2 DEF EngineFits, InstalledWhileAdvancing
  <2> QED
    BY <1>7, <2>2, <2>3
<1> QED
  BY <1>2, <1>6, <1>8, <1>9, <1>10, <1>11, <1>12, <1>13, <1>14 DEF EngineFits

(* finish_prefill leaves the target of the last layer as it is. *)
LEMMA FinishKeeps ==
    ASSUME EngineFits, FinishPrefill
    PROVE  EngineFits' /\ admitted' = admitted /\ session'.active \subseteq session.active
<1> DEFINE s == [session EXCEPT !.layer = TotalLayers, !.active = @ \cap session.staged]
           rows == [l \in Layers |-> IF l > session.layer THEN session.staged ELSE ran[l]]
<1>1. session \in SessionStates /\ ran \in [Layers -> SUBSET Positions]
  BY DEF EngineFits, EngineTypes
<1>2. /\ session' = FinishSession(s) /\ ran' = rows
      /\ UNCHANGED <<frozen, loaded, composite, admitted, plan>>
  BY DEF FinishPrefill
<1>3. /\ s.layer = TotalLayers /\ s.active = session.active \cap session.staged
      /\ s.staged = session.staged /\ s.boundary = session.boundary
      /\ s.repair = session.repair /\ s \in SessionStates
  <2> DEFINE active == session.active \cap session.staged
  <2>1. active \in SUBSET Positions /\ TotalLayers \in 0..TotalLayers
    BY <1>1, SomeLayers DEF SessionStates
  <2>2. s = [session EXCEPT !.layer = TotalLayers, !.active = active]
    OBVIOUS
  <2> HIDE DEF active, s
  <2>3. /\ s.layer = TotalLayers /\ s.active = active
        /\ s.staged = session.staged /\ s.boundary = session.boundary
        /\ s.repair = session.repair /\ s \in SessionStates
    BY <1>1, <2>1, <2>2 DEF SessionStates
  <2> QED
    BY <2>3 DEF active
<1> HIDE DEF s
<1>4. /\ session'.layer = TotalLayers /\ session'.active = session.active \cap session.staged
      /\ session'.staged = session.staged /\ session'.boundary = session.boundary
      /\ session'.repair = session.repair /\ session'.finished
      /\ session' \in SessionStates
  BY <1>2, <1>3 DEF FinishSession, SessionStates
<1>5. rows \in [Layers -> SUBSET Positions]
  BY <1>1 DEF SessionStates
<1>6. EngineTypes'
  BY <1>2, <1>4, <1>5 DEF EngineFits, EngineTypes
<1>7. Committed(session)' = Committed(session)
  BY <1>4 DEF Committed
<1>8. AdmissionsFit'
  BY <1>2 DEF EngineFits, AdmissionsFit
<1>9. SessionFits'
  <2>1. \A g \in Segments : session.boundary[g] <= TotalLayers + 1
    BY <1>1, SomeLayers DEF SessionStates
  <2> QED
    BY <1>2, <1>4, <1>7, <2>1 DEF EngineFits, SessionFits, Support
<1> QED
  BY <1>2, <1>4, <1>6, <1>8, <1>9 DEF EngineFits

-----------------------------------------------------------------------------
(***************************************************************************)
(* Every run.                                                              *)
(***************************************************************************)
(* Nothing is committed in the beginning. *)
LEMMA EngineStarts == ASSUME EngineInit PROVE EngineFits /\ admitted.final = {}
<1>1. /\ session = BeginPrefill
      /\ frozen = [g \in Segments |-> NoSource]
      /\ loaded = [g \in Segments |-> NoTicket]
      /\ composite = [l \in Layers |-> {}] /\ ran = [l \in Layers |-> {}]
      /\ admitted = [prepared |-> {}, detached |-> {}, final |-> {},
                     endpoint |-> [g \in Segments |-> "none"]]
      /\ plan = NoPlan
  BY DEF EngineInit
<1>2. session \in SessionStates /\ session.layer = 0
      /\ \A g \in Segments : session.boundary[g] = 0 /\ session.repair[g] = {}
      /\ session.staged = Positions
  BY <1>1, SomeLayers DEF BeginPrefill, SessionStates
<1>3. admitted \in Admissions /\ admitted.final = {}
  BY <1>1 DEF Admissions, Endpoints
<1>4. EngineTypes
  BY <1>1, <1>2, <1>3 DEF EngineTypes
<1>5. Committed(session) = {}
  BY <1>2 DEF Committed
<1>6. SessionFits
  <2>1. \A g \in Segments : PositionsOf[g] \subseteq Positions
    BY DisjointSegments
  <2> QED
    BY <1>2, <1>5, <2>1 DEF SessionFits, Support
<1> QED
  BY <1>3, <1>4, <1>5, <1>6 DEF EngineFits, AdmissionsFit, RunsAsAdmitted, InstalledWhileAdvancing

(* The part of a step of the engine that the rows depend on. *)
LEMMA RestKeeps ==
    ASSUME EngineFits,
           \/ \E g \in Segments : AuthorizeTransfer(g)
           \/ \E g \in Segments, src \in Sources : PrefetchRefused(g, src)
           \/ ConfigureBarrier
    PROVE  EngineFits' /\ admitted' = admitted /\ session' = session
<1>1. UNCHANGED <<session, frozen, loaded, composite, ran, admitted, plan>>
  BY DEF AuthorizeTransfer, PrefetchRefused, ConfigureBarrier
<1> QED
  BY <1>1, StillKeeps

Narrows == session'.active \subseteq session.active

(* Legal calls in any order keep everything. *)
LEMMA AnyCallKeeps ==
    ASSUME EngineFits, AnyCall(OfferedPlans)
    PROVE  EngineFits' /\ Narrows
<1>1. CASE \/ \E g \in Segments : AuthorizeTransfer(g)
           \/ \E g \in Segments, src \in Sources : PrefetchRefused(g, src)
           \/ ConfigureBarrier
  BY <1>1, RestKeeps DEF Narrows
<1>2. CASE \E g \in Segments : FreezeSource(g, WinnerOf[g])
  <2>1. PICK g \in Segments : FreezeSource(g, WinnerOf[g])
    BY <1>2
  <2>2. WinnerOf[g] \in Sources
    BY WinnersAreSources
  <2> QED
    BY <2>1, <2>2, FreezeKeeps DEF FreezeSource, Narrows
<1>3. CASE \E g \in Segments, src \in Sources : StartPrefetch(g, src)
  <2>1. PICK g \in Segments, src \in Sources : StartPrefetch(g, src)
    BY <1>3
  <2>2. session \in SessionStates /\ session' = [session EXCEPT !.winner[g] = src]
    BY <2>1 DEF EngineFits, EngineTypes, StartPrefetch, RegisterWinner
  <2>3. Narrows
    BY <2>2 DEF Narrows, SessionStates
  <2> QED
    BY <2>1, <2>3, PrefetchKeeps
<1>4. CASE \E G \in (SUBSET Segments) \ {{}} : AdmitDetachedPreparation(G) \/ AdmitPreparation(G)
  <2>1. PICK G \in SUBSET Segments : AdmitDetachedPreparation(G) \/ AdmitPreparation(G)
    BY <1>4
  <2>2. Narrows
    BY <2>1 DEF Narrows, AdmitDetachedPreparation, AdmitPreparation
  <2> QED
    BY <2>1, <2>2, PreparationKeeps
<1>5. CASE \E G \in (SUBSET Segments) \ {{}} :
             G \cap admitted.final = {} /\ \E e \in Endpoints : AuthorizeFinalCommit(G, e)
  <2>1. PICK G \in SUBSET Segments, e \in Endpoints :
               G \cap admitted.final = {} /\ AuthorizeFinalCommit(G, e)
    BY <1>5
  <2>2. Narrows
    BY <2>1 DEF Narrows, AuthorizeFinalCommit
  <2> QED
    BY <2>1, <2>2, FinalKeeps
<1>6. CASE \E sched \in OfferedPlans : InstallRepairRatioPlan(sched)
  <2>1. Narrows
    BY <1>6 DEF Narrows, InstallRepairRatioPlan
  <2> QED
    BY <1>6, <2>1, InstallKeeps
<1>7. CASE \E g \in Segments, b, a \in Layers : CommitReadySegment(g, b, a)
  <2>1. PICK g \in Segments, b \in Layers, a \in Layers : CommitReadySegment(g, b, a)
    BY <1>7
  <2>2. session'.active = session.active
    <3>1. session \in SessionStates
      BY DEF EngineFits, EngineTypes
    <3> QED
      BY <2>1, <3>1 DEF CommitReadySegment, CommitReuse, SessionStates
  <2> QED
    BY <2>1, <2>2, CommitKeeps DEF Narrows
<1>8. CASE AdvanceOneLayer
  BY <1>8, AdvanceKeeps DEF Narrows
<1>9. CASE AdvanceNotReady
  BY <1>9, NotReadyKeeps DEF Narrows
<1>10. CASE FinishPrefill
  BY <1>10, FinishKeeps DEF Narrows
<1> QED
  BY <1>1, <1>2, <1>3, <1>4, <1>5, <1>6, <1>7, <1>8, <1>9, <1>10 DEF AnyCall

(* The executor goes through its segments in order. *)
LEMMA ForemostIn ==
    ASSUME NEW G \in SUBSET Segments, G # {}
    PROVE  Foremost(G) \in G
<1> DEFINE D == {Order[g] : g \in G}
<1>1. D \subseteq Nat /\ D # {}
  BY SegmentsInOrder
<1>2. PICK d \in D : \A e \in D : d <= e
  <2> HIDE DEF D
  <2> QED
    BY <1>1, LeastNumber
<1>3. \E g \in G : \A h \in G : Order[g] <= Order[h]
  BY <1>2
<1> QED
  BY <1>3, Zenon DEF Foremost

EarlySteps == {"probe", "admit", "authorize", "prefetch", "wait", "plan", "final"}

(* Each step of the executor keeps everything; it takes the admissions of  *)
(* its segments once.                                                      *)
LEMMA ExecutorStepKeeps ==
    ASSUME ExecutorFits, ExecutorStep \/ Raise, caller = "executor"
    PROVE  EngineFits' /\ Narrows /\ caller' = caller
           /\ (pc' \in EarlySteps => admitted'.final = {})
<1>1. EngineFits /\ (pc \in EarlySteps => admitted.final = {})
  BY DEF ExecutorFits, EarlySteps
<1>2. session \in SessionStates
  BY <1>1 DEF EngineFits, EngineTypes
<1>3. CASE Probe
  <2>1. AdvanceOneLayer /\ pc = "probe" /\ caller' = caller
    BY <1>3 DEF Probe, Goto, kept
  <2> QED
    BY <1>1, <2>1, AdvanceKeeps DEF Narrows, EarlySteps
<1>4. CASE FreezeNext
  <2> DEFINE g == Foremost(Segments \ FrozenSegments)
  <2>1. g \in Segments
    <3>1. Segments \ FrozenSegments # {}
      BY <1>4 DEF FreezeNext, FrozenSegments
    <3> QED
      BY <3>1, ForemostIn
  <2>2. FreezeSource(g, WinnerOf[g]) /\ pc = "probe" /\ caller' = caller
    BY <1>4 DEF FreezeNext, Goto, kept
  <2>3. WinnerOf[g] \in Sources
    BY <2>1, WinnersAreSources
  <2>4. EngineFits'
    BY <1>1, <2>2, <2>3, FreezeKeeps
  <2>5. session' = session /\ admitted' = admitted
    BY <2>2 DEF FreezeSource
  <2> QED
    BY <1>1, <2>2, <2>4, <2>5 DEF Narrows, EarlySteps
<1>5. CASE CloseBarrier
  BY <1>1, <1>5, RestKeeps DEF CloseBarrier, Goto, kept, Narrows, EarlySteps
<1>6. CASE Admit
  <2>1. AdmitPreparation(Segments) /\ pc = "admit" /\ caller' = caller
    BY <1>6 DEF Admit, Goto, kept
  <2>2. EngineFits' /\ admitted'.final = admitted.final
    BY <1>1, <2>1, PreparationKeeps
  <2>3. session' = session
    BY <2>1 DEF AdmitPreparation
  <2> QED
    BY <1>1, <2>1, <2>2, <2>3 DEF Narrows, EarlySteps
<1>7. CASE AuthorizeNext
  <2>1. /\ UNCHANGED <<session, frozen, loaded, composite, ran, admitted, plan>>
        /\ pc = "authorize" /\ caller' = caller
    BY <1>7 DEF AuthorizeNext, AuthorizeTransfer, Goto, kept
  <2> QED
    BY <1>1, <2>1, StillKeeps DEF Narrows, EarlySteps
<1>8. CASE PrefetchNext
  <2> DEFINE g == Foremost(Segments \ Tickets)
  <2>1. StartPrefetch(g, frozen[g]) /\ pc = "prefetch" /\ caller' = caller
    BY <1>8 DEF PrefetchNext, Goto, kept
  <2> HIDE DEF g
  <2>2. g \in Segments
    BY <1>1, <2>1 DEF StartPrefetch, EngineFits, EngineTypes, Admissions
  <2>3. frozen[g] \in Sources \cup {NoSource}
    BY <1>1, <2>2 DEF EngineFits, EngineTypes
  <2>4. EngineFits'
    BY <1>1, <2>1, <2>2, <2>3, PrefetchKeeps
  <2>5. session'.active = session.active /\ admitted' = admitted
    BY <1>2, <2>1 DEF StartPrefetch, RegisterWinner, SessionStates
  <2> QED
    BY <1>1, <2>1, <2>4, <2>5 DEF Narrows, EarlySteps
<1>9. CASE WinnersArrived
  <2>1. /\ UNCHANGED <<session, frozen, loaded, composite, ran, admitted, plan>>
        /\ pc = "wait" /\ caller' = caller
    BY <1>9 DEF WinnersArrived
  <2> QED
    BY <1>1, <2>1, StillKeeps DEF Narrows, EarlySteps
<1>10. CASE AdmitEndpoint
  <2>1. PICK e \in {"r0", "r1"} : AuthorizeFinalCommit(Segments, e)
    BY <1>10 DEF AdmitEndpoint
  <2>2. pc = "plan" /\ pc' = "commit" /\ caller' = caller
    BY <1>10 DEF AdmitEndpoint, Goto, kept
  <2>3. Segments \cap admitted.final = {}
    BY <1>1, <2>2 DEF EarlySteps
  <2>4. EngineFits'
    BY <1>1, <2>1, <2>3, FinalKeeps DEF Endpoints
  <2>5. session' = session
    BY <2>1 DEF AuthorizeFinalCommit
  <2> QED
    BY <2>2, <2>4, <2>5 DEF Narrows, EarlySteps
<1>11. CASE InstallPlan
  <2>1. PICK sched \in OfferedPlans : InstallRepairRatioPlan(sched)
    BY <1>11 DEF InstallPlan
  <2>2. pc = "plan" /\ caller' = caller
    BY <1>11 DEF InstallPlan, Goto, kept
  <2>3. EngineFits' /\ admitted' = admitted
    BY <1>1, <2>1, InstallKeeps
  <2>4. session' = session
    BY <2>1 DEF InstallRepairRatioPlan
  <2> QED
    BY <1>1, <2>2, <2>3, <2>4 DEF Narrows, EarlySteps
<1>12. CASE AdmitMeasured
  <2>1. AuthorizeFinalCommit(Segments, "none") /\ pc = "final" /\ pc' = "commit" /\ caller' = caller
    BY <1>12 DEF AdmitMeasured, Goto, kept
  <2>2. Segments \cap admitted.final = {} /\ "none" \in Endpoints
    BY <1>1, <2>1 DEF EarlySteps, Endpoints
  <2>3. EngineFits'
    BY <1>1, <2>1, <2>2, FinalKeeps
  <2>4. session' = session
    BY <2>1 DEF AuthorizeFinalCommit
  <2> QED
    BY <2>1, <2>3, <2>4 DEF Narrows, EarlySteps
<1>13. CASE CommitNext
  <2>1. pc' = "commit" /\ caller' = caller
    BY <1>13 DEF CommitNext, Goto, kept
  <2>2. CASE AdvanceOneLayer
    BY <1>1, <2>1, <2>2, AdvanceKeeps DEF Narrows, EarlySteps
  <2>3. CASE CommitReadySegment(Foremost(Due), NextBoundary, NextBoundary)
    <3>1. EngineFits'
      BY <1>1, <2>3, CommitKeeps
    <3>2. session'.active = session.active
      BY <1>2, <2>3 DEF CommitReadySegment, CommitReuse, SessionStates
    <3> QED
      BY <2>1, <3>1, <3>2 DEF Narrows, EarlySteps
  <2> QED
    BY <1>13, <2>2, <2>3 DEF CommitNext
<1>14. CASE RunLastBoundary
  BY <1>1, <1>14, AdvanceKeeps DEF RunLastBoundary, Goto, kept, Narrows, EarlySteps
<1>15. CASE Finish
  BY <1>1, <1>15, FinishKeeps DEF Finish, Goto, kept, Narrows, EarlySteps
<1>16. CASE Decode
  <2>1. /\ UNCHANGED <<session, frozen, loaded, composite, ran, admitted, plan>>
        /\ pc' = "done" /\ caller' = caller
    BY <1>16 DEF Decode, Goto, kept
  <2> QED
    BY <1>1, <2>1, StillKeeps DEF Narrows, EarlySteps
<1>17. CASE Refused \/ Raise
  <2>1. /\ UNCHANGED <<session, frozen, loaded, composite, ran, admitted, plan>>
        /\ pc' = "failed" /\ caller' = caller
    BY <1>17 DEF Refused, Raise, evars, Goto, kept
  <2> QED
    BY <1>1, <2>1, StillKeeps DEF Narrows, EarlySteps
<1> QED
  BY <1>3, <1>4, <1>5, <1>6, <1>7, <1>8, <1>9, <1>10, <1>11, <1>12, <1>13, <1>14, <1>15,
     <1>16, <1>17 DEF ExecutorStep

(* So does every step of the specification. *)
LEMMA ExecutorKept ==
    ASSUME ExecutorFits, [Next]_xvars
    PROVE  ExecutorFits' /\ Narrows
<1>1. EngineFits /\ (caller = "executor" /\ pc \in EarlySteps => admitted.final = {})
  BY DEF ExecutorFits, EarlySteps
<1>2. CASE caller = "executor" /\ (ExecutorStep \/ Raise)
  BY <1>2, ExecutorStepKeeps DEF ExecutorFits, EarlySteps
<1>3. CASE caller = "any" /\ AnyCall(OfferedPlans) /\ UNCHANGED <<pc, kept>>
  <2>1. EngineFits' /\ Narrows
    BY <1>1, <1>3, AnyCallKeeps
  <2> QED
    BY <1>3, <2>1 DEF ExecutorFits, kept
<1>4. CASE CopyStream /\ UNCHANGED <<pc, kept>>
  <2>1. PICK g \in Segments : LayerArrives(g)
    BY <1>4 DEF CopyStream
  <2>2. EngineFits'
    BY <1>1, <2>1, ArrivalKeeps
  <2>3. session' = session /\ admitted' = admitted
    BY <2>1 DEF LayerArrives
  <2> QED
    BY <1>1, <1>4, <2>2, <2>3 DEF ExecutorFits, EarlySteps, kept, Narrows
<1>5. CASE UNCHANGED xvars
  <2>1. UNCHANGED <<session, frozen, loaded, composite, ran, admitted, plan, pc, caller>>
    BY <1>5 DEF xvars, evars
  <2>2. EngineFits'
    BY <1>1, <2>1, StillKeeps
  <2> QED
    BY <1>1, <2>1, <2>2 DEF ExecutorFits, EarlySteps, Narrows
<1> QED
  BY <1>2, <1>3, <1>4, <1>5 DEF Next

(* The inductive invariant of the executor holds. *)
LEMMA ExecutorHolds == Spec => []ExecutorFits
<1>1. ASSUME ExecutorInit PROVE ExecutorFits
  BY <1>1, EngineStarts DEF ExecutorInit, ExecutorFits
<1>2. ASSUME ExecutorFits, [Next]_xvars PROVE ExecutorFits'
  BY <1>2, ExecutorKept
<1> QED
  BY <1>1, <1>2, PTL DEF Spec

(* Until a request has finished its prefill, every layer runs exactly the  *)
(* rows of a reused segment that its endpoint or its repair plan admits,   *)
(* whoever calls the engine and in whatever order.                         *)
THEOREM LayersRunAsAdmitted == Spec => []RunsAsAdmitted
<1>1. ASSUME ExecutorFits PROVE RunsAsAdmitted
  BY <1>1 DEF ExecutorFits, EngineFits, RunsAsAdmitted
<1> QED
  BY <1>1, ExecutorHolds, PTL

(* No layer that the engine advances over attends to rows of a reused      *)
(* segment that were not installed.                                        *)
THEOREM SourceRowsInstalled == Spec => []InstalledWhileAdvancing
<1>1. ASSUME ExecutorFits PROVE InstalledWhileAdvancing
  BY <1>1 DEF ExecutorFits, EngineFits, InstalledWhileAdvancing
<1> QED
  BY <1>1, ExecutorHolds, PTL

(* A row that has left the prefill never comes back to it. *)
THEOREM RowsNeverReenter == Spec => NeverReenters
<1>1. ASSUME ExecutorFits, [Next]_xvars PROVE [session'.active \subseteq session.active]_evars
  BY <1>1, ExecutorKept DEF Narrows
<1> QED
  BY <1>1, ExecutorHolds, PTL DEF Spec, NeverReenters

-----------------------------------------------------------------------------
(***************************************************************************)
(* Authorizations.                                                         *)
(***************************************************************************)
AuthStates == {"none", "held", "ready", "released"}

TransfersHold ==
    /\ loaded \in [Segments -> 0..TotalLayers \cup {NoTicket}]
    /\ auth \in [Segments -> AuthStates]
    /\ AuthorizedThroughout

(* Nothing but a prefetch adds a ticket, and it asks for an authorization. *)
LEMMA TransfersKept ==
    ASSUME TransfersHold, loaded' \in [Segments -> 0..TotalLayers \cup {NoTicket}], [Next]_xvars
    PROVE  TransfersHold'
<1>1. CASE UNCHANGED <<loaded, auth>> /\ caller' = caller
           /\ (pc' = pc \/ (pc # "done" /\ pc' # "done"))
  BY <1>1 DEF TransfersHold, AuthorizedThroughout, Tickets
<1>2. CASE caller = "executor" /\ (ExecutorStep \/ Raise)
  <2>1. caller' = caller
    BY <1>2 DEF ExecutorStep, Raise, Probe, FreezeNext, CloseBarrier, Admit, AuthorizeNext,
         PrefetchNext, WinnersArrived, AdmitEndpoint, InstallPlan, AdmitMeasured, CommitNext,
         RunLastBoundary, Finish, Decode, Refused, Goto, kept
  <2>2. CASE \/ Probe \/ FreezeNext \/ CloseBarrier \/ Admit \/ AdmitEndpoint \/ InstallPlan
             \/ AdmitMeasured \/ CommitNext \/ RunLastBoundary \/ Finish
    <3>1. UNCHANGED <<loaded, auth>>
      BY <2>2 DEF Probe, FreezeNext, CloseBarrier, Admit, AdmitEndpoint, InstallPlan, AdmitMeasured,
           CommitNext, RunLastBoundary, Finish, AdvanceOneLayer, FreezeSource, ConfigureBarrier,
           AdmitPreparation, AuthorizeFinalCommit, InstallRepairRatioPlan, CommitReadySegment,
           FinishPrefill
    <3>2. pc # "done" /\ pc' # "done"
      BY <2>2 DEF Probe, FreezeNext, CloseBarrier, Admit, AdmitEndpoint, InstallPlan, AdmitMeasured,
           CommitNext, RunLastBoundary, Finish, Goto
    <3> QED
      BY <1>1, <2>1, <3>1, <3>2
  <2>3. CASE AuthorizeNext
    <3> DEFINE g == Foremost(Unauthorized)
    <3>1. /\ auth' = [auth EXCEPT ![g] = "held"] /\ loaded' = loaded
          /\ pc # "done" /\ pc' # "done"
      BY <2>3 DEF AuthorizeNext, AuthorizeTransfer, Goto
    <3> QED
      BY <2>1, <3>1 DEF TransfersHold, AuthorizedThroughout, Tickets, AuthStates
  <2>4. CASE PrefetchNext
    <3> DEFINE g == Foremost(Segments \ Tickets)
    <3>1. /\ auth[g] \in {"held", "ready"} /\ loaded' = [loaded EXCEPT ![g] = 0] /\ auth' = auth
          /\ pc # "done" /\ pc' # "done"
      BY <2>4 DEF PrefetchNext, StartPrefetch, Goto
    <3> QED
      BY <2>1, <3>1 DEF TransfersHold, AuthorizedThroughout, Tickets
  <2>5. CASE WinnersArrived
    <3>1. auth' = [g \in Segments |-> "ready"] /\ loaded' = loaded /\ pc # "done" /\ pc' # "done"
      BY <2>5 DEF WinnersArrived
    <3> QED
      BY <2>1, <3>1 DEF TransfersHold, AuthorizedThroughout, Tickets, AuthStates
  <2>6. CASE Decode
    <3>1. auth' = [g \in Segments |-> "released"] /\ loaded' = loaded /\ pc' = "done"
      BY <2>6 DEF Decode, Goto
    <3> QED
      BY <2>1, <3>1 DEF TransfersHold, AuthorizedThroughout, AuthStates
  <2>7. CASE Refused \/ Raise
    <3>1. UNCHANGED <<loaded, auth>> /\ pc # "done" /\ pc' # "done"
      BY <2>7 DEF Refused, Raise, evars, Goto
    <3> QED
      BY <1>1, <2>1, <3>1
  <2> QED
    BY <1>2, <2>2, <2>3, <2>4, <2>5, <2>6, <2>7 DEF ExecutorStep
<1>3. CASE caller = "any" /\ AnyCall(OfferedPlans) /\ UNCHANGED <<pc, kept>>
  <2>1. auth' \in [Segments -> AuthStates]
    <3>1. auth' = auth \/ \E g \in Segments : auth' = [auth EXCEPT ![g] = "held"]
      BY <1>3 DEF AnyCall, AuthorizeTransfer, FreezeSource, StartPrefetch, PrefetchRefused,
           AdmitDetachedPreparation, AdmitPreparation, AuthorizeFinalCommit, ConfigureBarrier,
           InstallRepairRatioPlan, CommitReadySegment, AdvanceOneLayer, AdvanceNotReady,
           FinishPrefill
    <3> QED
      BY <3>1 DEF TransfersHold, AuthStates
  <2> QED
    BY <1>3, <2>1 DEF TransfersHold, AuthorizedThroughout, kept
<1>4. CASE CopyStream /\ UNCHANGED <<pc, kept>>
  <2>1. PICK g \in Segments : LayerArrives(g)
    BY <1>4 DEF CopyStream
  <2>2. /\ g \in Tickets /\ loaded' = [loaded EXCEPT ![g] = @ + 1] /\ auth' = auth
        /\ pc' = pc /\ caller' = caller
    BY <1>4, <2>1 DEF LayerArrives, kept
  <2>3. Tickets' \subseteq Tickets
    BY <2>2 DEF TransfersHold, Tickets
  <2> QED
    BY <2>2, <2>3 DEF TransfersHold, AuthorizedThroughout
<1>5. CASE UNCHANGED xvars
  <2>1. UNCHANGED <<loaded, auth>> /\ pc' = pc /\ caller' = caller
    BY <1>5 DEF xvars, evars
  <2> QED
    BY <1>1, <2>1
<1> QED
  BY <1>2, <1>3, <1>4, <1>5 DEF Next

(* The executor holds the lease and the HBM of every transfer from before  *)
(* its first byte to the end of decode, and gives all of them back then.   *)
THEOREM TransfersAuthorized == Spec => []AuthorizedThroughout
<1>1. ASSUME ExecutorFits, ExecutorInit PROVE TransfersHold
  BY <1>1 DEF ExecutorInit, EngineInit, TransfersHold, AuthorizedThroughout, Tickets, AuthStates,
       ExecutorFits, EngineFits, EngineTypes
<1>2. ASSUME TransfersHold, ExecutorFits', [Next]_xvars PROVE TransfersHold'
  BY <1>2, TransfersKept DEF ExecutorFits, EngineFits, EngineTypes
<1>3. ASSUME TransfersHold PROVE AuthorizedThroughout
  BY <1>3 DEF TransfersHold
<1> QED
  BY <1>1, <1>2, <1>3, ExecutorHolds, PTL DEF Spec
=============================================================================
