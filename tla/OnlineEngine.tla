---------------------------- MODULE OnlineEngine ----------------------------
(***************************************************************************)
(* The layer-by-layer data plane: CacheBlendV6OnlineEngine and its v7, v8, *)
(* schema-7 and schema-8 subclasses (src/probekv/                          *)
(* cacheblend_v6_online_engine.py) around one PrefillSession.  Winners are *)
(* frozen, their KV is copied in layer order on a stream of its own, a     *)
(* barrier closes the dense layers, and a segment committed to reuse then  *)
(* keeps in every layer the rows its repair plan admits.  The composite    *)
(* old-KV buffers are what the patched model mixes into attention          *)
(* (patches/cacheblend/0004-...patch:376-382 passes old_kvs[layer - 1] and *)
(* drops the source handles); a layer whose Source rows were not written   *)
(* there attends to zeros.                                                 *)
(***************************************************************************)
EXTENDS PrefillSession, FiniteSetsExt

(***************************************************************************)
(* How many rows of each reused segment are recomputed in each layer:      *)
(* MultiSegmentRepairRatioPlan and the two controllers that build one      *)
(* (src/probekv/v8_schema8_repair.py).  A ratio is a whole percentage and  *)
(* a plan a ratio for every segment and layer, NoRatio where it has none.  *)
(***************************************************************************)
CONSTANTS
    RatioGrid,       \* the profile's certified ratios, in percent
    CertifiedFloor,  \* the quality floor of the profile
    Reference,       \* the ratio of the first reuse layer, at least
    RatioCap,        \* the ceiling of the scopes older than uniform I/O
    NoRatio

(* RepairPolicyProfileV8 freezes a grid that holds its floor and reference *)
(* (v8_schema8_profile.py).                                                *)
ASSUME GridHoldsItsMarks ==
    /\ IsFiniteSet(RatioGrid) /\ RatioGrid \subseteq 1..100
    /\ {CertifiedFloor, Reference, RatioCap} \subseteq RatioGrid
    /\ CertifiedFloor <= Reference /\ NoRatio \notin Nat

PlannedLayers(sched, g) == {l \in Layers : sched[g][l] # NoRatio}
PlannedSegments(sched) == {g \in Segments : PlannedLayers(sched, g) # {}}
FirstPlanned(sched, g) == Min(PlannedLayers(sched, g))

NonIncreasing(sched) ==
    \A g \in Segments : \A l, k \in PlannedLayers(sched, g) :
        l < k => sched[g][k] <= sched[g][l]

(* The rows of one age or of one layer share a ratio.                      *)
SharedByAge(sched) ==
    \A g, h \in PlannedSegments(sched) :
        \A l \in PlannedLayers(sched, g), k \in PlannedLayers(sched, h) :
            l - FirstPlanned(sched, g) = k - FirstPlanned(sched, h)
                => sched[g][l] = sched[h][k]

SharedByLayer(sched) ==
    \A g, h \in Segments : \A l \in PlannedLayers(sched, g) \cap PlannedLayers(sched, h) :
        sched[g][l] = sched[h][l]

Capped(sched) == \A g \in Segments : \A l \in PlannedLayers(sched, g) : sched[g][l] <= RatioCap

(* MultiSegmentRepairRatioPlan.__post_init__.  The joint decisions a       *)
(* per-segment plan carries are the ratios themselves.                     *)
PlanLegal(sched, scope, frozen) ==
    /\ PlannedSegments(sched) # {}
    /\ \A g \in Segments : \A l \in PlannedLayers(sched, g) : sched[g][l] >= CertifiedFloor
    /\ NonIncreasing(sched)
    /\ scope = "uniform_fixed" =>
           \A g \in Segments : \A l \in PlannedLayers(sched, g) : sched[g][l] = RatioCap
    /\ scope = "development" => ~frozen
    /\ scope = "shared_relative" => Capped(sched) /\ SharedByAge(sched)
    /\ scope = "per_segment_load_aware" => frozen /\ Capped(sched)
    /\ scope = "uniform_io" => frozen /\ SharedByLayer(sched)

RowCount(ratio, rows) == (ratio * rows + 99) \div 100
AdmittedCount(sched, g, l) ==
    Min({Cardinality(PositionsOf[g]), RowCount(sched[g][l], Cardinality(PositionsOf[g]))})

(***************************************************************************)
(* RequestLayerUniformIORepairController: hidden[l] is the largest ratio   *)
(* whose repair of layer l the loading of the next one hides, 0 if none.   *)
(***************************************************************************)
Target(hidden) == Max({CertifiedFloor, hidden})

ChooseUniform(hidden, previous) ==
    IF previous = NoRatio THEN Max({Reference, Target(hidden)})
    ELSE IF Target(hidden) >= previous THEN previous
    ELSE Max({r \in RatioGrid : Target(hidden) <= r /\ r < previous})

(* build_plan in increasing layer order from the common first layer.       *)
UniformPlan(first, hidden) ==
    LET chosen[l \in first..TotalLayers] ==
            ChooseUniform(hidden[l], IF l = first THEN NoRatio ELSE chosen[l - 1])
    IN  [g \in Segments |-> [l \in Layers |-> IF l < first THEN NoRatio ELSE chosen[l]]]

-----------------------------------------------------------------------------

CONSTANTS
    WinnerOf,   \* the Source the selection found for each segment
    NoTicket, NoPlan, NoBarrier

ASSUME WinnersAreSources == WinnerOf \in [Segments -> Sources]

(* Measured drift of each row.  The same at every layer: supports only     *)
(* shrink, so any other sequence of choices is this one up to the naming   *)
(* of the rows of a segment.                                               *)
CONSTANT Drift
ASSUME DriftRanks ==
    /\ Drift \in [Positions -> Nat]
    /\ \A p, q \in Positions : p # q => Drift[p] # Drift[q]

VARIABLES
    session,
    frozen,     \* frozen_source_by_segment
    loaded,     \* layers of the ticket that have arrived, or NoTicket
    composite,  \* segments whose Source rows are in old_kvs, per layer
    ran,        \* rows each layer was run with (the session's layer_audit)
    barrier,    \* [reuse, first], or NoBarrier
    admitted,   \* preparation, detached and final admissions, endpoints
    plan,       \* the installed repair schedule
    forbidden,  \* a full-KV transfer of another Source was asked for
    auth        \* per segment: lease and HBM authorization of its transfer
evars == <<session, frozen, loaded, composite, ran, barrier, admitted, plan,
           forbidden, auth>>

Endpoints == {"none", "r0", "r1"}

EngineInit ==
    /\ session = BeginPrefill
    /\ frozen = [g \in Segments |-> NoSource]
    /\ loaded = [g \in Segments |-> NoTicket]
    /\ composite = [l \in Layers |-> {}]
    /\ ran = [l \in Layers |-> {}]
    /\ barrier = NoBarrier
    /\ admitted = [prepared |-> {}, detached |-> {}, final |-> {},
                   endpoint |-> [g \in Segments |-> "none"]]
    /\ plan = NoPlan
    /\ forbidden = FALSE
    /\ auth = [g \in Segments |-> "none"]

FrozenSegments == {g \in Segments : frozen[g] # NoSource}
Tickets == {g \in Segments : loaded[g] # NoTicket}

(* external: Schema6FullKVTransferAuthorizer, see TransferAuthorizer.      *)
AuthorizeTransfer(g) ==
    /\ auth[g] = "none" /\ frozen[g] # NoSource
    /\ auth' = [auth EXCEPT ![g] = "held"]
    /\ UNCHANGED <<session, frozen, loaded, composite, ran, barrier, admitted, plan, forbidden>>

FreezeSource(g, src) ==
    /\ frozen[g] \in {NoSource, src}
    /\ frozen' = [frozen EXCEPT ![g] = src]
    /\ UNCHANGED <<session, loaded, composite, ran, barrier, admitted, plan, forbidden, auth>>

(* Only frozen winners, and only before the barrier has closed.            *)
AdmitDetachedPreparation(G) ==
    /\ barrier = NoBarrier /\ G \subseteq FrozenSegments
    /\ admitted' = [admitted EXCEPT !.detached = @ \cup G, !.prepared = @ \cup G]
    /\ UNCHANGED <<session, frozen, loaded, composite, ran, barrier, plan, forbidden, auth>>

AdmitPreparation(G) ==
    /\ barrier # NoBarrier /\ G \subseteq barrier.reuse
    /\ admitted' = [admitted EXCEPT !.prepared = @ \cup G]
    /\ UNCHANGED <<session, frozen, loaded, composite, ran, barrier, plan, forbidden, auth>>

(* The decision closes on the frozen winners at the depth the request has  *)
(* completed, one or two layers; a second decision is refused.             *)
CanConfigureBarrier ==
    /\ barrier = NoBarrier /\ session.layer \in {1, 2} /\ ~session.finished
    /\ Tickets \subseteq admitted.detached
    /\ admitted.detached \subseteq FrozenSegments

ConfigureBarrier ==
    /\ CanConfigureBarrier
    /\ barrier' = [reuse |-> FrozenSegments, first |-> session.layer + 1]
    /\ UNCHANGED <<session, frozen, loaded, composite, ran, admitted, plan, forbidden, auth>>

StartPrefetch(g, src) ==
    /\ g \in admitted.prepared /\ auth[g] \in {"held", "ready"}
    /\ frozen[g] = src /\ CanRegisterSource(session, g)
    /\ loaded' = [loaded EXCEPT ![g] = 0]
    /\ session' = RegisterWinner(session, g, src)
    /\ UNCHANGED <<frozen, composite, ran, barrier, admitted, plan, forbidden, auth>>

(* A prefetch of another Source is refused, and the refusal is remembered  *)
(* for assert_selection_transfer_invariants.                               *)
PrefetchRefused(g, src) ==
    /\ g \in admitted.prepared /\ auth[g] = "held" /\ frozen[g] # src
    /\ forbidden' = TRUE
    /\ UNCHANGED <<session, frozen, loaded, composite, ran, barrier, admitted, plan, auth>>

(* The copy stream finishes the layers of a ticket in order.               *)
LayerArrives(g) ==
    /\ g \in Tickets /\ loaded[g] < TotalLayers
    /\ loaded' = [loaded EXCEPT ![g] = @ + 1]
    /\ UNCHANGED <<session, frozen, composite, ran, barrier, admitted, plan, forbidden, auth>>

ReadyForLayer(g, l) == g \in Tickets /\ loaded[g] >= l

(* The executor gives a request one plan or one endpoint, never both       *)
(* (v6_a800_executor.py:1124-1190).                                        *)
InstallRepairRatioPlan(sched) ==
    /\ barrier # NoBarrier /\ PlannedSegments(sched) = barrier.reuse
    /\ plan = NoPlan /\ admitted.final = {}
    /\ plan' = sched
    /\ UNCHANGED <<session, frozen, loaded, composite, ran, barrier, admitted, forbidden, auth>>

AuthorizeFinalCommit(G, endpoint) ==
    /\ barrier # NoBarrier /\ G \subseteq admitted.prepared
    /\ (endpoint = "none") = (plan # NoPlan)
    /\ admitted' = [admitted EXCEPT
           !.final = @ \cup G,
           !.endpoint = [g \in Segments |-> IF g \in G THEN endpoint ELSE @[g]]]
    /\ UNCHANGED <<session, frozen, loaded, composite, ran, barrier, plan, forbidden, auth>>

(* measured_repair_positions: the rows of a support with the most drift.   *)
MostDrifted(support, n) ==
    {p \in support : Cardinality({q \in support : Drift[q] > Drift[p]}) < n}

ExpectedCount(g, boundary) ==
    CASE admitted.endpoint[g] = "r1" -> Cardinality(PositionsOf[g])
      [] admitted.endpoint[g] = "r0" -> 0
      [] OTHER -> AdmittedCount(plan, g, boundary)

(* commit_ready_segment of schema 8; the scheduler may have moved the      *)
(* boundary to a later layer, while the mask is counted at the planned one. *)
CommitReadySegment(g, boundary, actual) ==
    /\ g \in admitted.final
    /\ admitted.endpoint[g] = "none" => plan[g][boundary] # NoRatio
    /\ boundary >= barrier.first
    /\ actual >= boundary /\ ReadyForLayer(g, actual)
    /\ LET repair == MostDrifted(PositionsOf[g], ExpectedCount(g, boundary))
       IN  /\ CanCommitReuse(session, g, frozen[g], actual, repair)
           /\ session' = CommitReuse(session, g, actual, repair)
    /\ UNCHANGED <<frozen, loaded, composite, ran, barrier, admitted, plan, forbidden, auth>>

(* Mutant: the mask a segment was committed with is kept to the end.       *)
DesiredAtBoundary(g, l) == Cardinality(session.repair[g])

(* _apply_planned_gradual_support: every earlier commit with a smaller     *)
(* ratio planned for this layer keeps the rows that drift most, of those   *)
(* it had.                                                                 *)
Desired(g, l) ==
    IF plan = NoPlan \/ session.boundary[g] >= l \/ plan[g][l] = NoRatio
    THEN Cardinality(session.repair[g]) ELSE AdmittedCount(plan, g, l)

Reentry(l) == \E g \in Committed(session) : Desired(g, l) > Cardinality(session.repair[g])

Shrunken(l) == [g \in Committed(session) |-> MostDrifted(session.repair[g], Desired(g, l))]

(* Mutant: rows are installed for the segments that are ready.             *)
AnyReady(l) == Committed(session) = {} \/ \E g \in Committed(session) : ReadyForLayer(g, l)

AllReady(l) == \A g \in Committed(session) : ReadyForLayer(g, l)

(* One layer of advance_to_layer: gradual support, install, run.           *)
AdvanceOneLayer ==
    LET l == session.layer + 1
    IN  /\ CanRunLayer(session) /\ ~Reentry(l) /\ AllReady(l)
        /\ session' = RunLayer(ShrinkSupport(session, Shrunken(l)))
        /\ ran' = [ran EXCEPT ![l] = session'.active]
        /\ composite' = [composite EXCEPT
                             ![l] = {g \in Committed(session) : ReadyForLayer(g, l)}]
        /\ UNCHANGED <<frozen, loaded, barrier, admitted, plan, forbidden, auth>>

(* A committed layer that has not arrived raises, after the support of the *)
(* layer was already shrunk and the segments before it installed.          *)
AdvanceNotReady ==
    LET l == session.layer + 1
    IN  /\ CanRunLayer(session) /\ ~Reentry(l) /\ ~AllReady(l)
        /\ session' = ShrinkSupport(session, Shrunken(l))
        /\ \E G \in SUBSET {g \in Committed(session) : ReadyForLayer(g, l)} :
               composite' = [composite EXCEPT ![l] = @ \cup G]
        /\ UNCHANGED <<frozen, loaded, ran, barrier, admitted, plan, forbidden, auth>>

(* finish_prefill hands the remaining layers to the session, which runs    *)
(* them all with the rows of the last target.                              *)
FinishPrefill ==
    /\ ~session.finished /\ session.layer > 0
    /\ session' = FinishSession([session EXCEPT !.layer = TotalLayers, !.active = @ \cap session.staged])
    /\ ran' = [l \in Layers |-> IF l > session.layer THEN session.staged ELSE ran[l]]
    /\ UNCHANGED <<frozen, loaded, composite, barrier, admitted, plan, forbidden, auth>>

(* Legal calls in any order, by the executor, profiling scripts or tests;  *)
(* a segment is admitted once.                                             *)
AnyCall(plans) ==
    \/ \E g \in Segments : AuthorizeTransfer(g)
    \/ \E g \in Segments : FreezeSource(g, WinnerOf[g])
    \/ \E g \in Segments, src \in Sources : StartPrefetch(g, src) \/ PrefetchRefused(g, src)
    \/ \E G \in (SUBSET Segments) \ {{}} :
           \/ AdmitDetachedPreparation(G) \/ AdmitPreparation(G)
           \/ G \cap admitted.final = {} /\ \E e \in Endpoints : AuthorizeFinalCommit(G, e)
    \/ ConfigureBarrier
    \/ \E sched \in plans : InstallRepairRatioPlan(sched)
    \/ \E g \in Segments, b, a \in Layers : CommitReadySegment(g, b, a)
    \/ AdvanceOneLayer \/ AdvanceNotReady \/ FinishPrefill

(***************************************************************************)
(* Properties.                                                             *)
(***************************************************************************)
(* A row whose hidden state was discarded is never run again               *)
(* (resumable_prefill.py:111).                                             *)
NeverReenters == [][session'.active \subseteq session.active]_evars

RowsRun(g, l) == Cardinality(ran[l] \cap PositionsOf[g])

RunsAsPlanned(g, l) ==
    LET planned == plan[g][l] # NoRatio
    IN  /\ planned => RowsRun(g, l) >= AdmittedCount(plan, g, l)
        /\ l > session.boundary[g] =>
               RowsRun(g, l) = IF planned THEN AdmittedCount(plan, g, l)
                               ELSE RowsRun(g, l - 1)

(* Until the session is finished, a layer that runs a reused segment runs  *)
(* exactly the rows its endpoint or the plan admits there; where the plan  *)
(* is silent those of the layer before.  At its own boundary a segment the *)
(* scheduler moved may run more than planned, never less.                  *)
RunsAsAdmitted ==
    ~session.finished =>
        \A g \in Committed(session) : \A l \in session.boundary[g]..session.layer :
            CASE admitted.endpoint[g] = "r1" -> RowsRun(g, l) = Cardinality(PositionsOf[g])
              [] admitted.endpoint[g] = "r0" -> RowsRun(g, l) = 0
              [] OTHER -> RunsAsPlanned(g, l)

(* While the engine advances, each layer of a committed segment runs with  *)
(* the Source rows of that segment in its old-KV buffer.                   *)
InstalledWhileAdvancing ==
    ~session.finished =>
        \A g \in Committed(session) : \A l \in session.boundary[g]..session.layer :
            g \in composite[l]
=============================================================================
