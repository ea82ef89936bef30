----------------------------- MODULE ClosedLoop -----------------------------
(***************************************************************************)
(* One request of protocols v4 to v6: comparison budget, layer-major       *)
(* selection, load and schedule, refined cost, final admission             *)
(* (src/probekv/multisegment_orchestration.py, orchestration.py).  Four    *)
(* controllers share the shape; the request is served by one of them:      *)
(*                                                                         *)
(*   "legacy"     TwoStageReuseController, admission before scheduling     *)
(*   "two_stage"  TwoStageReuseController, refined admission               *)
(*   "common"     MultiSegmentReuseController, one boundary for all        *)
(*   "staggered"  StaggeredMultiSegmentReuseController, one per segment    *)
(*                                                                         *)
(* The first two serve requests of one segment.  The runtime is outside:   *)
(* its measurements are any values, it may answer for another Source or    *)
(* raise, and the controller then raises ("error") and starts nothing.     *)
(* Segments are numbered in request order, layers from 1.                  *)
(***************************************************************************)
EXTENDS Integers, FiniteSets, Sequences, SequencesExt, FiniteSetsExt, TLC

(***************************************************************************)
(* The selection of protocols v3 to v6: the interval selector              *)
(* (src/probekv/selector.py), the floors the multi-segment selector        *)
(* computes (src/probekv/multisegment_selector.py), and which Sources v6   *)
(* compares.  The bounds of a candidate are [lower, upper, repair,         *)
(* covered]; costs are compared with the dense reference FullCost through  *)
(* the percentage Gamma.  The reason a decision carries is left out.       *)
(***************************************************************************)
CONSTANTS
    FullCost,        \* full_reference_ms
    Gamma,           \* in percent
    RatioTolerance   \* reuse_ratio_tolerance, in the unit of repair

NoSource == 0
Undecided == [source |-> NoSource, probe |-> 0]

Economic(cost) == 100 * cost <= Gamma * FullCost

(* _confident_winner: the covered candidate whose upper bound is below the *)
(* lower bound of every other one.                                         *)
ConfidentWinners(bounds) ==
    LET covered == {s \in DOMAIN bounds : bounds[s].covered}
    IN  {s \in covered : \A t \in covered \ {s} : bounds[s].upper < bounds[t].lower}

(* _final_winner; the caller's CHOOSE is the least in (cost, repair, id)   *)
(* or, for the reuse-maximising policies, in (cost, id).                   *)
FinalWinners(bounds, policy) ==
    LET economic == {s \in DOMAIN bounds : bounds[s].covered /\ Economic(bounds[s].upper)}
        least    == Min({bounds[s].repair : s \in economic})
        pool     == IF policy = "final_economic_min_cost" THEN economic
                    ELSE {s \in economic : bounds[s].repair <= least + RatioTolerance}
        key(s)   == <<bounds[s].upper,
                      IF policy = "final_economic_min_cost" THEN bounds[s].repair ELSE 0, s>>
        Less(a, b) == \/ a[1] < b[1]
                      \/ a[1] = b[1] /\ (a[2] < b[2] \/ (a[2] = b[2] /\ a[3] < b[3]))
    IN  {s \in pool : \A t \in pool \ {s} : Less(key(s), key(t))}

(* evaluate_checkpoint: Undecided, or a decision made at this layer, which *)
(* abstains when its source is NoSource.                                   *)
EvaluateCheckpoint(bounds, layer, last, policy, filter) ==
    LET early  == [s \in {t \in DOMAIN bounds :
                            ~filter \/ (bounds[t].covered /\ Economic(bounds[t].upper))}
                   |-> bounds[s]]
        final  == layer = last
        winner == IF final /\ policy # "strict_interval"
                  THEN FinalWinners(bounds, policy) ELSE ConfidentWinners(early)
    IN  IF winner # {} THEN [source |-> CHOOSE s \in winner : TRUE, probe |-> layer]
        ELSE IF final THEN [source |-> NoSource, probe |-> layer]
        ELSE Undecided

Decided(decision) == {g \in DOMAIN decision : decision[g] # Undecided}
SelectedIn(decision) == {g \in DOMAIN decision : decision[g].source # NoSource}

(* Mutant: policy A looks at the depth of the segment itself only.         *)
OwnFloors(decision, execution) ==
    [g \in {h \in SelectedIn(decision) :
              execution = "immediate_staggered_closed_loop"
              \/ \A i \in DOMAIN decision : i >= h => i \in Decided(decision)} |->
        decision[g].probe + 1]

(* _eligible_floors.  Policy C: the layer after the segment's decision.    *)
(* Policy A: the layer after the last decision of the segment and of those *)
(* that follow it, once all of them are decided.                           *)
EligibleFloors(decision, execution) ==
    IF execution = "legacy_common_after_selection" THEN <<>>
    ELSE IF execution = "immediate_staggered_closed_loop"
    THEN [g \in SelectedIn(decision) |-> decision[g].probe + 1]
    ELSE [g \in {h \in SelectedIn(decision) :
                   \A i \in DOMAIN decision : i >= h => i \in Decided(decision)} |->
            1 + Max({decision[i].probe : i \in {j \in DOMAIN decision : j >= g}})]

(***************************************************************************)
(* The request-level comparison budget of protocol v6                      *)
(* (src/probekv/candidate_budget.py): which Sources of which segments are  *)
(* compared with the current state.  A candidate is a record               *)
(*   [segment, source, score, saved, upper, eligible]                      *)
(* with its metadata score, the time it is predicted to save and the upper *)
(* bound of its comparison time.  Identifiers are numbers: the code breaks *)
(* ties by them.                                                           *)
(***************************************************************************)
UpperSum(C) == SumFunction([c \in C |-> c.upper])

(* benefit_density: saved per comparison time, infinite for a free one     *)
(* that saves; and the order of two densities, multiplied out.             *)
Benefit(x) == IF x.saved > 0 THEN x.saved ELSE 0
Infinite(x) == x.upper = 0 /\ x.saved > 0
Span(x) == IF x.upper = 0 THEN 1 ELSE x.upper
Denser(x, y) ==
    /\ ~Infinite(y)
    /\ Infinite(x) \/ Benefit(x) * Span(y) > Benefit(y) * Span(x)

EarlierId(x, y) ==
    x.segment < y.segment \/ (x.segment = y.segment /\ x.source < y.source)

(* The orders the two passes are sorted by.                                *)
ByBenefit(x, y) ==
    \/ Denser(x, y)
    \/ ~Denser(y, x) /\ (x.score < y.score \/ (x.score = y.score /\ EarlierId(x, y)))

ByMetadata(x, y) ==
    \/ x.score < y.score
    \/ x.score = y.score /\ (x.saved > y.saved
                             \/ (x.saved = y.saved /\ x.source < y.source))

MetadataBest(C) ==
    {c \in C : \A d \in C : d.segment = c.segment => d = c \/ ByMetadata(c, d)}

TakeIfFits(used, c, available) == used + c.upper <= available

(* One pass over the metadata-best of each segment, then over the rest; a  *)
(* candidate that does not fit beside those taken before it is skipped.    *)
TriedBefore(first, x, y) ==
    \/ x \in first /\ y \notin first
    \/ (x \in first <=> y \in first) /\ ByBenefit(x, y)

GreedilyTaken(C, first, available, A) ==
    \A c \in C :
        c \in A <=> TakeIfFits(UpperSum({d \in A : TriedBefore(first, d, c)}), c, available)

Greedy(C, first, available) ==
    CHOOSE A \in SUBSET C : GreedilyTaken(C, first, available, A)

(* allocate_variant_comparisons: the candidates that are compared.         *)
Allocate(C, available) ==
    LET eligible == {c \in C : c.eligible}
    IN  IF UpperSum(eligible) <= available THEN eligible
        ELSE Greedy(eligible, MetadataBest(eligible), available)

ComparedOf(taken, g) == {c.source : c \in {d \in taken : d.segment = g}}

-----------------------------------------------------------------------------

CONSTANTS
    NSegments, NSources,
    Checkpoints,     \* a sequence of layers
    MaxLayers,       \* the max_layer of the probe policies of the requests
    TotalLayers,
    Executions,      \* the selection_execution_policies of the requests
    ProbePolicies,   \* pairs of selector_policy and preliminary_economic_filter
    CandidateMenu,   \* what the metadata may say of one candidate
    Budgets,         \* what is left of the budget after probe and metadata
    BoundsMenu,      \* what a checkpoint may say of one candidate
    Totals           \* refined totals of a measurement

Segments == 1..NSegments
Sources  == 1..NSources

ASSUME LoopShape ==
    /\ {NSegments, NSources, TotalLayers} \subseteq Nat \ {0}
    /\ Checkpoints \in Seq(1..(TotalLayers - 1)) /\ Checkpoints # <<>>
    /\ \A i, j \in DOMAIN Checkpoints : i < j => Checkpoints[i] < Checkpoints[j]
    /\ \A m \in MaxLayers : Checkpoints[Len(Checkpoints)] <= m
    /\ CandidateMenu \subseteq [score : Int, saved : Int, upper : Nat, eligible : BOOLEAN]
    /\ Budgets \subseteq Nat /\ Totals \subseteq Nat

VARIABLES
    request,    \* what was fixed when the request arrived
    phase,
    cands,      \* candidates with the metadata known of them
    compared,   \* per segment, the Sources given comparison budget
    step,       \* position in Checkpoints
    checked,    \* segments evaluated at this checkpoint
    decision,   \* per segment, Undecided or the selector's decision
    emitted,    \* per segment, the floor its eligibility was announced with
    fb,         \* scheduling feedback per loaded segment
    boundary, active,   \* the reuse plan being measured
    feasible,   \* measured plans that pass both gates
    plan        \* the execution plan

vars == <<request, phase, cands, compared, step, checked, decision, emitted,
          fb, boundary, active, feasible, plan>>

Selected == SelectedIn(decision)
Layer == Checkpoints[step]
Staggers == request.execution # "legacy_common_after_selection"
NoPlan == [reuse |-> {}, at |-> <<>>, ratio |-> "none"]

Feedback ==
    {[ready |-> FALSE, first |-> 0, through |-> 0]}
    \cup {[ready |-> TRUE, first |-> i, through |-> j] :
             i \in 1..TotalLayers, j \in {TotalLayers - 1, TotalLayers}}

LegalFeedback(f) == ~f.ready \/ f.first <= f.through
ReadyAt(f, layer) == f.ready /\ f.first <= layer /\ layer <= f.through

Requests ==
    {r \in [controller : {"legacy", "two_stage", "common", "staggered"},
            execution : Executions, probing : ProbePolicies, last : MaxLayers,
            segments : {1..1, Segments}, budget : Budgets] :
        /\ r.controller \in {"legacy", "two_stage"} <=> r.segments # Segments
        /\ r.controller = "staggered" <=> r.execution # "legacy_common_after_selection"}

Arrival(r, C) ==
    /\ request = r /\ cands = C
    /\ phase = "arrived"
    /\ compared = [g \in r.segments |-> {}]
    /\ step = 1 /\ checked = {}
    /\ decision = [g \in r.segments |-> Undecided]
    /\ emitted = [g \in r.segments |-> 0]
    /\ fb = <<>> /\ boundary = 1 /\ active = {} /\ feasible = {} /\ plan = NoPlan

Init ==
    \E r \in Requests :
      \E f \in [r.segments \X Sources -> CandidateMenu] :
        Arrival(r, {[segment |-> p[1], source |-> p[2], score |-> f[p].score, saved |-> f[p].saved,
                     upper |-> f[p].upper, eligible |-> f[p].eligible] : p \in DOMAIN f})

(***************************************************************************)
(* Selection.  The allocation keeps audits, not candidates.  A segment     *)
(* without comparison budget abstains at the first checkpoint.             *)
(***************************************************************************)
AllocateBudget ==
    /\ phase = "arrived"
    /\ LET taken == Allocate(cands, request.budget)
       IN  /\ compared' = [g \in request.segments |-> ComparedOf(taken, g)]
           /\ decision' = [g \in request.segments |->
                             IF compared'[g] # {} THEN Undecided
                             ELSE [source |-> NoSource, probe |-> Checkpoints[1]]]
    /\ phase' = "probing" /\ cands' = {}
    /\ UNCHANGED <<request, step, checked, emitted, fb, boundary, active, feasible, plan>>

PendingSegments == {g \in request.segments : g \notin Decided(decision) /\ g \notin checked}

(* The next segment of this layer; a locked winner starts to load at once. *)
Probe ==
    /\ phase = "probing" /\ PendingSegments # {}
    /\ \E bounds \in [compared[Min(PendingSegments)] -> BoundsMenu] :
         decision' = [decision EXCEPT ![Min(PendingSegments)] =
                        EvaluateCheckpoint(bounds, Layer, request.last,
                                           request.probing[1], request.probing[2])]
    /\ checked' = checked \cup {Min(PendingSegments)}
    /\ UNCHANGED <<request, phase, cands, compared, step, emitted, fb, boundary,
                   active, feasible, plan>>

Announce(dec) ==
    LET floors == EligibleFloors(dec, request.execution)
    IN  [g \in request.segments |->
           IF emitted[g] = 0 /\ g \in DOMAIN floors THEN floors[g] ELSE emitted[g]]

(* The checkpoint is over; after the last one what is left abstains and    *)
(* the selection plan is complete.                                         *)
CloseCheckpoint ==
    /\ phase = "probing" /\ PendingSegments = {}
    /\ checked' = {}
    /\ IF step < Len(Checkpoints)
       THEN /\ step' = step + 1
            /\ emitted' = Announce(decision)
            /\ UNCHANGED <<phase, decision>>
       ELSE /\ decision' = [g \in request.segments |->
                              IF g \in Decided(decision) THEN decision[g]
                              ELSE [source |-> NoSource, probe |-> Layer]]
            /\ emitted' = Announce(decision')
            /\ phase' = "selected"
            /\ UNCHANGED step
    /\ UNCHANGED <<request, cands, compared, fb, boundary, active, feasible, plan>>

(***************************************************************************)
(* Execution plans.  A controller builds one and its constructor checks it *)
(* before the runtime is called.                                           *)
(***************************************************************************)
Reuse(S, at) == [reuse |-> S, at |-> at, ratio |-> "refined"]
Becomes(p) == plan' = p /\ phase' = "planned"

(* RequestSelectionPlan: the floors are those of the selected segments and *)
(* lie after the decision.                                                 *)
SelectionPlanLegal ==
    LET floors == EligibleFloors(decision, request.execution)
    IN  /\ \A g \in Selected : decision[g].source \in compared[g]
        /\ Staggers => /\ DOMAIN floors = Selected
                       /\ \A g \in Selected : floors[g] > decision[g].probe

(* RequestExecutionPlan and its rows: reuse has a Source and a boundary.   *)
ExecutionPlanLegal ==
    /\ plan.reuse \subseteq Selected
    /\ DOMAIN plan.at = plan.reuse
    /\ \A g \in plan.reuse : plan.at[g] >= 1

(* Nothing selected: no runtime call but the dense execution.              *)
PlanDense ==
    /\ phase = "selected" /\ Selected = {}
    /\ Becomes(NoPlan)
    /\ UNCHANGED <<request, cands, compared, step, checked, decision, emitted,
                   fb, boundary, active, feasible>>

(* Before the load a two-stage controller refuses a selection without the  *)
(* cost breakdown its accounting needs, and the legacy one decides.        *)
RefuseSelection ==
    /\ phase = "selected" /\ Selected # {} /\ request.controller \in {"legacy", "two_stage"}
    /\ phase' = "error"
    /\ UNCHANGED <<request, cands, compared, step, checked, decision, emitted,
                   fb, boundary, active, feasible, plan>>

RejectBeforeLoad ==
    /\ phase = "selected" /\ Selected # {} /\ request.controller = "legacy"
    /\ Becomes(NoPlan)
    /\ UNCHANGED <<request, cands, compared, step, checked, decision, emitted,
                   fb, boundary, active, feasible>>

(* Mutant: reuse starts as soon as the Source is loaded.                   *)
ReadyBoundary(f) == [g \in {h \in DOMAIN f : f[h].ready} |-> f[g].first]

StaggeredBoundary(f) ==
    [g \in {h \in DOMAIN f : /\ f[h].ready
                             /\ Max({emitted[h], f[h].first}) <= f[h].through} |->
        Max({emitted[g], f[g].first})]

(* Where the candidate boundaries begin, or the layer a legacy plan names; *)
(* the other controllers take their boundary from the feedback.            *)
FirstCandidates ==
    IF request.controller \in {"legacy", "common"} THEN 1..2 ELSE {1}

(* load_and_schedule; feedback for another Source is refused.              *)
Load ==
    /\ phase = "selected" /\ Selected # {}
    /\ \E f \in [Selected -> {x \in Feedback : LegalFeedback(x)}],
          answered \in BOOLEAN, low \in FirstCandidates :
        /\ fb' = f
        /\ boundary' = low
        /\ active' = CASE request.controller = "common" -> {g \in Selected : ReadyAt(f[g], low)}
                       [] request.controller = "staggered" -> DOMAIN StaggeredBoundary(f)
                       [] OTHER -> Selected
        /\ IF ~answered THEN phase' = "error" /\ UNCHANGED plan
           ELSE IF request.controller = "legacy"
           THEN Becomes(Reuse(Selected, [g \in Selected |-> low]))
           ELSE phase' = "loaded" /\ UNCHANGED plan
    /\ UNCHANGED <<request, cands, compared, step, checked, decision, emitted, feasible>>

(* The boundary the plan being measured gives each active segment.         *)
Proposed ==
    IF request.controller = "staggered"
    THEN [g \in active |-> StaggeredBoundary(fb)[g]]
    ELSE IF request.controller = "two_stage" THEN [g \in active |-> fb[g].first]
    ELSE [g \in active |-> boundary]

GatesPass(total, covered) == covered /\ Economic(total)

(* The refined cost of the active set: segments it says do not pay are     *)
(* dropped and the rest is measured again.                                 *)
DropUnprofitable ==
    /\ phase = "loaded" /\ request.controller \in {"common", "staggered"}
    /\ \E positive \in SUBSET active : positive # active /\ active' = positive
    /\ UNCHANGED <<request, phase, cands, compared, step, checked, decision, emitted,
                   fb, boundary, feasible, plan>>

(* Common boundary: every candidate boundary is measured, the cheapest     *)
(* feasible one (then the earliest) is taken.                              *)
MeasureBoundary ==
    /\ phase = "loaded" /\ request.controller = "common" /\ boundary <= TotalLayers
    /\ \E total \in Totals, covered \in BOOLEAN :
         feasible' = IF active # {} /\ GatesPass(total, covered)
                     THEN feasible \cup {[total |-> total, at |-> Proposed]}
                     ELSE feasible
    /\ boundary' = boundary + 1
    /\ active' = {g \in Selected : ReadyAt(fb[g], boundary + 1)}
    /\ UNCHANGED <<request, phase, cands, compared, step, checked, decision, emitted,
                   fb, plan>>

Cheaper(p, q) ==
    \/ p.total < q.total
    \/ p.total = q.total /\ Min({p.at[g] : g \in DOMAIN p.at}) < Min({q.at[g] : g \in DOMAIN q.at})

AdmitCommon ==
    /\ phase = "loaded" /\ request.controller = "common" /\ boundary > TotalLayers
    /\ IF feasible = {} THEN Becomes(NoPlan)
       ELSE LET best == CHOOSE p \in feasible : \A q \in feasible : p = q \/ Cheaper(p, q)
            IN  Becomes(Reuse(DOMAIN best.at, best.at))
    /\ UNCHANGED <<request, cands, compared, step, checked, decision, emitted,
                   fb, boundary, active, feasible>>

(* One plan only: staggered, or a single segment whose Source is ready.    *)
AdmitOnePlan ==
    /\ phase = "loaded" /\ request.controller \in {"staggered", "two_stage"}
    /\ \E total \in Totals, covered \in BOOLEAN :
         IF /\ active # {} /\ GatesPass(total, covered)
            /\ request.controller = "two_stage" => \A g \in active : fb[g].ready
         THEN Becomes(Reuse(active, Proposed)) ELSE Becomes(NoPlan)
    /\ UNCHANGED <<request, cands, compared, step, checked, decision, emitted,
                   fb, boundary, active, feasible>>

Execute ==
    /\ phase = "planned" /\ phase' = "executed"
    /\ UNCHANGED <<request, cands, compared, step, checked, decision, emitted,
                   fb, boundary, active, feasible, plan>>

(* A runtime call that raises: a probe, a measurement or the execution.    *)
RuntimeRaises ==
    /\ phase \in {"probing", "loaded", "planned"} /\ phase' = "error"
    /\ UNCHANGED <<request, cands, compared, step, checked, decision, emitted,
                   fb, boundary, active, feasible, plan>>

Serve ==
    \/ AllocateBudget \/ Probe \/ CloseCheckpoint
    \/ PlanDense \/ RefuseSelection \/ RejectBeforeLoad \/ Load
    \/ DropUnprofitable \/ MeasureBoundary \/ AdmitCommon \/ AdmitOnePlan \/ Execute

Next == Serve \/ RuntimeRaises

(* The controllers are one synchronous call: until it returns it goes on.  *)
Spec == Init /\ [][Next]_vars /\ WF_vars(Serve)

-----------------------------------------------------------------------------
(* No dropped candidate would still fit the budget that is left, and the   *)
(* compared ones do (allocate_variant_comparisons, whose greedy pass skips *)
(* what does not fit instead of stopping there).                           *)
GivenOutInFull ==
    phase = "arrived" /\ phase' = "probing" =>
        LET taken == {c \in cands : c.source \in compared'[c.segment]}
        IN  /\ UpperSum(taken) <= request.budget
            /\ \A c \in cands \ taken :
                 c.eligible => UpperSum(taken) + c.upper > request.budget

(* A segment is announced for reuse when its floor is the very next layer, *)
(* so neither policy ever promises a layer already computed or keeps an    *)
(* eligible winner waiting (select and _eligible_floors, on two paths: in  *)
(* the loop and after it).                                                 *)
AnnouncedInTime ==
    \A g \in request.segments : emitted'[g] # emitted[g] => emitted'[g] = Layer + 1

(* What the selection of a request promises, it promises once and as it    *)
(* is: all of the comparison budget at the start, each floor when due.     *)
SelectionInTime == [][GivenOutInFull /\ AnnouncedInTime]_vars

(* The checks the contract classes make never refuse what the selector and *)
(* the controllers build, and no announced floor differs from the plan's.  *)
PlansLegal ==
    /\ phase \in {"selected", "loaded", "planned"} =>
         /\ SelectionPlanLegal
         /\ Staggers => emitted = [g \in request.segments |->
                                     IF g \in Selected
                                     THEN EligibleFloors(decision, request.execution)[g] ELSE 0]
    /\ phase \in {"planned", "executed"} => ExecutionPlanLegal

(* What is reused has its Source loaded at the layer where reuse starts,   *)
(* and under policies A and C that layer lies after the segment's own      *)
(* decision and, under A, after those of all segments behind it.  Only the *)
(* legacy admission, final before the load, is exempt.                     *)
ReuseReady ==
    phase \in {"planned", "executed"} /\ request.controller # "legacy" =>
        \A g \in plan.reuse :
            /\ ReadyAt(fb[g], plan.at[g])
            /\ Staggers => plan.at[g] > decision[g].probe
            /\ request.execution = "causal_commit_wait" =>
                 \A h \in request.segments : h >= g => plan.at[g] > decision[h].probe

(* What the closed loop hands on: plans that are legal, and reuse of what  *)
(* is ready.                                                               *)
LoopHolds == PlansLegal /\ ReuseReady

(* Every request ends: executed, or refused with an error.                 *)
Served == <>(phase \in {"executed", "error"})

=============================================================================
