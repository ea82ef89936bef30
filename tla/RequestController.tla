------------------------- MODULE RequestController -------------------------
(***************************************************************************)
(* Several requests, each with its Schema6RequestController, over one      *)
(* lease manager and one HBM manager (src/probekv/v8_schema6_*.py).        *)
(*                                                                         *)
(* A step is one method call by a request, or one call of a planner, whose *)
(* decision is applied later: in between the other requests move, and so   *)
(* may the request itself.  The planners are pure; the estimate they       *)
(* compare with gamma is not modelled, so a decision is any one the        *)
(* planner can return for the rows it was given.                           *)
(*                                                                         *)
(* What a request does with its controller is its caller's choice.  Two    *)
(* habits of the callers are assumed, and named: it prefetches uncommitted *)
(* segments only (Wanted), and it tells the planners of a row whose reuse  *)
(* was refined to dense by leaving it out (the planners price an omitted   *)
(* segment as dense).                                                      *)
(*                                                                         *)
(* Bounds: MaxLeases grants, MaxEpoch HBM epochs, MaxPlans decisions of    *)
(* one request outstanding, MaxCompared Sources compared at once.          *)
(***************************************************************************)
EXTENDS RequestOps

CONSTANTS
    PolicyOf,      \* the execution policy of each request
    OrderOf,       \* the position of each segment in the request
    Depths,        \* completed depths at which selectors decide
    MaxLeases, MaxEpoch, MaxPlans, MaxCompared

Policies == {"causal_commit_wait", "immediate_staggered_closed_loop"}

ASSUME RequestShape ==
    /\ IsFiniteSet(Segments) /\ Segments # {}
    /\ PolicyOf \in [Owners -> Policies]
    /\ OrderOf \in [Segments -> Nat]
    /\ \A g, h \in Segments : OrderOf[g] = OrderOf[h] => g = h
    /\ Depths \subseteq Nat \ {0}

VARIABLES
    rows,          \* records, of every controller
    mgr, hbm,      \* the shared managers
    plans,         \* decisions a request has computed and not applied
    finished       \* the segments whose committed reuse has been executed

vars == <<rows, mgr, hbm, plans, finished>>

World == [rows |-> rows, m |-> mgr, h |-> hbm]
Becomes(w) == rows' = w.rows /\ mgr' = w.m /\ hbm' = w.h

Plans ==
    [kind : {"gate2"}, epoch : Nat, to : UNION {[D -> Dispositions] : D \in SUBSET Segments}]
    \cup [kind : {"gate3"}, epoch : Nat, accepted : SUBSET Segments, rejected : SUBSET Segments]

(* Every Source is registered with its Replicas, those of tier "cpu" being *)
(* the backing, before the first request.                                  *)
StockedManager ==
    [EmptyManager EXCEPT
        !.source = [s \in Sources |-> "active"],
        !.life = [r \in Replicas |-> "ready"],
        !.backing = [r \in Replicas |-> TierOf[r] = "cpu"],
        !.placement = [r \in Replicas |-> 1]]

Init ==
    /\ rows = [o \in Owners |-> [g \in Segments |-> NewRow]]
    /\ mgr = StockedManager
    /\ hbm = EmptyHbm
    /\ plans = [o \in Owners |-> {}]
    /\ finished = [o \in Owners |-> {}]

(***************************************************************************)
(* Selection.                                                              *)
(***************************************************************************)
Decide(o, g, s, depth) ==
    /\ CanDecisionReady(World, o, g)
    /\ Becomes(DecisionReady(World, o, g, s, depth))
    /\ UNCHANGED <<plans, finished>>

Gate1Pass(o, g) ==
    /\ Len(mgr.lease) < MaxLeases
    /\ CanGate1Pass(World, o, g)
    /\ Becomes(Gate1Passed(World, o, g))
    /\ UNCHANGED <<plans, finished>>

Gate1Fail(o, g, atLmax) ==
    /\ CanGate1(World, o, g)
    /\ Becomes(Gate1Failed(World, o, g, atLmax))
    /\ UNCHANGED <<plans, finished>>

Abstain(o, g) ==
    /\ CanAbstain(World, o, g)
    /\ Becomes(AbstainRow(World, o, g))
    /\ UNCHANGED <<plans, finished>>

(* selection_closed_for.                                                   *)
SelectionClosedFor(o, g) ==
    \A h \in Segments : OrderOf[h] >= OrderOf[g] => Resolved(rows[o][h])

SelectionClosed(o) == \A g \in Segments : Resolved(rows[o][g])

(* The selection workspace of a comparison of k Sources, and its release.  *)
AcquireWorkspace(o, g, k) ==
    LET n == Microbatch(hbm, k, 1, 1)
    IN  /\ hbm.epoch < MaxEpoch
        /\ rows[o][g].sel = "probing"
        /\ n > 0
        /\ CanReserve(hbm, 1 + n)
        /\ hbm' = Reserve(hbm, o, g, 1 + n, "workspace")
        /\ UNCHANGED <<rows, mgr, plans, finished>>

ReleaseWorkspace(i) ==
    /\ hbm.rows[i].kind = "workspace" /\ ~hbm.rows[i].released
    /\ hbm' = ReleaseReservation(hbm, i)
    /\ UNCHANGED <<rows, mgr, plans, finished>>

(***************************************************************************)
(* Planning.                                                               *)
(***************************************************************************)
(* Keeps the decision for later, with or without those of older epochs.    *)
Keep(o, p) ==
    \E kept \in {plans[o], {q \in plans[o] : q.epoch = hbm.epoch}} :
        /\ Cardinality(kept) < MaxPlans
        /\ plans' = [plans EXCEPT ![o] = kept \cup {p}]
        /\ UNCHANGED <<rows, mgr, hbm, finished>>

Provisional(o) == {g \in Segments : rows[o][g].gate2 = "provisional_reuse"
                                    /\ rows[o][g].commit = "uncommitted"}
PredictedDense(o) == {g \in Segments : rows[o][g].gate2 = "predicted_dense"}
Undecided(o) == {g \in Segments : rows[o][g].sel = "source_frozen"
                                  /\ rows[o][g].gate2 \in {"not_evaluated", "deferred"}}

(* plan_incremental: what was provisional or dense stays so, every other   *)
(* frozen winner is admitted, or else deferred until selection closes.     *)
PlanIncremental(o) ==
    LET new == Undecided(o)
        turnedDown == IF SelectionClosed(o) THEN "predicted_dense" ELSE "deferred"
    IN  /\ new # {}
        /\ \E admitted \in SUBSET new :
             Keep(o, [kind |-> "gate2", epoch |-> hbm.epoch,
                      to |-> [g \in Provisional(o) \cup PredictedDense(o) \cup new |->
                                CASE g \in Provisional(o) \cup admitted -> "provisional_reuse"
                                  [] g \in PredictedDense(o) -> "predicted_dense"
                                  [] OTHER -> turnedDown]])

(* Mutant: policy A commits as early as policy C.                          *)
Gate3EligibleAtOnce(o, g) == ReadyToCommit(rows[o][g])

(* gate3_eligible.                                                         *)
Gate3Eligible(o, g) ==
    /\ ReadyToCommit(rows[o][g])
    /\ \/ PolicyOf[o] = "immediate_staggered_closed_loop"
       \/ SelectionClosedFor(o, g)

(* plan_subset of the eligible segments.                                   *)
PlanSubset(o) ==
    LET eligible == {g \in Segments : Gate3Eligible(o, g)}
    IN  /\ eligible # {}
        /\ \E accepted \in SUBSET eligible :
             Keep(o, [kind |-> "gate3", epoch |-> hbm.epoch,
                      accepted |-> accepted, rejected |-> eligible \ accepted])

(* PlannerSnapshot.assert_current: of what a snapshot names only the HBM   *)
(* epoch changes while a request runs.                                     *)
Current(p) == p.epoch = hbm.epoch

ApplyGate2(o, p) ==
    /\ p.kind = "gate2" /\ Current(p)
    /\ \E w \in Gate2Applied(World, o, p.to) : Becomes(w)
    /\ plans' = [plans EXCEPT ![o] = @ \ {p}]
    /\ UNCHANGED finished

ApplyGate3(o, p) ==
    /\ p.kind = "gate3" /\ Current(p)
    /\ \A g \in p.accepted \cup p.rejected : Gate3Eligible(o, g)
    /\ Becomes(Gate3Applied(World, o, p.accepted, p.rejected))
    /\ plans' = [plans EXCEPT ![o] = @ \ {p}]
    /\ UNCHANGED finished

(***************************************************************************)
(* Preparation and execution.                                              *)
(***************************************************************************)
(* The segments whose winner a caller prefetches.                          *)
Wanted(o, g) == rows[o][g].commit = "uncommitted"

BeginWinnerPrefetch(o, g, r, admitted) ==
    /\ Len(mgr.lease) < MaxLeases /\ hbm.epoch < MaxEpoch
    /\ Wanted(o, g)
    /\ CanBeginPrefetch(World, o, g, r, admitted)
    /\ Becomes(BeginPrefetch(World, o, g, r, admitted))
    /\ UNCHANGED <<plans, finished>>

WinnerReady(o, g) ==
    /\ CanMarkWinnerReady(World, o, g)
    /\ Becomes(MarkWinnerReady(World, o, g))
    /\ UNCHANGED <<plans, finished>>

RealizedOverrun(o, g) ==
    /\ rows[o][g].gate2 = "deferred"
    /\ Becomes(RecordOverrun(World, o, g))
    /\ UNCHANGED <<plans, finished>>

CompleteReuseExecution(o, g) ==
    /\ CanCompleteReuse(World, o, g)
    /\ Becomes(CompleteReuse(World, o, g))
    /\ finished' = [finished EXCEPT ![o] = @ \cup {g}]
    /\ UNCHANGED plans

EvictIdleReplica(r) ==
    /\ CanEvictReplica(mgr, r)
    /\ mgr' = EvictReplica(mgr, r)
    /\ UNCHANGED <<rows, hbm, plans, finished>>

SelectionStep ==
    \E o \in Owners, g \in Segments :
        \/ \E s \in Sources, depth \in Depths : Decide(o, g, s, depth)
        \/ Gate1Pass(o, g)
        \/ \E atLmax \in BOOLEAN : Gate1Fail(o, g, atLmax)
        \/ Abstain(o, g)
        \/ \E k \in 1..MaxCompared : AcquireWorkspace(o, g, k)

PlannerStep ==
    \E o \in Owners :
        \/ PlanIncremental(o)
        \/ PlanSubset(o)
        \/ \E p \in plans[o] : ApplyGate2(o, p) \/ ApplyGate3(o, p)

PreparationStep ==
    \E o \in Owners, g \in Segments :
        \/ \E r \in Replicas, admitted \in BOOLEAN : BeginWinnerPrefetch(o, g, r, admitted)
        \/ WinnerReady(o, g)
        \/ RealizedOverrun(o, g)
        \/ CompleteReuseExecution(o, g)

Next ==
    \/ SelectionStep
    \/ PlannerStep
    \/ PreparationStep
    \/ \E i \in DOMAIN hbm.rows : ReleaseWorkspace(i)
    \/ \E r \in Replicas : EvictIdleReplica(r)

Spec == Init /\ [][Next]_vars

(***************************************************************************)
(* Properties.                                                             *)
(***************************************************************************)
TypeOK ==
    /\ rows \in [Owners -> [Segments -> Rows]]
    /\ mgr \in ManagerStates
    /\ hbm.epoch \in Nat
    /\ \A i \in DOMAIN hbm.rows :
         hbm.rows[i] \in [owner : Owners, segment : Segments, bytes : Nat \ {0},
                          kind : ReservationKinds, released : BOOLEAN]
    /\ \A o \in Owners : \A p \in plans[o] : p \in Plans
    /\ finished \in [Owners -> SUBSET Segments]

(* No sequence of calls makes a validate() raise after a method has        *)
(* changed the row (v8_schema6_contracts.py:79).                           *)
RowsValid == \A o \in Owners, g \in Segments : Validates(rows[o][g])

(* All reservations of all requests leave the safety reserve alone         *)
(* (v8_schema6_hbm.py:84).                                                 *)
SafetyReserveKept ==
    ActiveReservedBytes(hbm) <= HbmCapacity - HbmExternal - HbmSafety

HoldsLease(o, g, id, purpose) ==
    /\ id \in Live(mgr)
    /\ mgr.lease[id].owner = o /\ mgr.lease[id].segment = g
    /\ mgr.lease[id].source = rows[o][g].source
    /\ mgr.lease[id].purpose = purpose

HoldsHbm(o, g, id, kind) ==
    /\ id \in Unreleased(hbm)
    /\ hbm.rows[id].owner = o /\ hbm.rows[id].segment = g /\ hbm.rows[id].kind = kind

(* A prepared segment owns what protects and pays for its copy: a          *)
(* speculative lease with a prefetch reservation while Gate 2 defers it,   *)
(* an execution lease with an execution reservation once it is             *)
(* provisional, and the logical lease of its Source, until its committed   *)
(* execution is finished.                                                  *)
PreparationOwned ==
    \A o \in Owners, g \in Segments :
        LET row == rows[o][g]
        IN  row.prep # "none" /\ g \notin finished[o] =>
              /\ HoldsLease(o, g, row.logical, "logical")
              /\ \/ /\ row.gate2 = "deferred"
                    /\ HoldsLease(o, g, row.physical, "speculative")
                    /\ HoldsHbm(o, g, row.hbm, "prefetch")
                 \/ /\ row.gate2 = "provisional_reuse"
                    /\ HoldsLease(o, g, row.physical, "execution")
                    /\ HoldsHbm(o, g, row.hbm, "execution")

(* The converse: whatever is leased or reserved, failed reservations and   *)
(* rejections included, belongs to a row that still needs it.  A segment   *)
(* that became dense, or has been executed, holds nothing.                 *)
Dense(row) == row.gate2 = "predicted_dense" \/ row.commit = "refined_dense"

NothingLeaks ==
    /\ \A l \in Live(mgr) :
         LET lease == mgr.lease[l]
             row == rows[lease.owner][lease.segment]
         IN  /\ l = IF lease.replica = NoReplica THEN row.logical ELSE row.physical
             /\ ~Dense(row) /\ lease.segment \notin finished[lease.owner]
    /\ \A i \in Unreleased(hbm) :
         LET row == rows[hbm.rows[i].owner][hbm.rows[i].segment]
         IN  hbm.rows[i].kind # "workspace" =>
               i = row.hbm /\ ~Dense(row)
               /\ hbm.rows[i].segment \notin finished[hbm.rows[i].owner]

(* What two requests that meet must keep: their rows are combinations the  *)
(* code allows, what they lease and reserve is given back, and the safety  *)
(* reserve survives.                                                       *)
TwoRequestsHold == RowsValid /\ NothingLeaks /\ SafetyReserveKept

(* Policy A waits before an earlier reuse commit would alter the state     *)
(* that unresolved later segments are selected from                        *)
(* (docs/PROBEKV_V8_PROTOCOL.md:202).                                      *)
CausalCommit ==
    \A o \in Owners, g \in Segments :
        PolicyOf[o] = "causal_commit_wait" /\ rows[o][g].commit = "reuse_commit"
        => SelectionClosedFor(o, g)

(***************************************************************************)
(* The fate of a segment, which the public chain promises.                 *)
(***************************************************************************)
FateOf(o, g) ==
    LET row == rows[o][g]
    IN  IF row.sel = "abstained" \/ Dense(row) THEN "dense"
        ELSE IF row.commit = "reuse_commit" THEN "reuse"
        ELSE IF row.gate2 = "provisional_reuse" THEN "admitted" ELSE "undecided"

Chain == INSTANCE SegmentFate WITH
            fate <- [o \in Owners |-> [g \in Segments |-> FateOf(o, g)]]

(* Every step of the controllers is a step of the public chain or leaves   *)
(* all fates alone: late decisions, made before a promotion or a commit,   *)
(* never undo it.                                                          *)
FollowsChain == Chain!Spec

=============================================================================
