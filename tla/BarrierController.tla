------------------------- MODULE BarrierController -------------------------
(***************************************************************************)
(* Schema8BarrierRequestController (src/probekv/v8_schema8_runtime.py),    *)
(* which schema9 and schema10 extend: all segments stay dense through the  *)
(* first one or two layers, a winner found after layer 1 may be prepared   *)
(* detached from execution, and reuse begins once the selection barrier of *)
(* the whole request has closed.  It inherits the records and most methods *)
(* of the controller in RequestController, whose policy is fixed to        *)
(* "causal_commit_wait", and adds the barrier, the detached admissions and *)
(* the number of dense layers the request has run.                         *)
(***************************************************************************)
EXTENDS RequestController

VARIABLES layer, barrier, detached
bvars == <<vars, layer, barrier, detached>>

NotClosed == [closed |-> FALSE, depth |-> 0, reuse |-> {}]

BInit ==
    /\ Init
    /\ layer = [o \in Owners |-> 1]
    /\ barrier = [o \in Owners |-> NotClosed]
    /\ detached = [o \in Owners |-> {}]

Closed(o) == barrier[o].closed

(***************************************************************************)
(* Selection: apply_selector_decision, at the depth the request has run.   *)
(***************************************************************************)
(* A decision with a passed Gate-1 plan.  If the Source lost its backing   *)
(* since it was compared, the freeze raises and the row is left            *)
(* DECISION_READY.                                                         *)
SelectWinner(o, g, s) ==
    LET decided == DecisionReady(World, o, g, s, layer[o])
    IN  /\ Len(mgr.lease) < MaxLeases
        /\ CanDecisionReady(World, o, g)
        /\ Becomes(IF CanGate1Pass(decided, o, g)
                   THEN Gate1Passed(decided, o, g) ELSE decided)
        /\ UNCHANGED <<plans, finished, layer, barrier, detached>>

(* A decision whose Gate-1 plan failed: back to probing, or given up at 2. *)
(* The selector itself withholds such decisions; callers of decision_ready *)
(* and apply_gate1_plan need not (tests/test_v8_schema8_runtime.py:146).   *)
SelectInVain(o, g, s) ==
    /\ CanDecisionReady(World, o, g)
    /\ Becomes(Gate1Failed(DecisionReady(World, o, g, s, layer[o]),
                           o, g, layer[o] = 2))
    /\ UNCHANGED <<plans, finished, layer, barrier, detached>>

(* Selectors abstain at depth 2 only; a caller may also give up a segment  *)
(* whose freeze raised.                                                    *)
SelectorAbstains(o, g) ==
    /\ layer[o] = 2 \/ rows[o][g].sel = "decision_ready"
    /\ Abstain(o, g)
    /\ UNCHANGED <<layer, barrier, detached>>

RunSecondDenseLayer(o) ==
    /\ layer[o] = 1 /\ ~Closed(o)
    /\ layer' = [layer EXCEPT ![o] = 2]
    /\ UNCHANGED <<vars, barrier, detached>>

(***************************************************************************)
(* The barrier.                                                            *)
(***************************************************************************)
(* An abstained segment without a depth was resolved at 2.                 *)
ResolvedDepth(row) ==
    IF row.sel = "abstained" /\ row.depth = 0 THEN 2 ELSE row.depth

(* Mutant: undecided segments do not keep the barrier open.                *)
CanCloseEarly(o) == \E g \in Segments : Resolved(rows[o][g])

CanCloseBarrier(o) == SelectionClosed(o)

BarrierNow(o) ==
    [closed |-> TRUE,
     depth |-> Max({ResolvedDepth(rows[o][g]) : g \in Segments}),
     reuse |-> {g \in Segments : rows[o][g].sel = "source_frozen"}]

(* close_selection_barrier: the first decision is kept.                    *)
BarrierClosed(o) == IF Closed(o) THEN barrier[o] ELSE BarrierNow(o)

CloseSelectionBarrier(o) ==
    /\ ~Closed(o) /\ CanCloseBarrier(o)
    /\ barrier' = [barrier EXCEPT ![o] = BarrierClosed(o)]
    /\ UNCHANGED <<vars, layer, detached>>

(***************************************************************************)
(* Preparation and commit.                                                 *)
(***************************************************************************)
(* Resource admission is computed now and applied later, as a Gate-2 plan. *)
PlanPreparation(o, S, disposition) ==
    /\ S # {}
    /\ Keep(o, [kind |-> "gate2", epoch |-> hbm.epoch, to |-> [g \in S |-> disposition]])
    /\ UNCHANGED <<layer, barrier, detached>>

(* Planned for winners of layer 1 before the barrier closes.               *)
PlanDetached(o, S) ==
    /\ ~Closed(o)
    /\ \A g \in S : rows[o][g].sel = "source_frozen" /\ rows[o][g].depth = 1
    /\ PlanPreparation(o, S, "deferred")

PlanAdmission(o, S) ==
    /\ SelectionClosed(o)
    /\ \A g \in S : rows[o][g].sel = "source_frozen"
    /\ PlanPreparation(o, S, "provisional_reuse")

IsPlanFor(p, disposition) ==
    p.kind = "gate2" /\ \A g \in DOMAIN p.to : p.to[g] = disposition

(* apply_detached_preparation_admission.                                   *)
ApplyDetached(o, p) ==
    /\ IsPlanFor(p, "deferred")
    /\ ~Closed(o)
    /\ \A g \in DOMAIN p.to : rows[o][g].sel = "source_frozen" /\ rows[o][g].depth = 1
    /\ ApplyGate2(o, p)
    /\ detached' = [detached EXCEPT ![o] = @ \cup DOMAIN p.to]
    /\ UNCHANGED <<layer, barrier>>

(* Mutant: preparation is admitted before the barrier has closed.          *)
AdmitWithoutBarrier(o, p) ==
    /\ IsPlanFor(p, "provisional_reuse")
    /\ ApplyGate2(o, p)
    /\ UNCHANGED <<layer, barrier, detached>>

(* apply_preparation_admission closes the barrier first.  (When the        *)
(* snapshot turns out stale, or a segment is not a reuse segment, it       *)
(* raises and the barrier stays closed: that is CloseSelectionBarrier.)    *)
ApplyAdmission(o, p) ==
    /\ IsPlanFor(p, "provisional_reuse")
    /\ Closed(o) \/ CanCloseBarrier(o)
    /\ DOMAIN p.to \subseteq BarrierClosed(o).reuse
    /\ ApplyGate2(o, p)
    /\ barrier' = [barrier EXCEPT ![o] = BarrierClosed(o)]
    /\ UNCHANGED <<layer, detached>>

(* begin_winner_prefetch: before the barrier closes, of detached segments; *)
(* speculation exists in no other form.                                    *)
BeginBarrierPrefetch(o, g, r) ==
    /\ Closed(o) \/ g \in detached[o]
    /\ BeginWinnerPrefetch(o, g, r, ~Closed(o))
    /\ UNCHANGED <<layer, barrier, detached>>

(* gate3_eligible, overridden.                                             *)
FinalCommitEligible(o, g) == Closed(o) /\ ReadyToCommit(rows[o][g])

PlanFinalCommit(o) ==
    LET eligible == {g \in Segments : FinalCommitEligible(o, g)}
    IN  /\ eligible # {}
        /\ \E accepted \in SUBSET eligible :
             Keep(o, [kind |-> "gate3", epoch |-> hbm.epoch,
                      accepted |-> accepted, rejected |-> eligible \ accepted])
        /\ UNCHANGED <<layer, barrier, detached>>

(* apply_final_commit_admission, by way of apply_gate3_subset.             *)
ApplyFinalCommit(o, p) ==
    /\ p.kind = "gate3" /\ Closed(o) /\ Current(p)
    /\ \A g \in p.accepted \cup p.rejected : FinalCommitEligible(o, g)
    /\ Becomes(Gate3Applied(World, o, p.accepted, p.rejected))
    /\ plans' = [plans EXCEPT ![o] = @ \ {p}]
    /\ UNCHANGED <<finished, layer, barrier, detached>>

Inherited ==
    /\ \/ \E o \in Owners, g \in Segments : WinnerReady(o, g) \/ CompleteReuseExecution(o, g)
       \/ \E r \in Replicas : EvictIdleReplica(r)
    /\ UNCHANGED <<layer, barrier, detached>>

BNext ==
    \/ \E o \in Owners, g \in Segments :
         \/ \E s \in Sources : SelectWinner(o, g, s) \/ SelectInVain(o, g, s)
         \/ SelectorAbstains(o, g)
         \/ \E r \in Replicas : BeginBarrierPrefetch(o, g, r)
    \/ \E o \in Owners :
         \/ RunSecondDenseLayer(o)
         \/ CloseSelectionBarrier(o)
         \/ \E S \in SUBSET Segments : PlanDetached(o, S) \/ PlanAdmission(o, S)
         \/ PlanFinalCommit(o)
         \/ \E p \in plans[o] :
              ApplyDetached(o, p) \/ ApplyAdmission(o, p) \/ ApplyFinalCommit(o, p)
    \/ Inherited

BSpec == BInit /\ [][BNext]_bvars

(***************************************************************************)
(* Properties.                                                             *)
(***************************************************************************)
(* "It is never execution-visible before barrier closure"                  *)
(* (docs/PROBEKV_V8_SCHEMA8_NO_GPU_HANDOFF.md:27): until then no segment   *)
(* is admitted, none is committed and no lease is for execution.           *)
DenseUntilBarrier ==
    \A o \in Owners : ~Closed(o) =>
        /\ \A g \in Segments : rows[o][g].commit = "uncommitted"
                               /\ rows[o][g].gate2 # "provisional_reuse"
        /\ \A l \in Live(mgr) : mgr.lease[l].owner = o => mgr.lease[l].purpose # "execution"

(* The barrier decision is taken once and cached; it stays true of the     *)
(* rows, its depth being that of the deepest winner or rescue.             *)
BarrierAccurate ==
    \A o \in Owners : Closed(o) =>
        /\ \A g \in Segments : Resolved(rows[o][g])
        /\ barrier[o] = BarrierNow(o)
        /\ barrier[o].depth <= layer[o]

=============================================================================
