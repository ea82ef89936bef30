--------------------------- MODULE ReuseExecutor ---------------------------
(***************************************************************************)
(* V6A800RuntimeExecutor._reuse_generate (src/probekv/                     *)
(* v6_a800_executor.py:851-1336) for schema 8 and later: the order in      *)
(* which the executor of a request calls the engine, the authorizations it *)
(* takes and gives back, and the errors that end it on the way.            *)
(***************************************************************************)
EXTENDS OnlineEngine

CONSTANTS Order, OfferedPlans   \* index of each segment; plans callers supply

ASSUME SegmentsInOrder ==
    /\ Order \in [Segments -> 1..Cardinality(Segments)]
    /\ \A g, h \in Segments : g # h => Order[g] # Order[h]

(* A plan is validated when it is built, whatever controller built it.     *)
ASSUME OfferedPlansAreLegal ==
    \A sched \in OfferedPlans :
        /\ sched \in [Segments -> [Layers -> 1..100 \cup {NoRatio}]]
        /\ \E scope \in {"uniform_fixed", "development", "shared_relative",
                         "per_segment_load_aware", "uniform_io"}, certified \in BOOLEAN :
               PlanLegal(sched, scope, certified)

VARIABLES
    caller,     \* "executor", or "any" for the calls of OnlineEngine in any order
    pc, probe,  \* step of the executor and its first_probe layer
    reuseAt,    \* boundaries, chosen once every winner is on the device
    forced      \* force_nonpaper_measurement_admission
xvars == <<evars, caller, pc, probe, reuseAt, forced>>
kept == <<caller, probe, reuseAt, forced>>

ExecutorInit ==
    /\ EngineInit
    /\ caller \in {"executor", "any"}
    /\ pc = "probe" /\ probe \in {1, 2}
    /\ reuseAt = [g \in Segments |-> 0]
    /\ forced \in IF caller = "executor" THEN BOOLEAN ELSE {FALSE}

Goto(step) == pc' = step /\ UNCHANGED kept
Foremost(G) == CHOOSE g \in G : \A h \in G : Order[g] <= Order[h]

(* Dense layers, then the winner of every segment, then the barrier.       *)
Probe ==
    /\ pc = "probe" /\ session.layer < probe
    /\ AdvanceOneLayer /\ Goto("probe")

FreezeNext ==
    /\ pc = "probe" /\ session.layer = probe /\ FrozenSegments # Segments
    /\ LET g == Foremost(Segments \ FrozenSegments) IN FreezeSource(g, WinnerOf[g])
    /\ Goto("probe")

CloseBarrier ==
    /\ pc = "probe" /\ session.layer = probe /\ FrozenSegments = Segments
    /\ ConfigureBarrier /\ Goto("admit")

Admit == pc = "admit" /\ AdmitPreparation(Segments) /\ Goto("authorize")

(* All authorizations before the first prefetch.                           *)
Unauthorized == {g \in Segments : auth[g] = "none"}

AuthorizeNext ==
    /\ pc = "authorize" /\ AuthorizeTransfer(Foremost(Unauthorized))
    /\ Goto(IF Cardinality(Unauthorized) = 1 THEN "prefetch" ELSE "authorize")

PrefetchNext ==
    /\ pc = "prefetch"
    /\ LET g == Foremost(Segments \ Tickets) IN StartPrefetch(g, frozen[g])
    /\ Goto(IF Cardinality(Segments \ Tickets) = 1 THEN "wait" ELSE "prefetch")

(* Mutant: an authorization only covers the copy.                          *)
WinnersArrivedAndReleased ==
    /\ pc = "wait" /\ \A g \in Segments : loaded[g] = TotalLayers
    /\ reuseAt' \in [Segments -> probe + 1..TotalLayers]
    /\ auth' = [g \in Segments |-> "released"]
    /\ pc' = "plan"
    /\ UNCHANGED <<session, frozen, loaded, composite, ran, barrier, admitted, plan,
                   forbidden, caller, probe, forced>>

(* Mutant: one event more than there are layers.                           *)
WinnersNeverArrive ==
    /\ pc = "wait" /\ \A g \in Segments : loaded[g] > TotalLayers
    /\ reuseAt' \in [Segments -> probe + 1..TotalLayers]
    /\ auth' = [g \in Segments |-> "ready"]
    /\ pc' = "plan"
    /\ UNCHANGED <<session, frozen, loaded, composite, ran, barrier, admitted, plan,
                   forbidden, caller, probe, forced>>

(* Every layer event is synchronized; then the boundaries are fixed and    *)
(* the authorizations marked ready.                                        *)
WinnersArrived ==
    /\ pc = "wait" /\ \A g \in Segments : loaded[g] = TotalLayers
    /\ reuseAt' \in [Segments -> probe + 1..TotalLayers]
    /\ auth' = [g \in Segments |-> "ready"]
    /\ pc' = "plan"
    /\ UNCHANGED <<session, frozen, loaded, composite, ran, barrier, admitted, plan,
                   forbidden, caller, probe, forced>>

(* An endpoint needs no plan; a plan admits its segments only under        *)
(* measurement, since no joint decision is passed to the engine.           *)
AdmitEndpoint ==
    /\ pc = "plan"
    /\ \E e \in {"r0", "r1"} : AuthorizeFinalCommit(Segments, e)
    /\ Goto("commit")

InstallPlan ==
    /\ pc = "plan"
    /\ \E sched \in OfferedPlans : InstallRepairRatioPlan(sched)
    /\ Goto("final")

AdmitMeasured ==
    /\ pc = "final" /\ forced
    /\ AuthorizeFinalCommit(Segments, "none") /\ Goto("commit")

(* By increasing boundary: run up to it, commit its segments, run it.      *)
Uncommitted == Segments \ Committed(session)
NextBoundary == Min({reuseAt[g] : g \in Uncommitted})
Due == {g \in Uncommitted : reuseAt[g] = NextBoundary}

CommitNext ==
    /\ pc = "commit" /\ Uncommitted # {}
    /\ IF session.layer < NextBoundary - 1
       THEN AdvanceOneLayer
       ELSE CommitReadySegment(Foremost(Due), NextBoundary, NextBoundary)
    /\ Goto("commit")

(* The last boundary layer is run by the engine, all later ones by         *)
(* finish_prefill.                                                         *)
LastBoundary == Max({reuseAt[g] : g \in Segments})

RunLastBoundary ==
    /\ pc = "commit" /\ Uncommitted = {} /\ session.layer < LastBoundary
    /\ AdvanceOneLayer /\ Goto("commit")

Finish ==
    /\ pc = "commit" /\ Uncommitted = {} /\ session.layer = LastBoundary
    /\ FinishPrefill /\ Goto("decode")

Decode ==
    /\ pc = "decode" /\ ~forbidden
    /\ auth' = [g \in Segments |-> "released"]
    /\ UNCHANGED <<session, frozen, loaded, composite, ran, barrier, admitted, plan, forbidden>>
    /\ Goto("done")

(* Errors leave everything as it is.  The engine refuses a plan without a  *)
(* joint decision, a boundary the plan has no ratio for, and a plan that   *)
(* asks for rows its segment no longer has.                                *)
Unplanned ==
    \E g \in Uncommitted : plan # NoPlan /\ plan[g][reuseAt[g]] = NoRatio

Refused ==
    /\ \/ pc = "final" /\ ~forced
       \/ pc = "commit" /\ (Unplanned \/ (CanRunLayer(session) /\ Reentry(session.layer + 1)))
    /\ UNCHANGED evars /\ Goto("failed")

(* An authorizer without HBM or leases, a copy or a kernel that fails.     *)
Raise ==
    /\ pc \notin {"done", "failed"} /\ UNCHANGED evars
    /\ Goto("failed")

ExecutorStep ==
    \/ Probe \/ FreezeNext \/ CloseBarrier \/ Admit \/ AuthorizeNext \/ PrefetchNext
    \/ WinnersArrived \/ AdmitEndpoint \/ InstallPlan \/ AdmitMeasured
    \/ CommitNext \/ RunLastBoundary \/ Finish \/ Decode \/ Refused

CopyStream == \E g \in Segments : LayerArrives(g)

Next ==
    \/ caller = "executor" /\ (ExecutorStep \/ Raise)
    \/ caller = "any" /\ AnyCall(OfferedPlans) /\ UNCHANGED <<pc, kept>>
    \/ CopyStream /\ UNCHANGED <<pc, kept>>

(* The executor's thread runs until it blocks on a copy, and the copy      *)
(* stream of the device finishes what was put on it.                       *)
Spec ==
    /\ ExecutorInit /\ [][Next]_xvars
    /\ WF_xvars(caller = "executor" /\ ExecutorStep)
    /\ WF_xvars(CopyStream /\ UNCHANGED <<pc, kept>>)

(***************************************************************************)
(* Properties.                                                             *)
(***************************************************************************)
(* An executor's request comes to an end, with its result or an error: it  *)
(* never waits for a layer that is not being copied.                       *)
RequestEnds == caller = "executor" ~> pc \in {"done", "failed"}

(* Every layer a committed segment runs has its Source rows in the old-KV  *)
(* buffer: "committed Source layer is not ready; scheduler must wait"      *)
(* (cacheblend_v6_online_engine.py:534).  Not so in the layers after the   *)
(* last boundary, which finish_prefill runs without installing them.       *)
CommittedRowsInstalled ==
    caller = "executor" =>
        \A g \in Committed(session) : \A l \in session.boundary[g]..session.layer :
            g \in composite[l]

(* The lease and HBM of a transfer are held from before its first byte     *)
(* until the request has decoded, and given back once it has.              *)
AuthorizedThroughout ==
    caller = "executor" =>
        /\ pc # "done" => \A g \in Tickets : auth[g] \in {"held", "ready"}
        /\ pc = "done" => \A g \in Segments : auth[g] = "released"
=============================================================================
